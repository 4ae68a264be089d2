------------------------------ MODULE ExomStore ------------------------------
(***************************************************************************)
(* The five tables of one exom on disk and the brain in memory that is     *)
(* saved to them (src/brain.rs, mutate_exom in src/server.rs).             *)
(*                                                                         *)
(* An operation changes the brain and saves its tables one after the       *)
(* other; then all five are saved once more and the caller gets its        *)
(* answer.  The process may stop between two saves, a save may fail and    *)
(* end the operation with what it had done, and a table may fail to load.  *)
(*                                                                         *)
(* Each save is atomic: SplayTable shows why.  Of a table this module      *)
(* keeps which transactions have left something in it, a new row or a      *)
(* stamp on an old one; of a transaction, which operation it belongs to.   *)
(* What rows say is in module Brain, and who writes the branch table       *)
(* beside the lock in module WriteGate.                                    *)
(***************************************************************************)
EXTENDS Naturals, SequencesExt

CONSTANTS
    MaxOps,         \* bound: operations begun
    MaxPayload,     \* bound: transactions of an imported exom, and facts retracted at once
    MaxCrashes,     \* bound: stops of the process
    MaxFaults       \* bound: failing saves, removals and opens with failing loads

ASSUME StoreAssumption ==
    /\ MaxOps \in Nat /\ MaxPayload \in Nat
    /\ MaxCrashes \in Nat /\ MaxFaults \in Nat

VARIABLES
    brain,      \* the brain in memory, or Closed
    disk,       \* the tables on disk
    there,      \* exom.json exists
    todo,       \* the steps left of the operation under the lock
    op,         \* the number of operations begun
    acked,      \* what operations that returned Ok left, by table
    mixed,      \* the tables are being replaced: some hold the old brain, some the new one
    torn,       \* an exom was opened from such tables, or without its transactions
    unread,     \* tables that failed to load and were taken to be empty
    crashes, faults

vars == <<brain, disk, there, todo, op, acked, mixed, torn, unread, crashes, faults>>

\* The order of Brain::save
Order == <<"tx", "fact", "observation", "belief", "branch">>
Tables == ToSet(Order)
RowTables == Tables \ {"tx"}

\* What transaction id, of an operation, left in a table; archived branches have no id.
Entry == [id : Nat, op : Nat]

Empty == [t \in Tables |-> <<>>]
Closed == [tables |-> Empty, next |-> 0]

\* A slip to catch: the number of transactions for the next identifier.
NextIdByCount(txs) == IF txs = <<>> THEN 1 ELSE Len(txs)

\* open_exom, replace_state: next_tx
NextId(txs) == IF txs = <<>> THEN 1 ELSE Last(txs).id + 1

BrainOf(tables) == [tables |-> tables, next |-> NextId(tables["tx"])]

-----------------------------------------------------------------------------
(* The operations, each as the steps it takes *)

Step(name, table) == [name |-> name, table |-> table, tolerated |-> FALSE]
Tolerated(steps) == [i \in DOMAIN steps |-> [steps[i] EXCEPT !.tolerated = TRUE]]

save == [i \in DOMAIN Order |-> Step("save", Order[i])]

alloc_tx == <<Step("alloc", "tx")>>

\* assert_fact, retract_fact, retract_fact_exact; assert_observation; revise_belief,
\* revoke_belief; create_branch
Transaction(table) == alloc_tx \o <<Step("row", table)>>

\* archive_branch and set_branch_claim have no transaction.
Unlogged == <<Step("row", "branch")>>

merge_branch == Transaction("fact") \o alloc_tx
eval_assert == Transaction("fact") \o save
replace_state == <<Step("replace", "tx")>> \o save
wipe == <<Step("reset", "tx"), Step("remove", "tx")>>

\* api_retract_all goes on when one of its retractions fails.
retract_all == Tolerated(Transaction("fact") \o Transaction("fact"))

Operations ==
    {Transaction(t) : t \in RowTables}
        \union {Unlogged, merge_branch, eval_assert, replace_state, wipe, retract_all}

-----------------------------------------------------------------------------

Begin ==
    /\ brain # Closed /\ todo = <<>> /\ op < MaxOps
    /\ op' = op + 1
    /\ \E steps \in Operations : todo' = steps \o save \o <<Step("return", "tx")>>
    /\ UNCHANGED <<brain, disk, there, acked, mixed, torn, unread, crashes, faults>>

At(name) == todo # <<>> /\ Head(todo).name = name

Advance == todo' = Tail(todo) /\ UNCHANGED faults

\* An error ends the operation; a tolerated one ends its transaction.
Fail ==
    /\ faults < MaxFaults /\ faults' = faults + 1
    /\ todo' = IF ~Head(todo).tolerated THEN <<>>
               ELSE IF Head(todo).name = "alloc" THEN SubSeq(todo, 3, Len(todo))
               ELSE Tail(todo)

\* rebuild_splay: save_table, then sym_save, which may fail when the table is saved.
Saving(table, b) ==
    \/ disk' = [disk EXCEPT ![table] = b.tables[table]] /\ Advance
    \/ disk' \in {disk, [disk EXCEPT ![table] = b.tables[table]]} /\ Fail

Pushed(b, table, id) ==
    [b EXCEPT !.tables[table] = Append(@, [id |-> id, op |-> op])]

\* A slip to catch: the transaction is saved with everything else, after its row.
AllocUnsaved ==
    /\ At("alloc")
    /\ brain' = [Pushed(brain, "tx", brain.next) EXCEPT !.next = @ + 1]
    /\ Advance
    /\ UNCHANGED <<disk, there, op, acked, mixed, torn, unread, crashes>>

Alloc ==
    /\ At("alloc")
    /\ brain' = [Pushed(brain, "tx", brain.next) EXCEPT !.next = @ + 1]
    /\ Saving("tx", brain')
    /\ UNCHANGED <<there, op, acked, mixed, torn, unread, crashes>>

\* The row of the transaction just allocated, or of none.
Row ==
    LET table == Head(todo).table
        id == IF brain.tables["tx"] # <<>> /\ Last(brain.tables["tx"]).op = op THEN brain.next - 1 ELSE 0
    IN  /\ At("row")
        /\ brain' = Pushed(brain, table, id)
        /\ Saving(table, brain')
        /\ UNCHANGED <<there, op, acked, mixed, torn, unread, crashes>>

Save ==
    /\ At("save")
    /\ Saving(Head(todo).table, brain)
    /\ UNCHANGED <<brain, there, op, acked, mixed, torn, unread, crashes>>

\* The brain is exchanged as a whole, in memory; what was promised of the old one is over.
Exchanged(tables) ==
    /\ brain' = BrainOf(tables)
    /\ Advance
    /\ acked' = {} /\ mixed' = TRUE /\ torn' = FALSE /\ unread' = {}
    /\ UNCHANGED <<disk, there, op, crashes>>

Payload(n) == [i \in 1..n |-> [id |-> i, op |-> op]]

Replace ==
    /\ At("replace")
    /\ \E n \in 0..MaxPayload :
          Exchanged([Empty EXCEPT !["tx"] = Payload(n), !["fact"] = Payload(n)])

Reset == At("reset") /\ Exchanged(Empty)

\* api_wipe removes the directory with exom.json, or fails with a part of it removed.
RemoveExom ==
    /\ At("remove")
    /\ there' \in BOOLEAN
    /\ \E gone \in SUBSET Tables :
          /\ disk' = [t \in Tables |-> IF t \in gone THEN <<>> ELSE disk[t]]
          /\ Fail \/ (gone = Tables /\ ~there' /\ Advance)
    /\ there' => there
    /\ UNCHANGED <<brain, op, acked, mixed, torn, unread, crashes>>

Left(b) == UNION {{[table |-> t, entry |-> e] : e \in {e \in ToSet(b.tables[t]) : e.op = op}} : t \in Tables}

Return ==
    /\ At("return")
    /\ acked' = acked \union Left(brain)
    /\ mixed' = FALSE
    /\ Advance
    /\ UNCHANGED <<brain, disk, there, op, torn, unread, crashes>>

-----------------------------------------------------------------------------
(* The brain goes and comes *)

\* evict_cached_exom
Evict ==
    /\ brain # Closed /\ todo = <<>>
    /\ brain' = Closed
    /\ UNCHANGED <<disk, there, todo, op, acked, mixed, torn, unread, crashes, faults>>

Crash ==
    /\ brain # Closed /\ crashes < MaxCrashes
    /\ crashes' = crashes + 1
    /\ brain' = Closed /\ todo' = <<>>
    /\ UNCHANGED <<disk, there, op, acked, mixed, torn, unread, faults>>

\* A slip to catch: observations are not loaded.
LoadedButObservations(lost) ==
    [t \in Tables |-> IF t \in lost \union {"observation"} THEN <<>> ELSE disk[t]]

Loaded(lost) == [t \in Tables |-> IF t \in lost THEN <<>> ELSE disk[t]]

\* open_exom takes a table that load_table cannot read for empty.
Open ==
    /\ brain = Closed /\ there
    /\ \E lost \in SUBSET {t \in Tables : disk[t] # <<>>} :
          /\ lost # {} => faults < MaxFaults
          /\ faults' = faults + (IF lost = {} THEN 0 ELSE 1)
          /\ brain' = BrainOf(Loaded(lost))
          /\ unread' = unread \union lost
          /\ torn' = (torn \/ mixed \/ "tx" \in lost)
    /\ mixed' = FALSE
    /\ UNCHANGED <<disk, there, todo, op, acked, crashes>>

-----------------------------------------------------------------------------

Init ==
    /\ brain = BrainOf(Empty) /\ disk = Empty /\ there = TRUE
    /\ todo = <<>> /\ op = 0
    /\ acked = {} /\ mixed = FALSE /\ torn = FALSE /\ unread = {}
    /\ crashes = 0 /\ faults = 0

Next ==
    \/ Begin \/ Alloc \/ Row \/ Save \/ Replace \/ Reset \/ RemoveExom \/ Return
    \/ Evict \/ Crash \/ Open

Spec == Init /\ [][Next]_vars

-----------------------------------------------------------------------------
(* Properties *)

\* Tables hold entries of operations begun, and a brain numbers its transactions from 1.
TypeOK ==
    /\ \A t \in Tables : \A e \in ToSet(disk[t]) \union ToSet(brain.tables[t]) :
          e \in Entry /\ e.op \in 1..op
    /\ \A e \in ToSet(brain.tables["tx"]) : e.id \in 1..(brain.next - 1)
    /\ brain # Closed => brain.next \in Nat \ {0}
    /\ unread \subseteq Tables

\* What an operation that returned Ok left is on disk, and in the brain when it is open,
\* through every later operation, error, eviction, stop and open, until an import or a wipe
\* replaces it: all but what was in a table that once failed to load, which the next
\* operation saves as it was read, and no table takes another with it.
AcknowledgedIsKept ==
    \A a \in acked : a.table \notin unread =>
        /\ a.entry \in ToSet(disk[a.table])
        /\ brain # Closed => a.entry \in ToSet(brain.tables[a.table])

\* A row, or a stamp, on disk or in memory, carries the identifier of the transaction of its
\* own operation, and no two transactions share one: whatever fails or stops between the save
\* of a transaction and that of its row, no identifier is given out again.  Unless an import
\* or a wipe was cut short, or the transactions failed to load.
Ascending(txs) == \A i, j \in DOMAIN txs : i < j => txs[i].id < txs[j].id

OwnTransactions(tables) ==
    /\ Ascending(tables["tx"])
    /\ \A t \in RowTables : \A e \in ToSet(tables[t]) : e.id # 0 => e \in ToSet(tables["tx"])

EffectsHaveTheirTransaction ==
    ~mixed /\ ~torn => OwnTransactions(disk) /\ OwnTransactions(brain.tables)

=============================================================================
