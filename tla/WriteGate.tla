----------------------------- MODULE WriteGate -----------------------------
(***************************************************************************)
(* The handlers that write to one exom, and the gate in front of them      *)
(* (src/server.rs, src/mcp.rs, src/brain.rs).                              *)
(*                                                                         *)
(* A handler is a sequence of steps; between two of them another request   *)
(* may run.  The gate reads exom.json and the branch table from disk and   *)
(* stamps its claim there, without a lock; the mutation runs on the cached *)
(* brain under the lock of the cache, loading it if it is absent, and ends *)
(* by saving every table of that brain.  So the cache and the disk each    *)
(* hold a copy of the branch table, and a step may act on what an earlier  *)
(* step of the same request read.                                          *)
(*                                                                         *)
(* Of the brain (module Brain) this module keeps the order of its          *)
(* transactions, the branch rows with their claims and the branches on     *)
(* which the close marker is live.  main is in every branch table: where a *)
(* table has no row for it the code inserts one as it loads the table.     *)
(* commit_for_user, between the gate and the mutation, always admits and   *)
(* changes no state of the exom.                                           *)
(***************************************************************************)
EXTENDS Access

CONSTANTS
    Users,
    Creator,        \* created_by of the exom, and initiated_by if it is a session
    Path,           \* the path of the exom
    Grants,         \* Grants[u]: the shares of u
    Branches, Main,
    Nobody,         \* claimed_by_user_email = None, and no snapshot held
    MaxRequests,    \* bound: requests begun
    MaxParallel,    \* bound: requests in progress
    MaxCrashes      \* bound: restarts

ASSUME GateAssumption ==
    /\ Creator \in Users
    /\ Main \in Branches
    /\ Nobody \notin Users
    /\ MaxRequests \in Nat
    /\ MaxParallel \in Nat \ {0}
    /\ MaxCrashes \in Nat

VARIABLES
    meta,       \* exom.json
    disk,       \* the tables of the exom on disk: the state of a brain
    cache,      \* AppState.exoms at Path: a brain and acl_mode, or Absent
    req,        \* req[p]: what is left of request p
    begun,      \* requests begun
    crashes     \* restarts

vars == <<meta, disk, cache, req, begun, crashes>>

Slots == 1..MaxParallel

Modes == {"solo-edit", "co-edit"}
Kinds == {"bare", "session"}

Meta == [there : BOOLEAN, kind : Kinds, mode : Modes, closed : BOOLEAN]

\* revived: an archived row and, after it, a live one with the same id.
Row == [status : {"absent", "live", "archived", "revived"}, owner : Users \cup {Nobody}]

Rows == [Branches -> Row]

\* A transaction: who, on which branch, and whether it is about the close marker.
Tx == [user : Users, branch : Branches, marker : BOOLEAN]

Brain == [log : Seq(Tx), rows : Rows, closed : SUBSET Branches]

Absent == [brain |-> Nobody]

Preds == {"fact", "session/closed_at", "session/label"}

Steps == {"guard_write", "guard_owner", "precheck", "join", "claim", "store", "evict",
          "orchestrator", "branch_on_disk", "assert", "retract", "create", "archive", "merge",
          "import", "retract_all", "wipe", "eval_assert", "eval_retract", "eval_rule",
          "read_mode", "publish_mode", "set_mode", "mirror_read", "mirror_write"}

Request == [todo : Seq(Steps), user : Users, branch : Branches, pred : Preds,
            held : Rows \cup Meta \cup {Nobody}, gated : BOOLEAN, alone : BOOLEAN]

Idle(p) == req[p].todo = <<>>
Busy(p) == ~Idle(p)

-----------------------------------------------------------------------------
(* The handlers, each as the steps it takes; branches and predicates it may *)
(* be called with                                                           *)

Calls(steps, branches, preds) ==
    [todo : {steps}, user : Users, branch : branches, pred : preds,
     held : {Nobody}, gated : {FALSE}, alone : {TRUE, FALSE}]

Gate == <<"precheck", "claim", "evict">>
Mirror == <<"mirror_read", "mirror_write">>

api_assert_fact ==
    Calls(<<"guard_write">> \o Gate \o <<"assert">> \o Mirror, Branches, Preds)
tool_assert_fact == Calls(Gate \o <<"assert">> \o Mirror, Branches, Preds)
tool_retract_fact ==
    Calls(Gate \o <<"retract">>, Branches, {"fact", "session/closed_at"})
tool_observe == Calls(Gate \o <<"assert">>, Branches, {"fact"})
tool_believe == Calls(Gate \o <<"assert">>, Branches, {"fact"})
tool_revoke_belief == Calls(Gate \o <<"retract">>, Branches, {"fact"})

\* For a new branch the gate is asked about its parent, here the branch of the call.
api_create_branch == Calls(<<"guard_write">> \o Gate \o <<"create">>, Branches, {"fact"})
tool_create_branch == Calls(<<"create">>, Branches, {"fact"})
api_branch_create ==
    Calls(<<"guard_write", "orchestrator", "branch_on_disk">>, Branches, {"fact"})
api_delete_branch_handler == Calls(<<"guard_write", "archive">>, Branches, {"fact"})
tool_archive_branch == Calls(<<"guard_write", "archive">>, Branches, {"fact"})
api_merge_branch_handler ==
    Calls(<<"guard_write">> \o Gate \o <<"merge">>, Branches, {"fact"})
tool_merge_branch == Calls(<<"guard_write", "merge">>, Branches, {"fact"})

api_eval ==
    UNION {Calls(<<"guard_write", op>>, Branches, {"fact"}) :
              op \in {"eval_assert", "eval_retract", "eval_rule"}}
api_import_json == Calls(<<"guard_write", "import">>, {Main}, {"fact"})
api_retract_all == Calls(<<"guard_owner">> \o Gate \o <<"retract_all">>, {Main}, {"fact"})
api_wipe == Calls(<<"guard_owner">> \o Gate \o <<"wipe">>, {Main}, {"fact"})
api_exom_mode == Calls(<<"read_mode", "publish_mode", "set_mode">>, {Main}, {"fact"})
tool_exom_mode == Calls(<<"read_mode", "publish_mode", "set_mode">>, {Main}, {"fact"})

api_session_join == Calls(<<"guard_write", "join", "claim">>, Branches, {"fact"})
tool_session_join == Calls(<<"join", "claim", "evict">>, Branches, {"fact"})
tool_session_close == Calls(<<"assert">> \o Mirror, {Main}, {"session/closed_at"})

Handlers ==
    api_assert_fact \cup tool_assert_fact \cup tool_retract_fact \cup tool_observe
    \cup tool_believe \cup tool_revoke_belief \cup api_create_branch
    \cup tool_create_branch \cup api_branch_create \cup api_delete_branch_handler
    \cup tool_archive_branch \cup api_merge_branch_handler \cup tool_merge_branch
    \cup api_eval \cup api_import_json \cup api_retract_all \cup api_wipe
    \cup api_exom_mode \cup tool_exom_mode \cup api_session_join
    \cup tool_session_join \cup tool_session_close

Nothing == [todo |-> <<>>, user |-> Creator, branch |-> Main, pred |-> "fact",
            held |-> Nobody, gated |-> FALSE, alone |-> FALSE]

-----------------------------------------------------------------------------
(* Branch rows *)

Unclaimed(status) == [status |-> status, owner |-> Nobody]

Live(rows, b) == b = Main \/ rows[b].status \in {"live", "revived"}

\* Brain::new: the default branches of a brain without a branch table.
NoRows == [b \in Branches |-> Unclaimed(IF b = Main THEN "live" ELSE "absent")]

EmptyBrain == [log |-> <<>>, rows |-> NoRows, closed |-> {}]

\* A row pushed for b: an archived one stays in front of it.
Pushed(rows, b) ==
    [rows EXCEPT ![b] = Unclaimed(IF @.status = "archived" THEN "revived" ELSE "live")]

\* session_new: exom.json, a branch per participant, main claimed by the orchestrator.
session_new ==
    [EmptyBrain EXCEPT !.rows = [b \in Branches |->
        [status |-> "live", owner |-> IF b = Main THEN Creator ELSE Nobody]]]

-----------------------------------------------------------------------------
(* The cache *)

\* load_exom_from_tree_path
FromDisk == [brain |-> disk, mode |-> meta.mode]

\* get_or_load_exom
Loaded == IF cache # Absent THEN cache ELSE FromDisk
Loadable == cache # Absent \/ meta.there

lookup_owner ==
    IF cache = Absent THEN Unknown ELSE OwnedBy(Creator, cache.mode)

Level(user) == ResolveAccess(user, Path, Grants[user], lookup_owner)

-----------------------------------------------------------------------------
(* Steps: a request goes on with its next step, or is refused and ends *)

At(p, step) == Busy(p) /\ Head(req[p].todo) = step

\* A finished request leaves nothing behind.
Goes(p, r) == req' = [req EXCEPT ![p] = IF r.todo = <<>> THEN Nothing ELSE r]

Rest(p) == [req[p] EXCEPT !.todo = Tail(@)]
Advance(p) == Goes(p, Rest(p))
Refuse(p) == Goes(p, Nothing)

Pass(p, holds) == IF holds THEN Advance(p) ELSE Refuse(p)

-----------------------------------------------------------------------------
(* What a mutation may make of a brain: Ok, or Err with what it had done;   *)
(* saved: whether the branch table was written                              *)

Ok(brain) == [ok |-> TRUE, brain |-> brain, saved |-> TRUE]
Err(brain) == [ok |-> FALSE, brain |-> brain, saved |-> FALSE]

AdmitsAnything(brain, b, marker) == Live(brain.rows, b)

\* alloc_tx
Admits(brain, b, marker) == Live(brain.rows, b) /\ (marker \/ brain.closed = {})

Commit(brain, u, b, marker) ==
    [brain EXCEPT !.log = Append(@, [user |-> u, branch |-> b, marker |-> marker])]

Closing(brain, u, b) == [Commit(brain, u, b, TRUE) EXCEPT !.closed = @ \cup {b}]
Reopening(brain, u, b) == [Commit(brain, u, b, TRUE) EXCEPT !.closed = @ \ {b}]

Asserting(r, brain) ==
    LET marker == r.pred = "session/closed_at"
    IN  IF ~Admits(brain, r.branch, marker) THEN {Err(brain)}
        ELSE IF marker THEN {Ok(Closing(brain, r.user, r.branch))}
        ELSE {Ok(Commit(brain, r.user, r.branch, FALSE))}

\* A branch sees its own marker and that of main, of which it can only add a tombstone.
\* A fact may be there or not.
Retracting(r, brain) ==
    LET marker == r.pred = "session/closed_at"
    IN  IF ~Admits(brain, r.branch, marker) THEN {Err(brain)}
        ELSE IF ~marker THEN {Err(brain), Ok(Commit(brain, r.user, r.branch, FALSE))}
        ELSE IF brain.closed \cap {r.branch, Main} = {} THEN {Err(brain)}
        ELSE {Ok(Reopening(brain, r.user, r.branch))}

\* Brain::create_branch, under the parent r.branch
Creating(r, brain) ==
    {IF Admits(brain, r.branch, FALSE) /\ ~Live(brain.rows, b)
     THEN Ok([Commit(brain, r.user, r.branch, FALSE) EXCEPT !.rows = Pushed(brain.rows, b)])
     ELSE Err(brain) : b \in Branches}

\* archive_branch marks the first row of that id.
Archiving(r, brain) ==
    IF r.branch = Main \/ brain.rows[r.branch].status = "absent" THEN {Err(brain)}
    ELSE {Ok([brain EXCEPT !.rows[r.branch].status = IF @ = "live" THEN "archived" ELSE @])}

\* merge_branch into r.branch: in a closed exom only the close marker itself is merged,
\* and the transaction after it is refused.
Merging(r, brain) ==
    {IF ~Live(brain.rows, source) \/ ~Live(brain.rows, r.branch) THEN Err(brain)
     ELSE IF brain.closed = {} THEN Ok(Commit(brain, r.user, r.branch, FALSE))
     ELSE IF source \in brain.closed /\ brain.closed \cap {r.branch, Main} = {}
          THEN Err(Closing(brain, r.user, r.branch))
     ELSE Err(brain) : source \in Branches}

\* Only saves.
AddingRule(r, brain) == {Ok(brain)}

\* replace_state saves before a rule of the payload may fail to parse.
Importing(r, brain) ==
    {[Ok(payload) EXCEPT !.ok = parsed] : payload \in {EmptyBrain, brain}, parsed \in BOOLEAN}

\* retract_fact for every fact main shows; errors are ignored.  The marker is one of the
\* facts, and once it is retracted the facts after it are retracted too.
RetractingAll(r, brain) ==
    LET fact(b) == Commit(b, r.user, Main, FALSE)
        reopened == Reopening(brain, r.user, Main)
    IN  IF Main \notin brain.closed
        THEN {Ok(brain)} \cup {Ok(fact(b)) : b \in {c \in {brain} : c.closed = {}}}
        ELSE {Ok(reopened)} \cup {Ok(fact(b)) : b \in {c \in {reopened} : c.closed = {}}}

Wiping(r, brain) == {Ok(EmptyBrain)}

-----------------------------------------------------------------------------
(* Reading the branch table without the lock: load_branches_from_disk       *)

Results(r, step, brain) ==
    CASE step = "assert" \/ step = "eval_assert" -> Asserting(r, brain)
      [] step = "retract" \/ step = "eval_retract" -> Retracting(r, brain)
      [] step = "create" -> Creating(r, brain)
      [] step = "archive" -> Archiving(r, brain)
      [] step = "merge" -> Merging(r, brain)
      [] step = "import" -> Importing(r, brain)
      [] step = "retract_all" -> RetractingAll(r, brain)
      [] step = "eval_rule" -> AddingRule(r, brain)
      [] step = "wipe" -> Wiping(r, brain)
      [] OTHER -> {}

\* The next step of q saves the branch table, whose directory is away between the two
\* renames of save_table.
Swapping(q) ==
    \/ At(q, "store")
    \/ At(q, "set_mode") /\ Loadable
    \/ /\ Busy(q) /\ Loadable
       /\ Head(req[q].todo) \in {"eval_assert", "eval_retract", "eval_rule"} => cache # Absent
       /\ \E result \in Results(req[q], Head(req[q].todo), Loaded.brain) : result.saved

\* A table that is away reads as if the exom had none.
RowsRead(p) ==
    {disk.rows} \union (IF \E q \in Slots \ {p} : Swapping(q) THEN {NoRows} ELSE {})

-----------------------------------------------------------------------------
(* The guards and the gate *)

GuardWrite(p) ==
    /\ At(p, "guard_write")
    /\ Pass(p, CanWrite(Level(req[p].user)))
    /\ UNCHANGED <<meta, disk, cache>>

GuardOwner(p) ==
    /\ At(p, "guard_owner")
    /\ Pass(p, IsOwner(Level(req[p].user)))
    /\ UNCHANGED <<meta, disk, cache>>

Open == meta.there /\ ~(meta.kind = "session" /\ meta.closed)

\* precheck_write up to claim_branch: on main of a co-edit exom nothing is claimed.
Precheck(p) ==
    LET b == req[p].branch
        passed == [Rest(p) EXCEPT !.gated = TRUE]
    IN  /\ At(p, "precheck")
        /\ \E rows \in RowsRead(p) :
              IF ~Open \/ ~Live(rows, b) THEN Refuse(p)
              ELSE IF meta.mode = "co-edit" /\ b = Main
                   THEN Goes(p, [passed EXCEPT !.todo = Tail(@)])
                   ELSE Goes(p, passed)
        /\ UNCHANGED <<meta, disk, cache>>

\* session_join up to claim_branch
Join(p) ==
    /\ At(p, "join")
    /\ \E rows \in RowsRead(p) : Pass(p, Open /\ Live(rows, req[p].branch))
    /\ UNCHANGED <<meta, disk, cache>>

\* The whole table is loaded, changed and stored: what others store between is lost.
Holding(p, rows) ==
    Goes(p, [req[p] EXCEPT !.held = rows, !.todo = <<"store">> \o Tail(@)])

\* A slip to catch: a claimed branch is claimed again.
ClaimableAgain(row) == TRUE

Claimable(row) == row.owner = Nobody

\* claim_branch
Claim(p) ==
    LET b == req[p].branch
    IN  /\ At(p, "claim")
        /\ \E rows \in RowsRead(p) :
              IF ~Live(rows, b) THEN Refuse(p)
              ELSE IF rows[b].owner = req[p].user THEN Advance(p)
              ELSE IF Claimable(rows[b]) THEN Holding(p, [rows EXCEPT ![b].owner = req[p].user])
              ELSE Refuse(p)
        /\ UNCHANGED <<meta, disk, cache>>

\* A slip to catch: the row instead of the table.
StoreRow(p) ==
    /\ At(p, "store")
    /\ disk' = [disk EXCEPT !.rows = req[p].held[req[p].branch]]
    /\ Goes(p, [Rest(p) EXCEPT !.held = Nobody])
    /\ UNCHANGED <<meta, cache>>

Store(p) ==
    /\ At(p, "store")
    /\ disk' = [disk EXCEPT !.rows = req[p].held]
    /\ Goes(p, [Rest(p) EXCEPT !.held = Nobody])
    /\ UNCHANGED <<meta, cache>>

\* api_branch_create: in a session only the orchestrator creates branches.
Orchestrator(p) ==
    /\ At(p, "orchestrator")
    /\ Pass(p, meta.there /\ (meta.kind = "session" => req[p].user = Creator))
    /\ UNCHANGED <<meta, disk, cache>>

\* create_branch on the table on disk
BranchOnDisk(p) ==
    LET b == req[p].branch
    IN  /\ At(p, "branch_on_disk")
        /\ \E rows \in RowsRead(p) :
              IF Live(rows, b) THEN Advance(p) ELSE Holding(p, Pushed(rows, b))
        /\ UNCHANGED <<meta, disk, cache>>

\* A slip to catch: the cached brain stays.
EvictNothing(p) == At(p, "evict") /\ Advance(p) /\ UNCHANGED <<meta, disk, cache>>

\* evict_cached_exom
Evict(p) ==
    /\ At(p, "evict")
    /\ cache' = Absent
    /\ Advance(p)
    /\ UNCHANGED <<meta, disk>>

-----------------------------------------------------------------------------
(* Mutations, under the lock of the cache *)

\* A slip to catch: nothing is written unless the whole mutation succeeds.
WrittenIfOk(result) == IF result.ok THEN result.brain ELSE disk

\* refresh_exom_binding saves every table; a failed mutation has saved what its own
\* transactions wrote.
Written(result) ==
    IF result.saved THEN result.brain ELSE [result.brain EXCEPT !.rows = disk.rows]

\* mutate_exom
Mutate(p, results) ==
    \E result \in results :
        /\ cache' = [Loaded EXCEPT !.brain = result.brain]
        /\ disk' = Written(result)
        /\ Pass(p, result.ok)

Unloadable(p) == ~Loadable /\ Refuse(p) /\ UNCHANGED <<disk, cache>>

Apply(p, step, Outcomes(_, _)) ==
    /\ At(p, step)
    /\ Unloadable(p) \/ (Loadable /\ Mutate(p, Outcomes(req[p], Loaded.brain)))
    /\ UNCHANGED meta

\* api_eval works on the cached brain only.
Eval(p, step, Outcomes(_, _)) ==
    /\ At(p, step)
    /\ \/ cache = Absent /\ Refuse(p) /\ UNCHANGED <<disk, cache>>
       \/ cache # Absent /\ Mutate(p, Outcomes(req[p], cache.brain))
    /\ UNCHANGED meta

\* The closure removes the directory of the exom; saving brings back the tables only.
Wipe(p) ==
    /\ At(p, "wipe")
    /\ Unloadable(p) \/ (Loadable /\ Mutate(p, Wiping(req[p], Loaded.brain)))
    /\ meta' = [meta EXCEPT !.there = @ /\ ~Loadable]

Other(mode) == IF mode = "solo-edit" THEN "co-edit" ELSE "solo-edit"

\* api_exom_mode: a flip to the mode exom.json already has changes nothing.
ReadMode(p) ==
    /\ At(p, "read_mode")
    /\ IF meta.there /\ req[p].user = Creator /\ meta.kind # "session"
       THEN Goes(p, [Rest(p) EXCEPT !.held = [meta EXCEPT !.mode = Other(@)]])
       ELSE Refuse(p)
    /\ UNCHANGED <<meta, disk, cache>>

PublishMode(p) ==
    /\ At(p, "publish_mode")
    /\ meta' = req[p].held
    /\ Advance(p)
    /\ UNCHANGED <<disk, cache>>

\* A slip to catch: only the claim changes.
FlippedClaimOnly(p, es, result) == [es EXCEPT !.brain = result.brain]

Flipped(p, es, result) == [brain |-> result.brain, mode |-> req[p].held.mode]

\* The claim on main is saved before the audit fact may be refused.
SetMode(p) ==
    LET claimed == [Loaded.brain EXCEPT !.rows[Main].owner =
                       IF req[p].held.mode = "co-edit" THEN Nobody ELSE req[p].user]
        result == CHOOSE r \in Asserting(req[p], claimed) : TRUE
    IN  /\ At(p, "set_mode")
        /\ \/ Unloadable(p)
           \/ /\ Loadable
              /\ cache' = Flipped(p, Loaded, result)
              /\ disk' = result.brain
              /\ Pass(p, result.ok)
        /\ UNCHANGED meta

-----------------------------------------------------------------------------
(* mirror_session_meta_to_disk: exom.json is read, changed and written *)

Mirrored(m, pred) == [m EXCEPT !.closed = @ \/ pred = "session/closed_at"]

MirrorRead(p) ==
    /\ At(p, "mirror_read")
    /\ IF req[p].pred # "fact" /\ meta.there /\ meta.kind = "session"
       THEN Goes(p, [Rest(p) EXCEPT !.held = Mirrored(meta, req[p].pred)])
       ELSE Refuse(p)
    /\ UNCHANGED <<meta, disk, cache>>

MirrorWrite(p) ==
    /\ At(p, "mirror_write")
    /\ meta' = req[p].held
    /\ Advance(p)
    /\ UNCHANGED <<disk, cache>>

-----------------------------------------------------------------------------

Init ==
    /\ \/ /\ meta = [there |-> TRUE, kind |-> "session", mode |-> "solo-edit", closed |-> FALSE]
          /\ disk = session_new
       \/ /\ meta \in [there : {TRUE}, kind : {"bare"}, mode : Modes, closed : {FALSE}]
          /\ disk = EmptyBrain
    /\ cache \in {FromDisk, Absent}
    /\ req = [p \in Slots |-> Nothing]
    /\ begun = 0
    /\ crashes = 0

\* The first free slot takes the request; those in progress are no longer alone.
Begin(p) ==
    /\ begun < MaxRequests
    /\ Idle(p) /\ \A q \in 1..(p - 1) : Busy(q)
    /\ \E r \in Handlers :
        /\ r.alone = \A q \in Slots : Idle(q)
        /\ req' = [q \in Slots |-> IF q = p THEN r ELSE [req[q] EXCEPT !.alone = FALSE]]
    /\ begun' = begun + 1
    /\ UNCHANGED <<meta, disk, cache, crashes>>

Step(p) ==
    /\ Busy(p)
    /\ UNCHANGED <<begun, crashes>>
    /\ \/ GuardWrite(p) \/ GuardOwner(p) \/ Precheck(p) \/ Join(p)
       \/ Claim(p) \/ Store(p) \/ Orchestrator(p) \/ BranchOnDisk(p) \/ Evict(p)
       \/ Apply(p, "assert", Asserting) \/ Apply(p, "retract", Retracting)
       \/ Apply(p, "create", Creating) \/ Apply(p, "archive", Archiving)
       \/ Apply(p, "merge", Merging) \/ Apply(p, "import", Importing)
       \/ Apply(p, "retract_all", RetractingAll)
       \/ Eval(p, "eval_assert", Asserting) \/ Eval(p, "eval_retract", Retracting)
       \/ Eval(p, "eval_rule", AddingRule)
       \/ Wipe(p) \/ ReadMode(p) \/ PublishMode(p) \/ SetMode(p)
       \/ MirrorRead(p) \/ MirrorWrite(p)

\* The daemon stops and starts: requests are lost, load_tree_exoms_into loads every exom.
Restart ==
    /\ crashes < MaxCrashes
    /\ crashes' = crashes + 1
    /\ req' = [p \in Slots |-> Nothing]
    /\ cache' = IF meta.there THEN FromDisk ELSE Absent
    /\ UNCHANGED <<meta, disk, begun>>

Done == (\A p \in Slots : Idle(p)) /\ begun = MaxRequests /\ UNCHANGED vars

Next == (\E p \in Slots : Begin(p) \/ Step(p)) \/ Restart \/ Done

\* A handler runs on: it waits for nothing but the lock, which is never kept.
Spec == Init /\ [][Next]_vars /\ WF_vars(\E p \in Slots : Step(p))

-----------------------------------------------------------------------------
(* Properties *)

TypeOK ==
    /\ meta \in Meta
    /\ disk \in Brain
    /\ cache = Absent \/ cache \in [brain : Brain, mode : Modes]
    /\ req \in [Slots -> Request]
    /\ begun \in 0..MaxRequests
    /\ crashes \in 0..MaxCrashes

\* Whatever loads, evicts, fails, runs in between or restarts, the cached brain and the
\* tables on disk hold the same transactions and the same close markers: only branch rows
\* can differ, so a mutation never saves over a transaction it has not seen.
CachedLogIsDisk ==
    cache # Absent =>
        /\ cache.brain.log = disk.log
        /\ cache.brain.closed = disk.closed

\* A session found open by precheck_write may be closed before the mutation takes the
\* lock: alloc_tx decides again, so what a closed exom gets first is about the marker.
ClosedLogGrowsByTheMarker ==
    [][disk.closed # {} /\ IsStrictPrefix(disk.log, disk'.log)
          => disk'.log[Len(disk.log) + 1].marker]_vars

Owned(rows, b, u) == rows[b].owner = u

\* A handler that passed precheck_write and ran alone leaves its transactions on a branch
\* that its own user has claimed, unless it is main of a co-edit exom: the eviction
\* between the gate and the mutation keeps the claim from being saved over.
GatedWritesAreClaimed ==
    [][\A p \in Slots :
          /\ req[p].alone /\ req[p].gated
          /\ IsStrictPrefix(disk.log, disk'.log)
          => \/ Owned(disk'.rows, req[p].branch, req[p].user)
             \/ req[p].branch = Main /\ meta.mode = "co-edit"]_vars

Rewrites(p) == \E step \in {"import", "wipe", "set_mode", "archive"} : At(p, step)

\* One request at a time, and with a cache that agrees with the disk as it begins, no
\* claim is lost or given away but by an import, a wipe, a flip or an archive.
InStep == cache = Absent \/ cache.brain.rows = disk.rows

ClaimsSurviveInStep ==
    [][\A p \in Slots :
          /\ req[p].alone /\ InStep /\ ~Rewrites(p)
          => \A b \in Branches :
                \/ disk.rows[b].owner \in {Nobody, disk'.rows[b].owner}
                \/ ~Live(disk.rows, b)]_vars

\* The mode exom_mode publishes in exom.json reaches the mode guard_write reads, even
\* when the audit fact is refused, another flip runs or the daemon restarts.
FlipReachesTheCache ==
    \A p \in Slots :
        At(p, "set_mode") ~> (cache = Absent \/ ~meta.there \/ cache.mode = meta.mode)

\* claim_branch: a branch that another user has claimed is refused (BranchOwned).  The table it
\* reads may be away, in the swap of another request, and then main is free and alone.
OthersClaimsAreRefused ==
    [][\A p \in Slots :
          At(p, "claim") /\ disk.rows[req[p].branch].owner \notin {Nobody, req[p].user}
          => ~At(p, "store")']_vars

=============================================================================
