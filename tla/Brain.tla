------------------------------- MODULE Brain -------------------------------
(***************************************************************************)
(* The in-memory state of one exom (src/brain.rs): an append-only log of   *)
(* transactions, the fact, belief and observation rows they wrote, and the *)
(* branches they wrote them on.  A row is never deleted: a later           *)
(* transaction stamps it superseded or revoked, and every view (a branch,  *)
(* a past transaction, a moment of valid time) is computed from the rows.  *)
(*                                                                         *)
(* Every public method of the code runs with exclusive access to the Brain *)
(* and is one action, except merge_branch: it issues a series of           *)
(* transactions, each written to disk as it is allocated, and may fail     *)
(* between two of them, so it is one action per transaction with its       *)
(* locals in `merge'; nothing else writes while it runs.                   *)
(*                                                                         *)
(* Each transaction writes at most one fact row and at most one belief     *)
(* row, so the tables are sets whose rows are identified by the            *)
(* transaction that created them (created_by_tx, here `tx').               *)
(***************************************************************************)
EXTENDS Naturals, Sequences, FiniteSets

CONSTANTS
    Branches,       \* branch ids callers use
    Main,           \* MAIN_BRANCH
    NoBranch,       \* parent_branch_id = None
    FactIds,
    SessionClosed,  \* SESSION_CLOSED_FACT_ID
    Preds, Values,  \* predicates and values of facts
    BeliefIds, Claims,
    Supports,       \* values of the supported_by argument
    NoSupport,      \* the empty supported_by
    Inherit,        \* supported_by argument omitted
    ObsIds,
    Froms, Ends,    \* valid_from and valid_to arguments; None when omitted
    MaxTime,        \* bound: the clock, in seconds, runs from 1 to MaxTime
    MaxTx,          \* bound: transactions before the last call begins
    AncestorGuard   \* the 256 of branch_ancestors

None == 0           \* an absent transaction or time: both start at 1

Times == 1..MaxTime

ASSUME BrainAssumption ==
    /\ Main \in Branches
    /\ NoBranch \notin Branches
    /\ NoSupport \in Supports
    /\ Inherit \notin Supports
    /\ MaxTime \in Nat \ {0}
    /\ MaxTx \in Nat
    /\ AncestorGuard \in Nat
    /\ Froms \subseteq Times \cup {None}
    /\ Ends \subseteq Times \cup {None}

VARIABLES
    txs,            \* transactions: txs[n] is the transaction with tx_id n
    facts,          \* fact rows
    beliefs,        \* belief rows
    observations,   \* observation rows
    branches,       \* branch rows, in the order of the code's Vec
    merge           \* locals of the running merge_branch, or NoMerge

vars == <<txs, facts, beliefs, observations, branches, merge>>

TxAction == {"AssertObservation", "AssertFact", "RetractFact", "ReviseBelief",
             "RevokeBelief", "CreateBranch", "Merge"}

Refs == FactIds \cup BeliefIds \cup ObsIds \cup Branches \cup {SessionClosed}

Tx == [time : Times, branch : Branches, action : TxAction, ref : Refs]

\* sup is superseded_by_tx, rev is revoked_by_tx, from and to the valid interval.
Fact == [id : FactIds, pred : Preds, val : Values, tx : Nat \ {0},
         sup : Nat, rev : Nat, from : Times, to : Times \cup {None}]

BeliefStatus == {"Active", "Revoked"}

Belief == [id : BeliefIds, claim : Claims, status : BeliefStatus,
           support : Supports, tx : Nat \ {0}, from : Times,
           to : Times \cup {None}]

Observation == [id : ObsIds, tx : Nat \ {0}]

Branch == [id : Branches, parent : Branches \cup {NoBranch}, tx : Nat,
           archived : BOOLEAN]

MergePolicy == {"LastWriterWins", "KeepTarget", "Manual"}

MergeState == [source : Branches \cup {NoBranch}, target : Branches \cup {NoBranch},
               policy : MergePolicy, todo : SUBSET Fact,
               targetFacts : SUBSET Fact, retracted : BOOLEAN]

NoMerge == [source |-> NoBranch, target |-> NoBranch, policy |-> "Manual",
            todo |-> {}, targetFacts |-> {}, retracted |-> FALSE]

Merging == merge.source # NoBranch

-----------------------------------------------------------------------------
(* Branches *)

HasRow(b) == \E i \in DOMAIN branches : branches[i].id = b

\* Iter::find: the first row with that id, whether or not it is archived.
FirstRow(b) ==
    CHOOSE i \in DOMAIN branches :
        branches[i].id = b /\ \A j \in 1..(i - 1) : branches[j].id # b

\* A slip to catch: look at the first row only.
BranchExistsByFind(b) == HasRow(b) /\ ~branches[FirstRow(b)].archived

BranchExists(b) == \E i \in DOMAIN branches : branches[i].id = b /\ ~branches[i].archived

\* b, then each parent up to a root, an archived row or the guard; empty when b is not live.
AncestorWalk(b) ==
    LET walk[n \in 0..AncestorGuard] ==
            [id \in Branches \cup {NoBranch} |->
                IF ~HasRow(id) \/ branches[FirstRow(id)].archived
                  THEN <<>>
                  ELSE <<id>> \o IF n = AncestorGuard
                                   THEN <<>>
                                   ELSE walk[n + 1][branches[FirstRow(id)].parent]]
    IN  walk[0][b]

\* The ancestor chain, as pairs of a depth and the branch there; b alone when the walk
\* stops at once.
BranchAncestors(b) ==
    LET chain == AncestorWalk(b)
    IN  {<<0, b>>} \cup {<<d - 1, chain[d]>> : d \in 2..Len(chain)}

-----------------------------------------------------------------------------
(* Views.  A chain is the result of BranchAncestors; asOf a transaction id. *)

NewTx == Len(txs) + 1
LastTx == Len(txs)

TxBranch(t) == txs[t].branch

InView(t, chain) ==
    t \in DOMAIN txs /\ \E link \in chain : link[2] = TxBranch(t)

\* The branch of r has a smaller depth in the chain than that of s.
Closer(r, s, chain) ==
    \E link \in chain :
        /\ link[2] = TxBranch(r.tx)
        /\ \A other \in chain : other[2] = TxBranch(s.tx) => link[1] < other[1]

\* The order newest_rows sorts by: closest branch first, then newest transaction.
Before(r, s, chain) ==
    \/ Closer(r, s, chain)
    \/ TxBranch(r.tx) = TxBranch(s.tx) /\ r.tx > s.tx

NewestRows(rows, chain, asOf) ==
    LET visible == {r \in rows : r.tx <= asOf /\ InView(r.tx, chain)}
    IN  {r \in visible :
            \A s \in visible : s.id = r.id /\ s # r => Before(r, s, chain)}

\* A slip to catch: a retraction counts before it happened.
RevokedInViewEver(f, asOf, chain) == f.rev # None /\ InView(f.rev, chain)

RevokedInView(f, asOf, chain) ==
    f.rev # None /\ f.rev <= asOf /\ InView(f.rev, chain)

LiveFacts(b, asOf) ==
    LET chain == BranchAncestors(b)
    IN  {f \in NewestRows(facts, chain, asOf) : ~RevokedInView(f, asOf, chain)}

FactsOnBranch(b) == LiveFacts(b, LastTx)

FactsAsOf(t) == LiveFacts(TxBranch(t), t)

IsValidAt(r, to, time) == r.from <= time /\ (to = None \/ to > time)

\* The end of f's interval as it was known at asOf.
ValidToAsOf(f, asOf) ==
    LET supersededLater == f.sup # None /\ f.sup > asOf
        retractStampedLater == f.rev # None /\ f.rev > asOf /\ f.to = txs[f.rev].time
    IN  IF supersededLater \/ retractStampedLater THEN None ELSE f.to

FactsBitemporal(t, time) ==
    LET chain == BranchAncestors(TxBranch(t))
        live == {f.id : f \in FactsAsOf(t)}
        candidates == {f \in facts : /\ f.id \in live
                                     /\ ~RevokedInView(f, t, chain)
                                     /\ IsValidAt(f, ValidToAsOf(f, t), time)}
    IN  NewestRows(candidates, chain, t)

\* Keep the active heads, the first one of each claim text.
ActiveBeliefs(heads, chain) ==
    LET active == {r \in heads : r.status = "Active"}
    IN  {r \in active :
            \A s \in active : s.claim = r.claim /\ s # r => Before(r, s, chain)}

BeliefHeads(b) == NewestRows(beliefs, BranchAncestors(b), LastTx)

BeliefsOnBranch(b) == ActiveBeliefs(BeliefHeads(b), BranchAncestors(b))

BeliefsAsOf(t) ==
    LET chain == BranchAncestors(TxBranch(t))
    IN  ActiveBeliefs(NewestRows(beliefs, chain, t), chain)

\* A slip to catch: only the current head is asked whether it is in effect.
BeliefHeadsBitemporal(t, time) == {r \in BeliefsAsOf(t) : IsValidAt(r, r.to, time)}

BeliefsBitemporal(t, time) ==
    LET chain == BranchAncestors(TxBranch(t))
        inEffect == {r \in beliefs : r.from <= time}
    IN  {r \in ActiveBeliefs(NewestRows(inEffect, chain, t), chain) :
            IsValidAt(r, r.to, time)}

-----------------------------------------------------------------------------
(* Transactions *)

\* A live session/closed_at row on any branch closes the exom.
IsSessionClosed ==
    \E f \in facts : f.id = SessionClosed /\ f.rev = None /\ f.sup = None

\* A slip to catch: the marker is looked for in the view of main.
AdmitsOnMain(ref) == ref = SessionClosed \/ \A f \in FactsOnBranch(Main) : f.id # SessionClosed

Admits(ref) == ref = SessionClosed \/ ~IsSessionClosed

\* now_iso has a resolution of one second: several transactions may share a time.
Clock == {t \in Times : txs = <<>> \/ t >= txs[LastTx].time}

AllocTx(b, action, ref, now) ==
    /\ BranchExists(b)
    /\ Admits(ref)
    /\ txs' = Append(txs, [time |-> now, branch |-> b, action |-> action, ref |-> ref])

\* valid_from when given, else the time of the transaction.  Slip to catch: as given.
ValidFromAsGiven(from, now) == from

ValidFrom(from, now) == IF from = None THEN now ELSE from

\* Slips to catch: rows of any branch, rows of main.
OpenRowAnyBranch(f, b, id) == f.id = id /\ f.rev = None /\ f.sup = None /\ f.to = None

OpenRowOnMain(f, b, id) == OpenRowAnyBranch(f, b, id) /\ TxBranch(f.tx) = Main

\* The rows a new assertion of id on b closes.  A row with an explicit end is not open.
OpenRow(f, b, id) ==
    f.id = id /\ f.rev = None /\ f.sup = None /\ f.to = None /\ TxBranch(f.tx) = b

RowsAfterAssert(b, id, pred, val, from, to, now) ==
    LET start == ValidFrom(from, now)
        closeAt == IF start < now THEN start ELSE now
    IN  {IF OpenRow(f, b, id) THEN [f EXCEPT !.sup = NewTx, !.to = closeAt] ELSE f : f \in facts}
          \cup {[id |-> id, pred |-> pred, val |-> val, tx |-> NewTx,
                 sup |-> None, rev |-> None, from |-> start, to |-> to]}

\* A slip to catch: the copy is left live.
TombstoneLive(head, now) == [head EXCEPT !.tx = NewTx, !.sup = None, !.to = now]

\* A copy of an inherited head, created and revoked by the new transaction: it
\* hides the fact on the retracting branch and leaves the ancestor's row alone.
Tombstone(head, now) ==
    [head EXCEPT !.tx = NewTx, !.sup = None, !.rev = NewTx, !.to = now]

RowsAfterRetract(b, head, now) ==
    IF TxBranch(head.tx) # b
      THEN facts \cup {Tombstone(head, now)}
      ELSE {IF f.id = head.id /\ f.rev = None /\ f.sup = None /\ TxBranch(f.tx) = b
              THEN [f EXCEPT !.rev = NewTx, !.to = now]
              ELSE f : f \in facts}

\* By content: superseded rows of the same content are revoked too, and a row that
\* already has an end keeps it.
RowsAfterRetractExact(b, head, now) ==
    IF TxBranch(head.tx) # b
      THEN facts \cup {Tombstone(head, now)}
      ELSE {IF /\ f.id = head.id /\ f.pred = head.pred /\ f.val = head.val
               /\ f.rev = None
               /\ TxBranch(f.tx) = b
              THEN [f EXCEPT !.rev = NewTx, !.to = IF @ = None THEN now ELSE @]
              ELSE f : f \in facts}

-----------------------------------------------------------------------------
(* Operations *)

\* No call is running, and the bound allows another (a running merge ends beyond it).
MayBegin == ~Merging /\ LastTx < MaxTx

MainRow == [id |-> Main, parent |-> NoBranch, tx |-> 0, archived |-> FALSE]

Init ==
    /\ txs = <<>>
    /\ facts = {}
    /\ beliefs = {}
    /\ observations = {}
    /\ branches = <<MainRow>>
    /\ merge = NoMerge

AssertFact(b, id, pred, val, from, to, now) ==
    /\ MayBegin
    /\ AllocTx(b, "AssertFact", id, now)
    /\ facts' = RowsAfterAssert(b, id, pred, val, from, to, now)
    /\ UNCHANGED <<beliefs, observations, branches, merge>>

RetractFact(b, id, now) ==
    /\ MayBegin
    /\ \E head \in FactsOnBranch(b) :
        /\ head.id = id
        /\ AllocTx(b, "RetractFact", id, now)
        /\ facts' = RowsAfterRetract(b, head, now)
    /\ UNCHANGED <<beliefs, observations, branches, merge>>

RetractFactExact(b, id, pred, val, now) ==
    /\ MayBegin
    /\ \E head \in FactsOnBranch(b) :
        /\ head.id = id /\ head.pred = pred /\ head.val = val
        /\ AllocTx(b, "RetractFact", id, now)
        /\ facts' = RowsAfterRetractExact(b, head, now)
    /\ UNCHANGED <<beliefs, observations, branches, merge>>

AssertObservation(b, id, now) ==
    /\ MayBegin
    /\ AllocTx(b, "AssertObservation", id, now)
    /\ observations' = observations \cup {[id |-> id, tx |-> NewTx]}
    /\ UNCHANGED <<facts, beliefs, branches, merge>>

\* supported_by when given, else that of the active belief, else the empty list.
SupportOf(b, id, support) ==
    LET active == {r \in BeliefsOnBranch(b) : r.id = id}
    IN  IF support # Inherit THEN support
        ELSE IF active = {} THEN NoSupport ELSE (CHOOSE r \in active : TRUE).support

ReviseBelief(b, id, claim, support, from, to, now) ==
    /\ MayBegin
    /\ AllocTx(b, "ReviseBelief", id, now)
    /\ beliefs' = beliefs \cup
         {[id |-> id, claim |-> claim, status |-> "Active", tx |-> NewTx,
           support |-> SupportOf(b, id, support),
           from |-> ValidFrom(from, now), to |-> to]}
    /\ UNCHANGED <<facts, observations, branches, merge>>

\* Slips to catch: revoke the row itself, append a copy that is still active.
BeliefsAfterRevokeInPlace(active, now) ==
    (beliefs \ {active}) \cup {[active EXCEPT !.status = "Revoked", !.to = now]}

BeliefsAfterRevokeStillActive(active, now) ==
    beliefs \cup {[active EXCEPT !.tx = NewTx, !.to = now]}

\* A revoked copy of the active belief is appended; earlier rows are left alone.
BeliefsAfterRevoke(active, now) ==
    beliefs \cup {[active EXCEPT !.status = "Revoked", !.tx = NewTx, !.to = now]}

RevokeBelief(b, id, now) ==
    /\ MayBegin
    /\ \E active \in BeliefsOnBranch(b) :
        /\ active.id = id
        /\ AllocTx(b, "RevokeBelief", id, now)
        /\ beliefs' = BeliefsAfterRevoke(active, now)
    /\ UNCHANGED <<facts, observations, branches, merge>>

\* The new row is appended even when an archived row of the same id exists.
CreateBranch(parent, b, now) ==
    /\ MayBegin
    /\ BranchExists(parent)
    /\ ~BranchExists(b)
    /\ AllocTx(parent, "CreateBranch", b, now)
    /\ branches' = Append(branches,
         [id |-> b, parent |-> parent, tx |-> NewTx, archived |-> FALSE])
    /\ UNCHANGED <<facts, beliefs, observations, merge>>

\* No transaction; not subject to session closure.
ArchiveBranch(b) ==
    /\ ~Merging
    /\ b # Main
    /\ HasRow(b)
    /\ branches' = [branches EXCEPT ![FirstRow(b)].archived = TRUE]
    /\ UNCHANGED <<txs, facts, beliefs, observations, merge>>

\* The wipe of an exom.
Reset ==
    /\ ~Merging
    /\ txs' = <<>>
    /\ facts' = {}
    /\ beliefs' = {}
    /\ observations' = {}
    /\ branches' = <<MainRow>>
    /\ UNCHANGED merge

-----------------------------------------------------------------------------
(* merge_branch *)

\* Snapshots of both views, without the source rows the target already inherits.
MergeStart(source, target, policy) ==
    LET todo == {f \in FactsOnBranch(source) : ~InView(f.tx, BranchAncestors(target))}
    IN  /\ MayBegin
        /\ BranchExists(source)
        /\ BranchExists(target)
        /\ merge' = [source |-> source, target |-> target, policy |-> policy,
                     todo |-> todo, targetFacts |-> FactsOnBranch(target),
                     retracted |-> FALSE]
        /\ UNCHANGED <<txs, facts, beliefs, observations, branches>>

\* f is the next source fact of the loop.
MergeNext(f) ==
    /\ Merging
    /\ f \in merge.todo
    /\ \A g \in merge.todo \ {f} : Before(f, g, BranchAncestors(merge.source))

InTarget(f) == \E g \in merge.targetFacts : g.id = f.id

Conflicts(f) == \E g \in merge.targetFacts : g.id = f.id /\ g.val # f.val

\* Slips to catch: the policy is ignored, the arms of the match are swapped.
OverwritesAlways(f) == Conflicts(f)

OverwritesSwapped(f) == Conflicts(f) /\ merge.policy = "KeepTarget"

Overwrites(f) == Conflicts(f) /\ merge.policy = "LastWriterWins"

\* Assert on the target a fact it lacks, or one whose target version was just retracted.
MergeAssert(f, now) ==
    /\ MergeNext(f)
    /\ ~InTarget(f) \/ merge.retracted
    /\ AllocTx(merge.target, "AssertFact", f.id, now)
    /\ facts' = RowsAfterAssert(merge.target, f.id, f.pred, f.val, f.from, f.to, now)
    /\ merge' = [merge EXCEPT !.todo = @ \ {f}, !.retracted = FALSE]
    /\ UNCHANGED <<beliefs, observations, branches>>

MergeRetract(f, now) ==
    /\ MergeNext(f)
    /\ ~merge.retracted
    /\ Overwrites(f)
    /\ \E head \in FactsOnBranch(merge.target) :
        /\ head.id = f.id
        /\ AllocTx(merge.target, "RetractFact", f.id, now)
        /\ facts' = RowsAfterRetract(merge.target, head, now)
    /\ merge' = [merge EXCEPT !.retracted = TRUE]
    /\ UNCHANGED <<beliefs, observations, branches>>

\* Same value, or the policy leaves the target's version (Manual reports the conflict).
MergeSkip(f) ==
    /\ MergeNext(f)
    /\ InTarget(f)
    /\ ~Overwrites(f)
    /\ merge' = [merge EXCEPT !.todo = @ \ {f}]
    /\ UNCHANGED <<txs, facts, beliefs, observations, branches>>

\* refs are the source and the target.
MergeFinish(now) ==
    /\ Merging
    /\ merge.todo = {}
    /\ AllocTx(merge.target, "Merge", merge.source, now)
    /\ merge' = NoMerge
    /\ UNCHANGED <<facts, beliefs, observations, branches>>

\* The exom is closed: the next transaction of the loop is refused, merge_branch
\* returns the error, and what it already wrote stays.
MergeFail ==
    /\ Merging
    /\ IsSessionClosed
    /\ \/ merge.todo = {}
       \/ \E f \in merge.todo :
            /\ MergeNext(f)
            /\ f.id # SessionClosed
            /\ ~InTarget(f) \/ Overwrites(f)
    /\ merge' = NoMerge
    /\ UNCHANGED <<txs, facts, beliefs, observations, branches>>

-----------------------------------------------------------------------------

FactStep ==
    \E b \in Branches, id \in FactIds, now \in Clock :
        \/ \E pred \in Preds, val \in Values :
              \/ RetractFactExact(b, id, pred, val, now)
              \/ \E from \in Froms, to \in Ends : AssertFact(b, id, pred, val, from, to, now)
        \/ RetractFact(b, id, now)

BeliefStep ==
    \E b \in Branches, id \in BeliefIds, now \in Clock :
        \/ \E claim \in Claims, support \in Supports \cup {Inherit}, from \in Froms, to \in Ends :
              ReviseBelief(b, id, claim, support, from, to, now)
        \/ RevokeBelief(b, id, now)

BranchStep ==
    \E b \in Branches :
        \/ \E parent \in Branches, now \in Clock : CreateBranch(parent, b, now)
        \/ ArchiveBranch(b)

MergeStep ==
    \/ \E source, target \in Branches, policy \in MergePolicy : MergeStart(source, target, policy)
    \/ \E f \in merge.todo :
        \/ \E now \in Clock : MergeAssert(f, now) \/ MergeRetract(f, now)
        \/ MergeSkip(f)
    \/ \E now \in Clock : MergeFinish(now)
    \/ MergeFail

Next ==
    \/ FactStep
    \/ BeliefStep
    \/ \E b \in Branches, id \in ObsIds, now \in Clock : AssertObservation(b, id, now)
    \/ BranchStep
    \/ MergeStep
    \/ Reset

Spec == Init /\ [][Next]_vars

-----------------------------------------------------------------------------
(* Properties *)

TypeOK ==
    /\ txs \in Seq(Tx)
    /\ facts \subseteq Fact
    /\ beliefs \subseteq Belief
    /\ observations \subseteq Observation
    /\ branches \in Seq(Branch)
    /\ merge \in MergeState

\* Every stamp on a fact row leads back to the transaction that made it: the row is
\* the only one its transaction created, a superseding transaction is a later
\* assertion and a revoking one a retraction of the same fact, and both ran on the
\* row's own branch: assert_fact, retract_fact and merge_branch stamp no row of
\* another branch.  Only a tombstone is revoked by its own transaction.
StampsTraceToTheLog ==
    \A f \in facts :
        /\ f.tx \in DOMAIN txs /\ txs[f.tx].ref = f.id
        /\ \A g \in facts : g.tx = f.tx => g = f
        /\ f.sup # None =>
              /\ f.sup \in DOMAIN txs /\ f.sup > f.tx
              /\ txs[f.sup].action = "AssertFact"
              /\ txs[f.sup].ref = f.id
              /\ TxBranch(f.sup) = TxBranch(f.tx)
        /\ f.rev # None =>
              /\ f.rev \in DOMAIN txs /\ f.rev >= f.tx
              /\ txs[f.rev].action = "RetractFact"
              /\ txs[f.rev].ref = f.id
              /\ TxBranch(f.rev) = TxBranch(f.tx)

\* The open row of a fact on a branch is the newest row of that fact there, so a
\* branch never holds two open intervals of one fact (the closing loop of
\* assert_fact, also under merge_branch and after retractions and tombstones).
OpenRowIsNewest ==
    \A f, g \in facts :
        /\ f.rev = None /\ f.sup = None /\ f.to = None
        /\ g.id = f.id /\ TxBranch(g.tx) = TxBranch(f.tx)
        => g.tx <= f.tx

\* The branch table keeps one live row per id, a live main, and parents above their
\* children, so that the ancestor walk of branch_ancestors ends at a root.
BranchTableWellFormed ==
    /\ BranchExists(Main)
    /\ \A i, j \in DOMAIN branches :
          branches[i].id = branches[j].id /\ ~branches[i].archived /\ ~branches[j].archived => i = j
    /\ \A i \in DOMAIN branches :
          branches[i].parent # NoBranch => \E j \in 1..(i - 1) : branches[j].id = branches[i].parent

AnyCommitted == Len(txs') = Len(txs) + 1

Committed(action, b, ref) ==
    /\ AnyCommitted
    /\ txs'[LastTx'].action = action
    /\ txs'[LastTx'].branch = b
    /\ txs'[LastTx'].ref = ref

\* A transaction on a branch changes no row, stamp or interval that a branch which does
\* not inherit from it sees: a what-if write never reaches its parent or siblings.
BranchesIsolated ==
    [][AnyCommitted =>
        \A c \in Branches :
            /\ BranchExists(c)
            /\ ~InView(LastTx, BranchAncestors(c))'
            => /\ FactsOnBranch(c)' = FactsOnBranch(c)
               /\ BeliefsOnBranch(c)' = BeliefsOnBranch(c)]_vars

FactsKnownAt(t) == {<<f.id, f.pred, f.val, f.tx>> : f \in FactsAsOf(t)}

\* What facts_as_of and beliefs_as_of answer for a past transaction does not change
\* when later transactions assert, retract, revise, merge or create branches.
PastIsStable ==
    [][AnyCommitted =>
        \A t \in 1..LastTx :
            FactsKnownAt(t)' = FactsKnownAt(t) /\ BeliefsAsOf(t)' = BeliefsAsOf(t)]_vars

\* A retraction leaves the fact not live on the branch it ran on, own or inherited row,
\* and every other fact of that branch as it was.
RetractionTakesEffect ==
    [][\A b \in Branches, id \in FactIds :
        Committed("RetractFact", b, id)
          => FactsOnBranch(b)' = {f \in FactsOnBranch(b) : f.id # id}]_vars

\* When merge_branch commits, every source fact the target does not inherit is live on
\* the target, and under LastWriterWins with the source's value.
MergeLands ==
    [][Committed("Merge", merge.target, merge.source) =>
        \A f \in FactsOnBranch(merge.source) :
            InView(f.tx, BranchAncestors(merge.target)) \/
            \E g \in FactsOnBranch(merge.target) :
                g.id = f.id /\ (merge.policy = "LastWriterWins" => g.val = f.val)]_vars

\* KeepTarget and Manual leave every fact the target had when the merge began.
MergeKeepsTarget ==
    Merging /\ merge.policy # "LastWriterWins" =>
        merge.targetFacts \subseteq FactsOnBranch(merge.target)

\* A closed exom admits no transaction but on its close marker, whatever the operation
\* and also in the middle of a merge that brings the marker in.
ClosedAdmitsOnlyTheMarker ==
    [][IsSessionClosed /\ AnyCommitted => txs'[LastTx'].ref = SessionClosed]_vars

\* A revoked belief is gone from its branch, for every moment from its start on
\* (beliefs_bitemporal), and what was believed before that start is still answered.
RevocationTakesEffect ==
    [][\A b \in Branches, id \in BeliefIds :
        Committed("RevokeBelief", b, id) =>
          /\ \A r \in BeliefsOnBranch(b)' : r.id # id
          /\ \A revoked \in beliefs' \ beliefs, time \in Times :
                revoked.from <= time => \A r \in BeliefsBitemporal(LastTx, time)' : r.id # id]_vars

\* A revision that takes effect later leaves what is believed until then.
RevisionKeepsTheMeantime ==
    [][\A b \in Branches, id \in BeliefIds :
        Committed("ReviseBelief", b, id) /\ txs # <<>> /\ TxBranch(LastTx) = b =>
          \A revised \in beliefs' \ beliefs, time \in Times :
             time < revised.from
               => BeliefsBitemporal(LastTx, time)' = BeliefsBitemporal(LastTx, time)]_vars

-----------------------------------------------------------------------------
(* A claim of the code's comments that its behaviour does not keep. *)

\* valid_to_as_of: "`valid_to` as it was known at `as_of`: a close stamped by a later
\* supersede or retract had not happened yet, so the interval reads open".  So what was
\* known at a past transaction to be valid at a given time does not depend on later ones.
KnownIntervalsStable ==
    [][AnyCommitted =>
        \A t \in 1..LastTx, time \in Times :
            {f.tx : f \in FactsBitemporal(t, time)}' = {f.tx : f \in FactsBitemporal(t, time)}]_vars

=============================================================================
