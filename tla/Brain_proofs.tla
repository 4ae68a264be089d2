---------------------------- MODULE Brain_proofs ----------------------------
(***************************************************************************)
(* What holds of Brain for every value of its constants: first its         *)
(* invariants, then what its operations do to the views of every branch    *)
(* and of every past transaction, and what a merge leaves on its target.   *)
(***************************************************************************)
EXTENDS Brain, SequenceTheorems, WellFoundedInduction, TLAPS

LEMMA NoneIsNotATx == None \notin Times /\ None \in Nat
  BY BrainAssumption DEF Times, None

(***************************************************************************)
(* A view shows rows of the table, and what AllocTx appends is typed.      *)
(***************************************************************************)

LEMMA ViewsShowRows ==
  ASSUME NEW b, NEW asOf
  PROVE  LiveFacts(b, asOf) \subseteq facts
  BY DEF LiveFacts, NewestRows

LEMMA BeliefViewsShowRows ==
  ASSUME NEW b
  PROVE  BeliefsOnBranch(b) \subseteq beliefs
  BY DEF BeliefsOnBranch, ActiveBeliefs, BeliefHeads, NewestRows

LEMMA ClockTyped == Clock \subseteq Times
  BY DEF Clock

LEMMA AllocTxTyped ==
  ASSUME TypeOK, NEW b \in Branches, NEW action \in TxAction, NEW ref \in Refs,
         NEW now \in Times, AllocTx(b, action, ref, now)
  PROVE  /\ txs' \in Seq(Tx)
         /\ Len(txs') = Len(txs) + 1
         /\ NewTx \in Nat \ {0}
         /\ \A t \in 1..Len(txs) : txs'[t] = txs[t]
         /\ txs'[NewTx] = [time |-> now, branch |-> b, action |-> action, ref |-> ref]
  <1> DEFINE tx == [time |-> now, branch |-> b, action |-> action, ref |-> ref]
  <1>1. tx \in Tx
    BY DEF Tx
  <1>2. txs \in Seq(Tx) /\ txs' = Append(txs, tx)
    BY DEF TypeOK, AllocTx
  <1> HIDE DEF tx
  <1>3. QED
    BY <1>1, <1>2 DEF NewTx, tx

LEMMA ValidFromTyped ==
  ASSUME NEW from \in Froms, NEW now \in Times
  PROVE  ValidFrom(from, now) \in Times
  BY BrainAssumption DEF ValidFrom

(***************************************************************************)
(* Rewriting the fact table keeps it typed.                                *)
(***************************************************************************)

LEMMA RowsAfterAssertTyped ==
  ASSUME TypeOK, NEW b \in Branches, NEW id \in FactIds, NEW pred \in Preds,
         NEW val \in Values, NEW from \in Times \cup {None}, NEW to \in Times \cup {None},
         NEW now \in Times
  PROVE  RowsAfterAssert(b, id, pred, val, from, to, now) \subseteq Fact
  <1> DEFINE start == ValidFrom(from, now)
             closeAt == IF start < now THEN start ELSE now
  <1>1. NewTx \in Nat \ {0}
    BY DEF TypeOK, NewTx
  <1>2. start \in Times /\ closeAt \in Times
    BY DEF ValidFrom
  <1>3. facts \subseteq Fact
    BY DEF TypeOK
  <1> HIDE DEF start, closeAt
  <1>4. ASSUME NEW f \in Fact
        PROVE  [f EXCEPT !.sup = NewTx, !.to = closeAt] \in Fact
    BY <1>1, <1>2 DEF Fact
  <1>5. [id |-> id, pred |-> pred, val |-> val, tx |-> NewTx, sup |-> None,
         rev |-> None, from |-> start, to |-> to] \in Fact
    BY <1>1, <1>2, NoneIsNotATx DEF Fact
  <1>6. QED
    BY <1>3, <1>4, <1>5 DEF RowsAfterAssert, start, closeAt

LEMMA TombstoneTyped ==
  ASSUME TypeOK, NEW head \in Fact, NEW now \in Times
  PROVE  Tombstone(head, now) \in Fact
  <1>1. NewTx \in Nat \ {0}
    BY DEF TypeOK, NewTx
  <1>2. QED
    BY <1>1, NoneIsNotATx DEF Fact, Tombstone

LEMMA RowsAfterRetractTyped ==
  ASSUME TypeOK, NEW b, NEW head \in Fact, NEW now \in Times
  PROVE  RowsAfterRetract(b, head, now) \subseteq Fact
  <1>1. NewTx \in Nat \ {0} /\ facts \subseteq Fact
    BY DEF TypeOK, NewTx
  <1>2. ASSUME NEW f \in Fact
        PROVE  [f EXCEPT !.rev = NewTx, !.to = now] \in Fact
    BY <1>1 DEF Fact
  <1>3. QED
    BY <1>1, <1>2, TombstoneTyped DEF RowsAfterRetract

LEMMA RowsAfterRetractExactTyped ==
  ASSUME TypeOK, NEW b, NEW head \in Fact, NEW now \in Times
  PROVE  RowsAfterRetractExact(b, head, now) \subseteq Fact
  <1>1. NewTx \in Nat \ {0} /\ facts \subseteq Fact
    BY DEF TypeOK, NewTx
  <1>2. ASSUME NEW f \in Fact
        PROVE  [f EXCEPT !.rev = NewTx, !.to = IF @ = None THEN now ELSE @] \in Fact
    BY <1>1 DEF Fact
  <1>3. QED
    BY <1>1, <1>2, TombstoneTyped DEF RowsAfterRetractExact

LEMMA SupportTyped ==
  ASSUME TypeOK, NEW b, NEW id, NEW support \in Supports \cup {Inherit}
  PROVE  SupportOf(b, id, support) \in Supports
  <1> DEFINE active == {r \in BeliefsOnBranch(b) : r.id = id}
  <1>1. \A r \in active : r.support \in Supports
    BY BeliefViewsShowRows DEF TypeOK, Belief
  <1>2. active # {} => (CHOOSE r \in active : TRUE) \in active
    OBVIOUS
  <1> HIDE DEF active
  <1>3. active # {} => (CHOOSE r \in active : TRUE).support \in Supports
    BY <1>1, <1>2
  <1>4. QED
    BY <1>3, BrainAssumption DEF SupportOf, active

LEMMA BranchOfExisting ==
  ASSUME TypeOK, NEW b, BranchExists(b)
  PROVE  b \in Branches
  <1>1. PICK i \in DOMAIN branches : branches[i].id = b
    BY DEF BranchExists
  <1>2. branches \in Seq(Branch)
    BY DEF TypeOK
  <1>3. branches[i] \in Branch
    BY <1>1, <1>2
  <1>4. QED
    BY <1>1, <1>3 DEF Branch

LEMMA RefsTyped ==
  /\ FactIds \subseteq Refs /\ BeliefIds \subseteq Refs
  /\ ObsIds \subseteq Refs /\ Branches \subseteq Refs
  BY DEF Refs

(***************************************************************************)
(* Type correctness.                                                       *)
(***************************************************************************)

LEMMA InitTyped == Init => TypeOK
  <1> SUFFICES ASSUME Init PROVE TypeOK
    OBVIOUS
  <1>1. MainRow \in Branch
    BY BrainAssumption DEF MainRow, Branch
  <1>2. branches \in Seq(Branch)
    BY <1>1 DEF Init
  <1>3. merge \in MergeState
    BY DEF Init, NoMerge, MergeState, MergePolicy
  <1>4. QED
    BY <1>2, <1>3 DEF Init, TypeOK

\* The four operations on facts outside a merge, and observations.
LEMMA FactStepTyped == TypeOK /\ FactStep => TypeOK'
  <1> SUFFICES ASSUME TypeOK, NEW b \in Branches, NEW id \in FactIds, NEW now \in Clock,
                      \/ \E pred \in Preds, val \in Values :
                           \/ RetractFactExact(b, id, pred, val, now)
                           \/ \E from \in Froms, to \in Ends :
                                 AssertFact(b, id, pred, val, from, to, now)
                      \/ RetractFact(b, id, now)
               PROVE  TypeOK'
    BY DEF FactStep
  <1>1. now \in Times /\ id \in Refs
    BY ClockTyped, RefsTyped
  <1>2. CASE \E pred \in Preds, val \in Values : RetractFactExact(b, id, pred, val, now)
    <2>1. PICK pred \in Preds, val \in Values : RetractFactExact(b, id, pred, val, now)
      BY <1>2
    <2>2. PICK head \in FactsOnBranch(b) :
            /\ AllocTx(b, "RetractFact", id, now)
            /\ facts' = RowsAfterRetractExact(b, head, now)
      BY <2>1 DEF RetractFactExact
    <2>3. head \in Fact
      BY ViewsShowRows DEF FactsOnBranch, TypeOK
    <2>4. facts' \subseteq Fact
      BY <1>1, <2>2, <2>3, RowsAfterRetractExactTyped
    <2>5. txs' \in Seq(Tx)
      BY <1>1, <2>2, AllocTxTyped DEF TxAction
    <2>6. QED
      BY <2>1, <2>4, <2>5 DEF RetractFactExact, TypeOK
  <1>3. CASE \E pred \in Preds, val \in Values, from \in Froms, to \in Ends :
                AssertFact(b, id, pred, val, from, to, now)
    <2>1. PICK pred \in Preds, val \in Values, from \in Froms, to \in Ends :
                AssertFact(b, id, pred, val, from, to, now)
      BY <1>3
    <2>2. from \in Times \cup {None} /\ to \in Times \cup {None}
      BY BrainAssumption
    <2>3. facts' \subseteq Fact
      BY <1>1, <2>1, <2>2, RowsAfterAssertTyped DEF AssertFact
    <2>4. txs' \in Seq(Tx)
      BY <1>1, <2>1, AllocTxTyped DEF TxAction, AssertFact
    <2>5. QED
      BY <2>1, <2>3, <2>4 DEF AssertFact, TypeOK
  <1>4. CASE RetractFact(b, id, now)
    <2>1. PICK head \in FactsOnBranch(b) :
            /\ AllocTx(b, "RetractFact", id, now)
            /\ facts' = RowsAfterRetract(b, head, now)
      BY <1>4 DEF RetractFact
    <2>2. head \in Fact
      BY ViewsShowRows DEF FactsOnBranch, TypeOK
    <2>3. facts' \subseteq Fact
      BY <1>1, <2>1, <2>2, RowsAfterRetractTyped
    <2>4. txs' \in Seq(Tx)
      BY <1>1, <2>1, AllocTxTyped DEF TxAction
    <2>5. QED
      BY <1>4, <2>3, <2>4 DEF RetractFact, TypeOK
  <1>5. QED
    BY <1>2, <1>3, <1>4

LEMMA BeliefStepTyped == TypeOK /\ BeliefStep => TypeOK'
  <1> SUFFICES ASSUME TypeOK, NEW b \in Branches, NEW id \in BeliefIds, NEW now \in Clock,
                      \/ \E claim \in Claims, support \in Supports \cup {Inherit},
                            from \in Froms, to \in Ends :
                            ReviseBelief(b, id, claim, support, from, to, now)
                      \/ RevokeBelief(b, id, now)
               PROVE  TypeOK'
    BY DEF BeliefStep
  <1>1. now \in Times /\ id \in Refs
    BY ClockTyped, RefsTyped
  <1>2. NewTx \in Nat \ {0}
    BY DEF TypeOK, NewTx
  <1>3. CASE \E claim \in Claims, support \in Supports \cup {Inherit}, from \in Froms, to \in Ends :
                ReviseBelief(b, id, claim, support, from, to, now)
    <2>1. PICK claim \in Claims, support \in Supports \cup {Inherit}, from \in Froms, to \in Ends :
                ReviseBelief(b, id, claim, support, from, to, now)
      BY <1>3
    <2>2. ValidFrom(from, now) \in Times /\ to \in Times \cup {None}
      BY <1>1, ValidFromTyped, BrainAssumption
    <2>3. SupportOf(b, id, support) \in Supports
      BY SupportTyped
    <2>4. [id |-> id, claim |-> claim, status |-> "Active", tx |-> NewTx,
           support |-> SupportOf(b, id, support), from |-> ValidFrom(from, now),
           to |-> to] \in Belief
      BY <1>2, <2>2, <2>3 DEF Belief, BeliefStatus
    <2>5. beliefs' \subseteq Belief
      BY <2>1, <2>4 DEF ReviseBelief, TypeOK
    <2>6. txs' \in Seq(Tx)
      BY <1>1, <2>1, AllocTxTyped DEF TxAction, ReviseBelief
    <2>7. QED
      BY <2>1, <2>5, <2>6 DEF ReviseBelief, TypeOK
  <1>4. CASE RevokeBelief(b, id, now)
    <2>1. PICK active \in BeliefsOnBranch(b) :
            /\ AllocTx(b, "RevokeBelief", id, now)
            /\ beliefs' = BeliefsAfterRevoke(active, now)
      BY <1>4 DEF RevokeBelief
    <2>2. active \in Belief
      BY BeliefViewsShowRows DEF TypeOK
    <2>3. [active EXCEPT !.status = "Revoked", !.tx = NewTx, !.to = now] \in Belief
      BY <1>1, <1>2, <2>2 DEF Belief, BeliefStatus
    <2>4. beliefs' \subseteq Belief
      BY <2>1, <2>3 DEF BeliefsAfterRevoke, TypeOK
    <2>5. txs' \in Seq(Tx)
      BY <1>1, <2>1, AllocTxTyped DEF TxAction
    <2>6. QED
      BY <1>4, <2>4, <2>5 DEF RevokeBelief, TypeOK
  <1>5. QED
    BY <1>3, <1>4

LEMMA ObservationTyped ==
  ASSUME TypeOK, NEW b \in Branches, NEW id \in ObsIds, NEW now \in Clock,
         AssertObservation(b, id, now)
  PROVE  TypeOK'
  <1>1. NewTx \in Nat \ {0}
    BY DEF TypeOK, NewTx
  <1>2. observations' \subseteq Observation
    BY <1>1 DEF AssertObservation, TypeOK, Observation
  <1>3. txs' \in Seq(Tx)
    BY AllocTxTyped, ClockTyped, RefsTyped DEF AssertObservation, TxAction
  <1>4. QED
    BY <1>2, <1>3 DEF AssertObservation, TypeOK

LEMMA BranchStepTyped == TypeOK /\ BranchStep => TypeOK'
  <1> SUFFICES ASSUME TypeOK, NEW b \in Branches,
                      \/ \E parent \in Branches, now \in Clock : CreateBranch(parent, b, now)
                      \/ ArchiveBranch(b)
               PROVE  TypeOK'
    BY DEF BranchStep
  <1>1. branches \in Seq(Branch)
    BY DEF TypeOK
  <1>2. CASE \E parent \in Branches, now \in Clock : CreateBranch(parent, b, now)
    <2>1. PICK parent \in Branches, now \in Clock : CreateBranch(parent, b, now)
      BY <1>2
    <2>2. NewTx \in Nat
      BY DEF TypeOK, NewTx
    <2>3. [id |-> b, parent |-> parent, tx |-> NewTx, archived |-> FALSE] \in Branch
      BY <2>2 DEF Branch
    <2>4. branches' \in Seq(Branch)
      BY <1>1, <2>1, <2>3 DEF CreateBranch
    <2>5. txs' \in Seq(Tx)
      BY <2>1, AllocTxTyped, ClockTyped, RefsTyped DEF CreateBranch, TxAction
    <2>6. QED
      BY <2>1, <2>4, <2>5 DEF CreateBranch, TypeOK
  <1>3. CASE ArchiveBranch(b)
    <2> DEFINE i == FirstRow(b)
    <2>1. branches' = [branches EXCEPT ![i] = [branches[i] EXCEPT !.archived = TRUE]]
      BY <1>3 DEF ArchiveBranch
    <2>2. CASE i \in DOMAIN branches
      <3>1. branches[i] \in Branch /\ i \in 1..Len(branches)
        BY <1>1, <2>2
      <3>2. [branches[i] EXCEPT !.archived = TRUE] \in Branch
        BY <3>1 DEF Branch
      <3>3. branches' \in Seq(Branch)
        BY <1>1, <2>1, <3>1, <3>2, ExceptSeq
      <3>4. QED
        BY <1>3, <3>3 DEF ArchiveBranch, TypeOK
    <2>3. CASE i \notin DOMAIN branches
      <3>1. branches' = branches
        BY <1>1, <2>1, <2>3
      <3>2. QED
        BY <1>3, <3>1 DEF ArchiveBranch, TypeOK
    <2>4. QED
      BY <2>2, <2>3
  <1>4. QED
    BY <1>2, <1>3

\* During a merge, what is copied are rows of Fact and the target is a branch.
LEMMA MergeTyped ==
  ASSUME TypeOK
  PROVE  /\ merge.todo \subseteq Fact
         /\ merge.policy \in MergePolicy
         /\ Merging => merge.source \in Branches
  BY DEF TypeOK, MergeState, Merging

LEMMA MergeStepTyped == TypeOK /\ MergeStep => TypeOK'
  <1> SUFFICES ASSUME TypeOK, MergeStep
               PROVE  TypeOK'
    OBVIOUS
  <1>1. CASE \E source, target \in Branches, policy \in MergePolicy :
                MergeStart(source, target, policy)
    <2>1. PICK source \in Branches, target \in Branches, policy \in MergePolicy :
                MergeStart(source, target, policy)
      BY <1>1
    <2>2. \A c : FactsOnBranch(c) \subseteq Fact
      BY ViewsShowRows DEF FactsOnBranch, TypeOK
    <2>3. merge' \in MergeState
      BY <2>1, <2>2 DEF MergeStart, MergeState
    <2>4. QED
      BY <2>1, <2>3 DEF MergeStart, TypeOK
  <1>2. CASE \E f \in merge.todo, now \in Clock : MergeAssert(f, now)
    <2>1. PICK f \in merge.todo, now \in Clock : MergeAssert(f, now)
      BY <1>2
    <2>2. f \in Fact /\ now \in Times
      BY MergeTyped, ClockTyped
    <2>3. f.id \in FactIds /\ f.pred \in Preds /\ f.val \in Values /\ f.from \in Times
          /\ f.to \in Times \cup {None}
      BY <2>2 DEF Fact
    <2>4. merge.target \in Branches
      BY <2>1, BranchOfExisting DEF MergeAssert, AllocTx
    <2>5. facts' \subseteq Fact
      BY <2>1, <2>2, <2>3, <2>4, RowsAfterAssertTyped DEF MergeAssert
    <2>6. txs' \in Seq(Tx)
      BY <2>1, <2>2, <2>3, <2>4, AllocTxTyped, RefsTyped DEF MergeAssert, TxAction
    <2>7. merge' \in MergeState
      BY <2>1 DEF MergeAssert, MergeState, TypeOK
    <2>8. QED
      BY <2>1, <2>5, <2>6, <2>7 DEF MergeAssert, TypeOK
  <1>3. CASE \E f \in merge.todo, now \in Clock : MergeRetract(f, now)
    <2>1. PICK f \in merge.todo, now \in Clock : MergeRetract(f, now)
      BY <1>3
    <2>2. PICK head \in FactsOnBranch(merge.target) :
            /\ AllocTx(merge.target, "RetractFact", f.id, now)
            /\ facts' = RowsAfterRetract(merge.target, head, now)
      BY <2>1 DEF MergeRetract
    <2>3. f \in Fact /\ head \in Fact /\ now \in Times
      BY MergeTyped, ClockTyped, ViewsShowRows DEF FactsOnBranch, TypeOK
    <2>4. merge.target \in Branches /\ f.id \in FactIds
      BY <2>2, <2>3, BranchOfExisting DEF AllocTx, Fact
    <2>5. facts' \subseteq Fact
      BY <2>2, <2>3, RowsAfterRetractTyped
    <2>6. txs' \in Seq(Tx)
      BY <2>2, <2>3, <2>4, AllocTxTyped, RefsTyped DEF TxAction
    <2>7. merge' \in MergeState
      BY <2>1 DEF MergeRetract, MergeState, TypeOK
    <2>8. QED
      BY <2>1, <2>5, <2>6, <2>7 DEF MergeRetract, TypeOK
  <1>4. CASE \E f \in merge.todo : MergeSkip(f)
    <2>1. merge' \in MergeState
      BY <1>4 DEF MergeSkip, MergeState, TypeOK
    <2>2. QED
      BY <1>4, <2>1 DEF MergeSkip, TypeOK
  <1>5. NoMerge \in MergeState
    BY DEF NoMerge, MergeState, MergePolicy
  <1>6. CASE \E now \in Clock : MergeFinish(now)
    <2>1. PICK now \in Clock : MergeFinish(now)
      BY <1>6
    <2>2. merge.target \in Branches /\ merge.source \in Branches
      BY <2>1, BranchOfExisting, MergeTyped DEF MergeFinish, AllocTx
    <2>3. txs' \in Seq(Tx)
      BY <2>1, <2>2, AllocTxTyped, ClockTyped, RefsTyped DEF MergeFinish, TxAction
    <2>4. QED
      BY <1>5, <2>1, <2>3 DEF MergeFinish, TypeOK
  <1>7. CASE MergeFail
    BY <1>5, <1>7 DEF MergeFail, TypeOK
  <1>8. QED
    BY <1>1, <1>2, <1>3, <1>4, <1>6, <1>7 DEF MergeStep

LEMMA ResetTyped == TypeOK /\ Reset => TypeOK'
  <1> SUFFICES ASSUME TypeOK, Reset PROVE TypeOK'
    OBVIOUS
  <1>1. MainRow \in Branch
    BY BrainAssumption DEF MainRow, Branch
  <1>2. branches' \in Seq(Branch)
    BY <1>1 DEF Reset
  <1>3. QED
    BY <1>2 DEF Reset, TypeOK

LEMMA NextTyped == TypeOK /\ [Next]_vars => TypeOK'
  <1> SUFFICES ASSUME TypeOK, [Next]_vars PROVE TypeOK'
    OBVIOUS
  <1>1. CASE \E b \in Branches, id \in ObsIds, now \in Clock : AssertObservation(b, id, now)
    BY <1>1, ObservationTyped
  <1>2. CASE UNCHANGED vars
    BY <1>2 DEF vars, TypeOK
  <1>3. QED
    BY <1>1, <1>2, FactStepTyped, BeliefStepTyped, BranchStepTyped, MergeStepTyped, ResetTyped
       DEF Next

\* Every variable keeps its type: in particular every row points at transactions and
\* times, and the locals of a merge at rows.
THEOREM TypeCorrect == Spec => []TypeOK
  BY InitTyped, NextTyped, PTL DEF Spec

(***************************************************************************)
(* The stamps on fact rows.  StampsTraceToTheLog is inductive; with it,    *)
(* OpenRowIsNewest is.                                                     *)
(***************************************************************************)

RowsInv == StampsTraceToTheLog /\ OpenRowIsNewest

\* The branch itself is the closest link of its chain, so a row written there hides
\* every inherited row of the same fact: an inherited head means there is none.
LEMMA InheritedHead ==
  ASSUME TypeOK, StampsTraceToTheLog, NEW b \in Branches,
         NEW head \in FactsOnBranch(b), TxBranch(head.tx) # b,
         NEW f \in facts, f.id = head.id
  PROVE  TxBranch(f.tx) # b
  <1> SUFFICES ASSUME TxBranch(f.tx) = b PROVE FALSE
    OBVIOUS
  <1> DEFINE chain == BranchAncestors(b)
  <1>1. <<0, b>> \in chain
    BY DEF BranchAncestors
  <1>2. \A link \in chain : link = <<0, b>> \/ (link[1] \in Int /\ link[1] >= 1)
    <2> DEFINE up == {link \in chain : link # <<0, b>>}
    <2>1. ASSUME NEW link \in up
          PROVE  link[1] \in Int /\ link[1] >= 1
      <3>1. \E s, d : d \in 2..Len(s) /\ link = <<d - 1, s[d]>>
        BY <2>1 DEF BranchAncestors
      <3>2. PICK s, d : d \in 2..Len(s) /\ link = <<d - 1, s[d]>>
        BY <3>1
      <3>3. d \in Int /\ d >= 2
        BY <3>2
      <3>4. QED
        BY <3>2, <3>3
    <2>2. QED
      BY <2>1
  <1>3. f.tx \in DOMAIN txs /\ f.tx <= LastTx
    BY DEF StampsTraceToTheLog, TypeOK, LastTx
  <1> HIDE DEF chain
  <1>4. InView(f.tx, chain)
    BY <1>1, <1>3 DEF InView
  <1>5. head \in NewestRows(facts, chain, LastTx)
    BY DEF FactsOnBranch, LiveFacts, chain
  <1>6. f # head
    OBVIOUS
  <1>7. Before(head, f, chain)
    BY <1>3, <1>4, <1>5, <1>6 DEF NewestRows
  <1>8. Closer(head, f, chain)
    BY <1>7 DEF Before
  <1>9. PICK link \in chain :
          /\ link[2] = TxBranch(head.tx)
          /\ \A other \in chain : other[2] = TxBranch(f.tx) => link[1] < other[1]
    BY <1>8 DEF Closer
  <1>10. link[1] < 0
    <2>1. <<0, b>>[1] = 0 /\ <<0, b>>[2] = b
      OBVIOUS
    <2>2. QED
      BY <1>1, <1>9, <2>1
  <1>11. link # <<0, b>>
    BY <1>9
  <1>12. QED
    BY <1>2, <1>10, <1>11

\* What the log said of an old transaction it says after the append.
LEMMA LogGrows ==
  ASSUME TypeOK, NEW b \in Branches, NEW action \in TxAction, NEW ref \in Refs,
         NEW now \in Times, AllocTx(b, action, ref, now)
  PROVE  /\ NewTx \in Nat /\ NewTx > 0
         /\ DOMAIN txs = 1..(NewTx - 1) /\ DOMAIN txs' = 1..NewTx
         /\ \A t \in DOMAIN txs : txs'[t] = txs[t] /\ TxBranch(t)' = TxBranch(t) /\ t < NewTx
         /\ txs'[NewTx].action = action /\ txs'[NewTx].ref = ref /\ txs'[NewTx].branch = b
  <1>1. txs \in Seq(Tx) /\ txs' \in Seq(Tx) /\ NewTx \in Nat \ {0} /\ Len(txs') = Len(txs) + 1
    BY AllocTxTyped DEF TypeOK
  <1>2. NewTx = Len(txs) + 1 /\ Len(txs) \in Nat /\ DOMAIN txs = 1..Len(txs)
        /\ DOMAIN txs' = 1..Len(txs')
    BY <1>1 DEF NewTx
  <1>3. \A t \in 1..Len(txs) : txs'[t] = txs[t]
    BY AllocTxTyped
  <1>4. txs'[NewTx] = [time |-> now, branch |-> b, action |-> action, ref |-> ref]
    BY AllocTxTyped
  <1>5. txs'[NewTx].action = action /\ txs'[NewTx].ref = ref /\ txs'[NewTx].branch = b
    BY <1>4
  <1>6. ASSUME NEW t \in DOMAIN txs
        PROVE  txs'[t] = txs[t] /\ TxBranch(t)' = TxBranch(t) /\ t < NewTx
    <2>1. t \in 1..Len(txs)
      BY <1>2
    <2>2. QED
      BY <1>2, <1>3, <2>1 DEF TxBranch
  <1>7. QED
    BY <1>1, <1>2, <1>5, <1>6

LEMMA OtherTxKeepsRows ==
  ASSUME TypeOK, RowsInv, NEW b \in Branches, NEW action \in TxAction, NEW ref \in Refs,
         NEW now \in Times, AllocTx(b, action, ref, now), facts' = facts
  PROVE  RowsInv'
  <1>1. StampsTraceToTheLog'
    BY LogGrows DEF RowsInv, StampsTraceToTheLog, TxBranch
  <1>2. OpenRowIsNewest'
    BY LogGrows DEF RowsInv, OpenRowIsNewest, StampsTraceToTheLog, TxBranch
  <1>3. QED
    BY <1>1, <1>2 DEF RowsInv

LEMMA AssertKeepsRows ==
  ASSUME TypeOK, RowsInv, NEW b \in Branches, NEW id \in FactIds, NEW pred, NEW val,
         NEW from, NEW to, NEW now \in Times,
         AllocTx(b, "AssertFact", id, now),
         facts' = RowsAfterAssert(b, id, pred, val, from, to, now)
  PROVE  RowsInv'
  <1> DEFINE start == ValidFrom(from, now)
             closeAt == IF start < now THEN start ELSE now
             new == [id |-> id, pred |-> pred, val |-> val, tx |-> NewTx,
                     sup |-> None, rev |-> None, from |-> start, to |-> to]
             step(f) == IF OpenRow(f, b, id)
                          THEN [f EXCEPT !.sup = NewTx, !.to = closeAt] ELSE f
  <1>1. facts' = {step(f) : f \in facts} \cup {new}
    BY DEF RowsAfterAssert
  <1>2. /\ NewTx \in Nat /\ NewTx > 0
        /\ DOMAIN txs = 1..(NewTx - 1) /\ DOMAIN txs' = 1..NewTx
        /\ \A t \in DOMAIN txs : txs'[t] = txs[t] /\ TxBranch(t)' = TxBranch(t) /\ t < NewTx
        /\ txs'[NewTx].action = "AssertFact" /\ txs'[NewTx].ref = id /\ txs'[NewTx].branch = b
    BY LogGrows, RefsTyped DEF TxAction
  <1>3. /\ new.id = id /\ new.tx = NewTx /\ new.sup = None /\ new.rev = None
    OBVIOUS
  <1>4. ASSUME NEW f \in facts
        PROVE  /\ step(f).id = f.id /\ step(f).tx = f.tx /\ step(f).rev = f.rev
               /\ OpenRow(f, b, id) => step(f).sup = NewTx
               /\ ~OpenRow(f, b, id) => step(f) = f
    <2>1. f \in Fact
      BY DEF TypeOK
    <2>2. QED
      BY <2>1 DEF Fact
  <1>5. \A f \in facts : f.tx \in DOMAIN txs
    BY DEF RowsInv, StampsTraceToTheLog
  <1> HIDE DEF new, step
  <1>6. StampsTraceToTheLog'
    <2> SUFFICES ASSUME NEW g \in facts'
                 PROVE  /\ g.tx \in DOMAIN txs' /\ txs'[g.tx].ref = g.id
                        /\ \A h \in facts' : h.tx = g.tx => h = g
                        /\ g.sup # None =>
                              /\ g.sup \in DOMAIN txs' /\ g.sup > g.tx
                              /\ txs'[g.sup].action = "AssertFact"
                              /\ txs'[g.sup].ref = g.id
                              /\ TxBranch(g.sup)' = TxBranch(g.tx)'
                        /\ g.rev # None =>
                              /\ g.rev \in DOMAIN txs' /\ g.rev >= g.tx
                              /\ txs'[g.rev].action = "RetractFact"
                              /\ txs'[g.rev].ref = g.id
                              /\ TxBranch(g.rev)' = TxBranch(g.tx)'
      BY DEF StampsTraceToTheLog, TxBranch
    <2>1. CASE g = new
      BY <1>1, <1>2, <1>3, <1>4, <1>5, <2>1
    <2>2. CASE \E f \in facts : g = step(f)
      <3>1. PICK f \in facts : g = step(f)
        BY <2>2
      <3>2. \A h \in facts' : h.tx = g.tx => h = g
        BY <1>1, <1>2, <1>3, <1>4, <1>5, <3>1 DEF RowsInv, StampsTraceToTheLog
      <3>3. CASE OpenRow(f, b, id)
        <4>1. f.id = id /\ f.rev = None /\ TxBranch(f.tx) = b
          BY <3>3 DEF OpenRow
        <4>2. QED
          BY <1>2, <1>4, <1>5, <3>1, <3>2, <3>3, <4>1
             DEF RowsInv, StampsTraceToTheLog, TxBranch
      <3>4. CASE ~OpenRow(f, b, id)
        BY <1>2, <1>4, <3>1, <3>2, <3>4 DEF RowsInv, StampsTraceToTheLog, TxBranch
      <3>5. QED
        BY <3>3, <3>4
    <2>3. QED
      BY <1>1, <2>1, <2>2
  <1>7. OpenRowIsNewest'
    <2> SUFFICES ASSUME NEW g \in facts', NEW h \in facts',
                        g.rev = None, g.sup = None, g.to = None,
                        h.id = g.id, TxBranch(h.tx)' = TxBranch(g.tx)'
                 PROVE  h.tx <= g.tx
      BY DEF OpenRowIsNewest
    <2>1. \A k \in facts' : k.tx <= NewTx
      BY <1>1, <1>2, <1>3, <1>4, <1>5
    <2>2. CASE g = new
      BY <1>3, <2>1, <2>2
    <2>3. CASE g # new
      <3>1. PICK f \in facts : g = step(f)
        BY <1>1, <2>3
      <3>2. g = f /\ ~OpenRow(f, b, id)
        BY <1>2, <1>4, <3>1 DEF None
      <3>3. TxBranch(g.tx)' = TxBranch(f.tx)
        BY <1>2, <1>5, <3>2
      <3>4. CASE h = new
        BY <1>2, <1>3, <3>2, <3>3, <3>4 DEF OpenRow, TxBranch
      <3>5. CASE \E k \in facts : h = step(k)
        <4>1. PICK k \in facts : h = step(k)
          BY <3>5
        <4>2. k.id = f.id /\ TxBranch(k.tx) = TxBranch(f.tx) /\ h.tx = k.tx
          BY <1>2, <1>4, <1>5, <3>2, <3>3, <4>1
        <4>3. QED
          BY <3>2, <4>2 DEF RowsInv, OpenRowIsNewest
      <3>6. QED
        BY <1>1, <3>4, <3>5
    <2>4. QED
      BY <2>2, <2>3
  <1>8. QED
    BY <1>6, <1>7 DEF RowsInv

\* A retraction of an inherited fact adds its tombstone.
LEMMA TombstoneKeepsRows ==
  ASSUME TypeOK, RowsInv, NEW b \in Branches, NEW head \in FactsOnBranch(b), NEW now \in Times,
         TxBranch(head.tx) # b,
         AllocTx(b, "RetractFact", head.id, now),
         facts' = facts \cup {Tombstone(head, now)}
  PROVE  RowsInv'
  <1> DEFINE new == Tombstone(head, now)
  <1>1. head \in facts /\ head \in Fact
    BY ViewsShowRows DEF FactsOnBranch, TypeOK
  <1>2. head.id \in Refs /\ "RetractFact" \in TxAction
    BY <1>1 DEF Fact, Refs, TxAction
  <1>3. /\ NewTx \in Nat /\ NewTx > 0
        /\ DOMAIN txs = 1..(NewTx - 1) /\ DOMAIN txs' = 1..NewTx
        /\ \A t \in DOMAIN txs : txs'[t] = txs[t] /\ TxBranch(t)' = TxBranch(t) /\ t < NewTx
        /\ txs'[NewTx].action = "RetractFact" /\ txs'[NewTx].ref = head.id
        /\ txs'[NewTx].branch = b
    BY <1>2, LogGrows
  <1>4. new.id = head.id /\ new.tx = NewTx /\ new.sup = None /\ new.rev = NewTx
    BY <1>1 DEF Tombstone, Fact
  <1>5. \A f \in facts : f.tx \in DOMAIN txs /\ f.tx < NewTx
    BY <1>3 DEF RowsInv, StampsTraceToTheLog
  <1>6. \A f \in facts : f.id = head.id => TxBranch(f.tx) # b
    BY InheritedHead DEF RowsInv
  <1> HIDE DEF new
  <1>7. facts' = facts \cup {new}
    BY DEF new
  <1>8. StampsTraceToTheLog'
    <2> SUFFICES ASSUME NEW g \in facts'
                 PROVE  /\ g.tx \in DOMAIN txs' /\ txs'[g.tx].ref = g.id
                        /\ \A h \in facts' : h.tx = g.tx => h = g
                        /\ g.sup # None =>
                              /\ g.sup \in DOMAIN txs' /\ g.sup > g.tx
                              /\ txs'[g.sup].action = "AssertFact"
                              /\ txs'[g.sup].ref = g.id
                              /\ TxBranch(g.sup)' = TxBranch(g.tx)'
                        /\ g.rev # None =>
                              /\ g.rev \in DOMAIN txs' /\ g.rev >= g.tx
                              /\ txs'[g.rev].action = "RetractFact"
                              /\ txs'[g.rev].ref = g.id
                              /\ TxBranch(g.rev)' = TxBranch(g.tx)'
      BY DEF StampsTraceToTheLog, TxBranch
    <2>1. CASE g = new
      BY <1>3, <1>4, <1>5, <1>7, <2>1
    <2>2. CASE g \in facts
      BY <1>3, <1>4, <1>5, <1>7, <2>2 DEF RowsInv, StampsTraceToTheLog, TxBranch
    <2>3. QED
      BY <1>7, <2>1, <2>2
  <1>9. OpenRowIsNewest'
    <2> SUFFICES ASSUME NEW g \in facts', NEW h \in facts',
                        g.rev = None, g.sup = None, g.to = None,
                        h.id = g.id, TxBranch(h.tx)' = TxBranch(g.tx)'
                 PROVE  h.tx <= g.tx
      BY DEF OpenRowIsNewest
    <2>1. g \in facts
      BY <1>3, <1>4, <1>7 DEF None
    <2>2. TxBranch(g.tx)' = TxBranch(g.tx)
      BY <1>3, <1>5, <2>1
    <2>3. h.tx = NewTx => TxBranch(h.tx)' = b
      BY <1>3 DEF TxBranch
    <2>4. h \in facts
      BY <1>4, <1>6, <1>7, <2>1, <2>2, <2>3
    <2>5. TxBranch(h.tx)' = TxBranch(h.tx)
      BY <1>3, <1>5, <2>4
    <2>6. QED
      BY <2>1, <2>2, <2>4, <2>5 DEF RowsInv, OpenRowIsNewest
  <1>10. QED
    BY <1>8, <1>9 DEF RowsInv

\* A retraction of a fact of the branch revokes rows in place; `to' may change too.
LEMMA RevokingKeepsRows ==
  ASSUME TypeOK, RowsInv, NEW b \in Branches, NEW id \in FactIds, NEW now \in Times,
         AllocTx(b, "RetractFact", id, now),
         \A g, h \in facts' : g.tx = h.tx => g = h,
         \A g \in facts' : \E f \in facts :
            \/ g = f
            \/ /\ f.id = id /\ TxBranch(f.tx) = b
               /\ g.id = f.id /\ g.tx = f.tx /\ g.sup = f.sup /\ g.rev = NewTx
  PROVE  RowsInv'
  <1>1. /\ NewTx \in Nat /\ NewTx > 0
        /\ DOMAIN txs = 1..(NewTx - 1) /\ DOMAIN txs' = 1..NewTx
        /\ \A t \in DOMAIN txs : txs'[t] = txs[t] /\ TxBranch(t)' = TxBranch(t) /\ t < NewTx
        /\ txs'[NewTx].action = "RetractFact" /\ txs'[NewTx].ref = id /\ txs'[NewTx].branch = b
    BY LogGrows, RefsTyped DEF TxAction
  <1>2. \A f \in facts : f.tx \in DOMAIN txs /\ f.tx < NewTx
    BY <1>1 DEF RowsInv, StampsTraceToTheLog
  <1>3. StampsTraceToTheLog'
    <2> SUFFICES ASSUME NEW g \in facts'
                 PROVE  /\ g.tx \in DOMAIN txs' /\ txs'[g.tx].ref = g.id
                        /\ \A h \in facts' : h.tx = g.tx => h = g
                        /\ g.sup # None =>
                              /\ g.sup \in DOMAIN txs' /\ g.sup > g.tx
                              /\ txs'[g.sup].action = "AssertFact"
                              /\ txs'[g.sup].ref = g.id
                              /\ TxBranch(g.sup)' = TxBranch(g.tx)'
                        /\ g.rev # None =>
                              /\ g.rev \in DOMAIN txs' /\ g.rev >= g.tx
                              /\ txs'[g.rev].action = "RetractFact"
                              /\ txs'[g.rev].ref = g.id
                              /\ TxBranch(g.rev)' = TxBranch(g.tx)'
      BY DEF StampsTraceToTheLog, TxBranch
    <2>1. PICK f \in facts :
            \/ g = f
            \/ /\ f.id = id /\ TxBranch(f.tx) = b
               /\ g.id = f.id /\ g.tx = f.tx /\ g.sup = f.sup /\ g.rev = NewTx
      OBVIOUS
    <2>2. /\ f.tx \in DOMAIN txs /\ txs[f.tx].ref = f.id
          /\ f.sup # None =>
                /\ f.sup \in DOMAIN txs /\ f.sup > f.tx
                /\ txs[f.sup].action = "AssertFact"
                /\ txs[f.sup].ref = f.id
                /\ TxBranch(f.sup) = TxBranch(f.tx)
          /\ f.rev # None =>
                /\ f.rev \in DOMAIN txs /\ f.rev >= f.tx
                /\ txs[f.rev].action = "RetractFact"
                /\ txs[f.rev].ref = f.id
                /\ TxBranch(f.rev) = TxBranch(f.tx)
      BY DEF RowsInv, StampsTraceToTheLog
    <2>3. CASE g = f
      BY <1>1, <2>2, <2>3
    <2>4. CASE /\ f.id = id /\ TxBranch(f.tx) = b
               /\ g.id = f.id /\ g.tx = f.tx /\ g.sup = f.sup /\ g.rev = NewTx
      <3>1. TxBranch(g.rev)' = b
        BY <1>1, <2>4 DEF TxBranch
      <3>2. TxBranch(g.tx)' = b
        BY <1>1, <2>2, <2>4
      <3>3. g.sup # None => TxBranch(g.sup)' = b /\ txs'[g.sup] = txs[g.sup]
        BY <1>1, <2>2, <2>4
      <3>4. QED
        BY <1>1, <1>2, <2>2, <2>4, <3>1, <3>2, <3>3
    <2>5. QED
      BY <2>1, <2>3, <2>4
  <1>4. OpenRowIsNewest'
    <2> SUFFICES ASSUME NEW g \in facts', NEW h \in facts',
                        g.rev = None, g.sup = None, g.to = None,
                        h.id = g.id, TxBranch(h.tx)' = TxBranch(g.tx)'
                 PROVE  h.tx <= g.tx
      BY DEF OpenRowIsNewest
    <2>1. g \in facts
      BY <1>1 DEF None
    <2>2. PICK k \in facts : k.id = h.id /\ k.tx = h.tx
      OBVIOUS
    <2>3. TxBranch(g.tx)' = TxBranch(g.tx) /\ TxBranch(k.tx)' = TxBranch(k.tx)
      BY <1>1, <1>2, <2>1
    <2>4. QED
      BY <2>1, <2>2, <2>3 DEF RowsInv, OpenRowIsNewest
  <1>5. QED
    BY <1>3, <1>4 DEF RowsInv

LEMMA RetractKeepsRows ==
  ASSUME TypeOK, RowsInv, NEW b \in Branches, NEW head \in FactsOnBranch(b), NEW now \in Times,
         AllocTx(b, "RetractFact", head.id, now),
         \/ facts' = RowsAfterRetract(b, head, now)
         \/ facts' = RowsAfterRetractExact(b, head, now)
  PROVE  RowsInv'
  <1>1. head \in facts /\ head.id \in FactIds
    BY ViewsShowRows DEF FactsOnBranch, TypeOK, Fact
  <1>2. CASE TxBranch(head.tx) # b
    BY <1>2, TombstoneKeepsRows DEF RowsAfterRetract, RowsAfterRetractExact
  <1>3. CASE TxBranch(head.tx) = b /\ facts' = RowsAfterRetract(b, head, now)
    <2> DEFINE hit(f) == f.id = head.id /\ f.rev = None /\ f.sup = None /\ TxBranch(f.tx) = b
               step(f) == IF hit(f) THEN [f EXCEPT !.rev = NewTx, !.to = now] ELSE f
    <2>1. facts' = {step(f) : f \in facts}
      BY <1>3 DEF RowsAfterRetract
    <2>2. ASSUME NEW f \in facts
          PROVE  /\ step(f).tx = f.tx
                 /\ \/ step(f) = f
                    \/ /\ f.id = head.id /\ TxBranch(f.tx) = b
                       /\ step(f).id = f.id /\ step(f).sup = f.sup /\ step(f).rev = NewTx
      <3>1. f \in Fact
        BY DEF TypeOK
      <3>2. QED
        BY <3>1 DEF Fact
    <2> HIDE DEF step
    <2>3. QED
      BY <1>1, <2>1, <2>2, RevokingKeepsRows DEF RowsInv, StampsTraceToTheLog
  <1>4. CASE TxBranch(head.tx) = b /\ facts' = RowsAfterRetractExact(b, head, now)
    <2> DEFINE hit(f) == /\ f.id = head.id /\ f.pred = head.pred /\ f.val = head.val
                         /\ f.rev = None
                         /\ TxBranch(f.tx) = b
               step(f) == IF hit(f)
                            THEN [f EXCEPT !.rev = NewTx, !.to = IF @ = None THEN now ELSE @]
                            ELSE f
    <2>1. facts' = {step(f) : f \in facts}
      BY <1>4 DEF RowsAfterRetractExact
    <2>2. ASSUME NEW f \in facts
          PROVE  /\ step(f).tx = f.tx
                 /\ \/ step(f) = f
                    \/ /\ f.id = head.id /\ TxBranch(f.tx) = b
                       /\ step(f).id = f.id /\ step(f).sup = f.sup /\ step(f).rev = NewTx
      <3>1. f \in Fact
        BY DEF TypeOK
      <3>2. QED
        BY <3>1 DEF Fact
    <2> HIDE DEF step
    <2>3. QED
      BY <1>1, <2>1, <2>2, RevokingKeepsRows DEF RowsInv, StampsTraceToTheLog
  <1>5. QED
    BY <1>2, <1>3, <1>4

LEMMA ClosedLogKeepsRows ==
  ASSUME RowsInv, txs' = txs, facts' = facts
  PROVE  RowsInv'
  BY DEF RowsInv, StampsTraceToTheLog, OpenRowIsNewest, TxBranch

LEMMA FactStepKeepsRows == TypeOK /\ RowsInv /\ FactStep => RowsInv'
  <1> SUFFICES ASSUME TypeOK, RowsInv, NEW b \in Branches, NEW id \in FactIds, NEW now \in Clock,
                      \/ \E pred \in Preds, val \in Values :
                           \/ RetractFactExact(b, id, pred, val, now)
                           \/ \E from \in Froms, to \in Ends :
                                 AssertFact(b, id, pred, val, from, to, now)
                      \/ RetractFact(b, id, now)
               PROVE  RowsInv'
    BY DEF FactStep
  <1>1. now \in Times
    BY ClockTyped
  <1>2. CASE \E pred \in Preds, val \in Values, from \in Froms, to \in Ends :
                AssertFact(b, id, pred, val, from, to, now)
    BY <1>1, <1>2, AssertKeepsRows DEF AssertFact
  <1>3. CASE \E pred \in Preds, val \in Values : RetractFactExact(b, id, pred, val, now)
    BY <1>1, <1>3, RetractKeepsRows DEF RetractFactExact
  <1>4. CASE RetractFact(b, id, now)
    BY <1>1, <1>4, RetractKeepsRows DEF RetractFact
  <1>5. QED
    BY <1>2, <1>3, <1>4

\* Beliefs, observations and branches allocate a transaction without touching fact rows.
LEMMA OtherStepsKeepRows ==
  ASSUME TypeOK, RowsInv,
         \/ BeliefStep
         \/ \E b \in Branches, id \in ObsIds, now \in Clock : AssertObservation(b, id, now)
         \/ BranchStep
  PROVE  RowsInv'
  <1>1. CASE BeliefStep
    <2>1. PICK b \in Branches, id \in BeliefIds, now \in Clock :
            /\ \/ AllocTx(b, "ReviseBelief", id, now)
               \/ AllocTx(b, "RevokeBelief", id, now)
            /\ facts' = facts
      BY <1>1 DEF BeliefStep, ReviseBelief, RevokeBelief
    <2>2. QED
      BY <2>1, OtherTxKeepsRows, ClockTyped, RefsTyped DEF TxAction
  <1>2. CASE \E b \in Branches, id \in ObsIds, now \in Clock : AssertObservation(b, id, now)
    BY <1>2, OtherTxKeepsRows, ClockTyped, RefsTyped DEF AssertObservation, TxAction
  <1>3. CASE BranchStep
    <2>1. PICK b \in Branches :
            \/ \E parent \in Branches, now \in Clock : CreateBranch(parent, b, now)
            \/ ArchiveBranch(b)
      BY <1>3 DEF BranchStep
    <2>2. CASE \E parent \in Branches, now \in Clock : CreateBranch(parent, b, now)
      BY <2>2, OtherTxKeepsRows, ClockTyped, RefsTyped DEF CreateBranch, TxAction
    <2>3. CASE ArchiveBranch(b)
      BY <2>3, ClosedLogKeepsRows DEF ArchiveBranch
    <2>4. QED
      BY <2>1, <2>2, <2>3
  <1>4. QED
    BY <1>1, <1>2, <1>3

LEMMA MergeStepKeepsRows == TypeOK /\ RowsInv /\ MergeStep => RowsInv'
  <1> SUFFICES ASSUME TypeOK, RowsInv, MergeStep
               PROVE  RowsInv'
    OBVIOUS
  <1>1. CASE \E f \in merge.todo, now \in Clock : MergeAssert(f, now)
    <2>1. PICK f \in merge.todo, now \in Clock : MergeAssert(f, now)
      BY <1>1
    <2>2. f.id \in FactIds /\ now \in Times
      BY MergeTyped, ClockTyped DEF Fact
    <2>3. merge.target \in Branches
      BY <2>1, BranchOfExisting DEF MergeAssert, AllocTx
    <2>4. QED
      BY <2>1, <2>2, <2>3, AssertKeepsRows DEF MergeAssert
  <1>2. CASE \E f \in merge.todo, now \in Clock : MergeRetract(f, now)
    <2>1. PICK f \in merge.todo, now \in Clock : MergeRetract(f, now)
      BY <1>2
    <2>2. merge.target \in Branches /\ now \in Times
      BY <2>1, BranchOfExisting, ClockTyped DEF MergeRetract, AllocTx
    <2>3. QED
      BY <2>1, <2>2, RetractKeepsRows DEF MergeRetract
  <1>3. CASE \E now \in Clock : MergeFinish(now)
    <2>1. PICK now \in Clock : MergeFinish(now)
      BY <1>3
    <2>2. merge.target \in Branches /\ merge.source \in Refs /\ now \in Times
      BY <2>1, BranchOfExisting, MergeTyped, ClockTyped, RefsTyped DEF MergeFinish, AllocTx
    <2>3. QED
      BY <2>1, <2>2, OtherTxKeepsRows DEF MergeFinish, TxAction
  <1>4. CASE \/ \E source, target \in Branches, policy \in MergePolicy :
                   MergeStart(source, target, policy)
             \/ \E f \in merge.todo : MergeSkip(f)
             \/ MergeFail
    BY <1>4, ClosedLogKeepsRows DEF MergeStart, MergeSkip, MergeFail
  <1>5. QED
    BY <1>1, <1>2, <1>3, <1>4 DEF MergeStep

LEMMA NextKeepsRows == TypeOK /\ RowsInv /\ [Next]_vars => RowsInv'
  <1>1. TypeOK /\ RowsInv /\ Reset => RowsInv'
    BY DEF Reset, RowsInv, StampsTraceToTheLog, OpenRowIsNewest
  <1>2. TypeOK /\ RowsInv /\ UNCHANGED vars => RowsInv'
    BY ClosedLogKeepsRows DEF vars
  <1>3. QED
    BY <1>1, <1>2, FactStepKeepsRows, OtherStepsKeepRows, MergeStepKeepsRows DEF Next

LEMMA RowsInvariant == Spec => []RowsInv
  <1>1. Init => RowsInv
    BY DEF Init, RowsInv, StampsTraceToTheLog, OpenRowIsNewest
  <1>2. QED
    BY <1>1, TypeCorrect, NextKeepsRows, PTL DEF Spec

\* However operations and merges interleave on any tree of branches, each row comes from
\* one transaction, and no operation stamps a row of a branch other than its own.
THEOREM StampsTraced == Spec => []StampsTraceToTheLog
  BY RowsInvariant, PTL DEF RowsInv

\* No branch ever holds two open intervals of the same fact.
THEOREM OneOpenRow == Spec => []OpenRowIsNewest
  BY RowsInvariant, PTL DEF RowsInv

(***************************************************************************)
(* The branch table.                                                       *)
(***************************************************************************)

LEMMA LeastNat ==
  ASSUME NEW S, S \subseteq Nat, S # {}
  PROVE  \E m \in S : \A n \in S : m <= n
  <1> DEFINE less == {pair \in Nat \X Nat : pair[1] < pair[2]}
  <1>1. less = OpToRel(<, Nat)
    BY DEF OpToRel
  <1>2. IsWellFoundedOn(less, Nat)
    BY <1>1, NatLessThanWellFounded
  <1>3. \A m, n \in Nat : <<m, n>> \in less <=> m < n
    OBVIOUS
  <1> HIDE DEF less
  <1>4. PICK m \in S : \A n \in S : <<n, m>> \notin less
    BY <1>2, WFMin
  <1>5. ASSUME NEW n \in S
        PROVE  m <= n
    <2>1. m \in Nat /\ n \in Nat
      OBVIOUS
    <2>2. ~(n < m)
      BY <1>3, <1>4, <2>1
    <2>3. QED
      BY <2>1, <2>2
  <1>6. QED
    BY <1>5

\* Iter::find finds a row of the id it looks for.
LEMMA FirstRowFound ==
  ASSUME TypeOK, NEW b, HasRow(b)
  PROVE  FirstRow(b) \in DOMAIN branches /\ branches[FirstRow(b)].id = b
  <1> DEFINE rows == {i \in DOMAIN branches : branches[i].id = b}
  <1>1. DOMAIN branches = 1..Len(branches) /\ Len(branches) \in Nat
    BY DEF TypeOK
  <1>2. rows \subseteq Nat /\ rows # {}
    BY <1>1 DEF HasRow
  <1>3. PICK m \in rows : \A i \in rows : m <= i
    BY <1>2, LeastNat
  <1>4. \A j \in 1..(m - 1) : branches[j].id # b
    BY <1>1, <1>3
  <1>5. QED
    BY <1>3, <1>4 DEF FirstRow

LEMMA CreateKeepsTable ==
  ASSUME TypeOK, BranchTableWellFormed, NEW b, NEW parent, NEW now,
         CreateBranch(parent, b, now)
  PROVE  BranchTableWellFormed'
  <1> DEFINE new == [id |-> b, parent |-> parent, tx |-> NewTx, archived |-> FALSE]
             n == Len(branches)
  <1>1. branches \in Seq(Branch) /\ branches' = Append(branches, new)
    BY DEF TypeOK, CreateBranch
  <1>2. /\ n \in Nat /\ DOMAIN branches = 1..n /\ DOMAIN branches' = 1..(n + 1)
        /\ branches'[n + 1] = new
        /\ \A i \in 1..n : branches'[i] = branches[i]
    BY <1>1
  <1>3. new.id = b /\ new.parent = parent /\ new.archived = FALSE
    OBVIOUS
  <1>4. \A i \in 1..n : branches[i].id = b => branches[i].archived
    BY <1>1, <1>2 DEF CreateBranch, BranchExists, Branch
  <1>5. PICK j \in 1..n : branches[j].id = parent
    BY <1>2 DEF CreateBranch, BranchExists
  <1> HIDE DEF new, n
  <1>6. BranchExists(Main)'
    BY <1>2 DEF BranchExists, BranchTableWellFormed
  <1>7. \A i, k \in DOMAIN branches' :
          branches'[i].id = branches'[k].id /\ ~branches'[i].archived /\ ~branches'[k].archived
            => i = k
    BY <1>2, <1>3, <1>4 DEF BranchTableWellFormed
  <1>8. ASSUME NEW i \in DOMAIN branches', branches'[i].parent # NoBranch
        PROVE  \E k \in 1..(i - 1) : branches'[k].id = branches'[i].parent
    <2>1. CASE i = n + 1
      BY <1>2, <1>3, <1>5, <2>1
    <2>2. CASE i \in 1..n
      <3>1. PICK k \in 1..(i - 1) : branches[k].id = branches[i].parent
        BY <1>2, <1>8, <2>2 DEF BranchTableWellFormed
      <3>2. QED
        BY <1>2, <2>2, <3>1
    <2>3. QED
      BY <1>2, <2>1, <2>2
  <1>9. QED
    BY <1>6, <1>7, <1>8 DEF BranchTableWellFormed

LEMMA ArchiveKeepsTable ==
  ASSUME TypeOK, BranchTableWellFormed, NEW b, ArchiveBranch(b)
  PROVE  BranchTableWellFormed'
  <1> DEFINE i == FirstRow(b)
  <1>1. i \in DOMAIN branches /\ branches[i].id = b
    BY FirstRowFound DEF ArchiveBranch
  <1>2. branches' = [branches EXCEPT ![i] = [branches[i] EXCEPT !.archived = TRUE]]
    BY DEF ArchiveBranch
  <1>3. branches[i] \in Branch /\ DOMAIN branches = 1..Len(branches)
    BY <1>1 DEF TypeOK
  <1>4. /\ DOMAIN branches' = DOMAIN branches
        /\ \A k \in DOMAIN branches : k # i => branches'[k] = branches[k]
        /\ branches'[i].id = b /\ branches'[i].parent = branches[i].parent
        /\ branches'[i].archived = TRUE
    BY <1>1, <1>2, <1>3 DEF Branch
  <1>5. \A k \in DOMAIN branches :
          branches'[k].id = branches[k].id /\ branches'[k].parent = branches[k].parent
    BY <1>1, <1>4
  <1> HIDE DEF i
  <1>6. BranchExists(Main)'
    <2>1. PICK k \in DOMAIN branches : branches[k].id = Main /\ ~branches[k].archived
      BY DEF BranchTableWellFormed, BranchExists
    <2>2. k # i
      BY <1>1, <2>1 DEF ArchiveBranch
    <2>3. QED
      BY <1>4, <2>1, <2>2 DEF BranchExists
  <1>7. \A j, k \in DOMAIN branches' :
          branches'[j].id = branches'[k].id /\ ~branches'[j].archived /\ ~branches'[k].archived
            => j = k
    BY <1>4, <1>5 DEF BranchTableWellFormed
  <1>8. \A j \in DOMAIN branches' : branches'[j].parent # NoBranch =>
          \E k \in 1..(j - 1) : branches'[k].id = branches'[j].parent
    <2> SUFFICES ASSUME NEW j \in DOMAIN branches, branches[j].parent # NoBranch
                 PROVE  \E k \in 1..(j - 1) : branches'[k].id = branches[j].parent
      BY <1>4, <1>5
    <2>1. PICK k \in 1..(j - 1) : branches[k].id = branches[j].parent
      BY DEF BranchTableWellFormed
    <2>2. k \in DOMAIN branches /\ Len(branches) \in Nat
      BY <1>3, <2>1 DEF TypeOK
    <2>3. QED
      BY <1>5, <2>1, <2>2
  <1>9. QED
    BY <1>6, <1>7, <1>8 DEF BranchTableWellFormed

LEMMA SameTable ==
  ASSUME BranchTableWellFormed, branches' = branches
  PROVE  BranchTableWellFormed'
  BY DEF BranchTableWellFormed, BranchExists

LEMMA NextKeepsTable == TypeOK /\ BranchTableWellFormed /\ [Next]_vars => BranchTableWellFormed'
  <1> SUFFICES ASSUME TypeOK, BranchTableWellFormed, [Next]_vars
               PROVE  BranchTableWellFormed'
    OBVIOUS
  <1>1. CASE FactStep
    BY <1>1, SameTable DEF FactStep, AssertFact, RetractFact, RetractFactExact
  <1>2. CASE BeliefStep
    BY <1>2, SameTable DEF BeliefStep, ReviseBelief, RevokeBelief
  <1>3. CASE \E b \in Branches, id \in ObsIds, now \in Clock : AssertObservation(b, id, now)
    BY <1>3, SameTable DEF AssertObservation
  <1>4. CASE BranchStep
    BY <1>4, CreateKeepsTable, ArchiveKeepsTable DEF BranchStep
  <1>5. CASE MergeStep
    BY <1>5, SameTable
       DEF MergeStep, MergeStart, MergeAssert, MergeRetract, MergeSkip, MergeFinish, MergeFail
  <1>6. CASE Reset
    <2>1. branches' = <<MainRow>>
      BY <1>6 DEF Reset
    <2>2. QED
      BY <2>1 DEF MainRow, BranchTableWellFormed, BranchExists
  <1>7. CASE UNCHANGED vars
    BY <1>7, SameTable DEF vars
  <1>8. QED
    BY <1>1, <1>2, <1>3, <1>4, <1>5, <1>6, <1>7 DEF Next

\* Whatever is created, archived and created again, main stays live, an id has at most
\* one live row and a row's parent stands above it in the table.
THEOREM TableWellFormed == Spec => []BranchTableWellFormed
  <1>1. Init => BranchTableWellFormed
    BY DEF Init, MainRow, BranchTableWellFormed, BranchExists
  <1>2. QED
    BY <1>1, TypeCorrect, NextKeepsTable, PTL DEF Spec

(***************************************************************************)
(* The closed exom.                                                        *)
(***************************************************************************)

\* Every transaction that enters the log passed alloc_tx.
LEMMA CommitsAreAdmitted ==
  ASSUME TypeOK, Next, AnyCommitted
  PROVE  \E b, action, ref, now : AllocTx(b, action, ref, now)
  <1>1. Len(txs) \in Nat
    BY DEF TypeOK
  <1>2. txs' # txs
    BY <1>1 DEF AnyCommitted
  <1>3. txs' # <<>>
    BY <1>1 DEF AnyCommitted
  <1>4. CASE FactStep
    BY <1>4 DEF FactStep, AssertFact, RetractFact, RetractFactExact
  <1>5. CASE BeliefStep
    BY <1>5 DEF BeliefStep, ReviseBelief, RevokeBelief
  <1>6. CASE \E b \in Branches, id \in ObsIds, now \in Clock : AssertObservation(b, id, now)
    BY <1>6 DEF AssertObservation
  <1>7. CASE BranchStep
    BY <1>2, <1>7 DEF BranchStep, CreateBranch, ArchiveBranch
  <1>8. CASE MergeStep
    BY <1>2, <1>8
       DEF MergeStep, MergeStart, MergeAssert, MergeRetract, MergeSkip, MergeFinish, MergeFail
  <1>9. CASE Reset
    BY <1>3, <1>9 DEF Reset
  <1>10. QED
    BY <1>4, <1>5, <1>6, <1>7, <1>8, <1>9 DEF Next

\* A closed exom takes no transaction but on its close marker, whichever operation, tool
\* or merge the transaction belongs to.
THEOREM ClosureHolds == Spec => ClosedAdmitsOnlyTheMarker
  <1>1. ASSUME TypeOK, [Next]_vars
        PROVE  [IsSessionClosed /\ AnyCommitted => txs'[LastTx'].ref = SessionClosed]_vars
    <2> SUFFICES ASSUME Next, IsSessionClosed, AnyCommitted
                 PROVE  txs'[LastTx'].ref = SessionClosed
      BY <1>1
    <2>1. PICK b, action, ref, now : AllocTx(b, action, ref, now)
      BY <1>1, CommitsAreAdmitted
    <2>2. ref = SessionClosed
      BY <2>1 DEF AllocTx, Admits
    <2>3. txs \in Seq(Tx)
      BY <1>1 DEF TypeOK
    <2> DEFINE tx == [time |-> now, branch |-> b, action |-> action, ref |-> ref]
    <2>4. txs' = Append(txs, tx)
      BY <2>1 DEF AllocTx
    <2>5. Len(txs') = Len(txs) + 1 /\ txs'[Len(txs) + 1] = tx
      <3> HIDE DEF tx
      <3>1. QED
        BY <2>3, <2>4
    <2>6. QED
      BY <2>2, <2>5 DEF LastTx
  <1>2. QED
    BY <1>1, TypeCorrect, PTL DEF Spec, ClosedAdmitsOnlyTheMarker

-----------------------------------------------------------------------------
(***************************************************************************)
(* A view reads the log, the rows, the chain of its branch and a           *)
(* transaction to look back to; here these are parameters, so that the     *)
(* views before and after a step are the same operator of different        *)
(* arguments.                                                              *)
(***************************************************************************)

(***************************************************************************)
(* The views, of any log.                                                  *)
(***************************************************************************)

Seen(log, t, chain) == t \in DOMAIN log /\ \E link \in chain : link[2] = log[t].branch

Nearer(log, r, s, chain) ==
    \E link \in chain :
        /\ link[2] = log[r.tx].branch
        /\ \A other \in chain : other[2] = log[s.tx].branch => link[1] < other[1]

Hides(log, r, s, chain) ==
    \/ Nearer(log, r, s, chain)
    \/ log[r.tx].branch = log[s.tx].branch /\ r.tx > s.tx

Visible(log, rows, chain, asOf) == {r \in rows : r.tx <= asOf /\ Seen(log, r.tx, chain)}

Heads(log, rows, chain, asOf) ==
    {r \in Visible(log, rows, chain, asOf) :
        \A s \in Visible(log, rows, chain, asOf) : s.id = r.id /\ s # r => Hides(log, r, s, chain)}

Revoked(log, f, asOf, chain) == f.rev # None /\ f.rev <= asOf /\ Seen(log, f.rev, chain)

Live(log, rows, chain, asOf) ==
    {f \in Heads(log, rows, chain, asOf) : ~Revoked(log, f, asOf, chain)}

Held(log, heads, chain) ==
    {r \in heads : /\ r.status = "Active"
                   /\ \A s \in heads : s.status = "Active" /\ s.claim = r.claim /\ s # r
                                          => Hides(log, r, s, chain)}

(***************************************************************************)
(* The ancestor walk.  A step that adds a branch leaves the walks from     *)
(* branches that had a row as they were.                                   *)
(***************************************************************************)

Ids == Branches \cup {NoBranch}

\* The walk of branch_ancestors over the live branches, each with its parent.
Link(w, n, live, up) ==
    [id \in Ids |-> IF id \notin live THEN <<>>
                    ELSE <<id>> \o IF n = AncestorGuard THEN <<>> ELSE w[n + 1][up[id]]]

WalksOver(w, live, up) == w = [n \in 0..AncestorGuard |-> Link(w, n, live, up)]

\* A recursive function on 0..AncestorGuard exists: from the last link back to the first.
LEMMA WalkExists ==
  ASSUME NEW live, NEW up
  PROVE  \E w : WalksOver(w, live, up)
  <1> DEFINE part(w, k) ==
               /\ w = [n \in 0..AncestorGuard |-> w[n]]
               /\ \A n \in k..AncestorGuard : w[n] = Link(w, n, live, up)
             bad == {j \in 0..AncestorGuard : ~\E w : part(w, AncestorGuard - j)}
  <1>1. AncestorGuard \in Nat
    BY BrainAssumption
  <1>2. 0 \notin bad
    <2> DEFINE w == [n \in 0..AncestorGuard |->
                       [id \in Ids |-> IF id \notin live THEN <<>> ELSE <<id>> \o <<>>]]
    <2>1. Link(w, AncestorGuard, live, up)
            = [id \in Ids |-> IF id \notin live THEN <<>> ELSE <<id>> \o <<>>]
      BY DEF Link
    <2>2. w[AncestorGuard] = [id \in Ids |-> IF id \notin live THEN <<>> ELSE <<id>> \o <<>>]
      BY <1>1
    <2>3. w = [n \in 0..AncestorGuard |-> w[n]]
      OBVIOUS
    <2> HIDE DEF w
    <2>4. \A n \in AncestorGuard..AncestorGuard : n = AncestorGuard
      BY <1>1
    <2>5. part(w, AncestorGuard)
      BY <2>1, <2>2, <2>3, <2>4
    <2>6. AncestorGuard - 0 = AncestorGuard
      BY <1>1
    <2>7. QED
      BY <2>5, <2>6
  <1>3. ASSUME NEW j \in 0..AncestorGuard, j + 1 \in bad
        PROVE  j \in bad
    <2> SUFFICES ASSUME NEW w, part(w, AncestorGuard - j)
                 PROVE  FALSE
      BY <1>3
    <2> DEFINE k == AncestorGuard - (j + 1)
               v == [n \in 0..AncestorGuard |-> IF n = k THEN Link(w, k, live, up) ELSE w[n]]
    <2>1. /\ k \in 0..AncestorGuard /\ k + 1 = AncestorGuard - j
          /\ k \in Nat /\ k # AncestorGuard
          /\ \A n \in k..AncestorGuard : n = k \/ n \in (k + 1)..AncestorGuard
      BY <1>1, <1>3
    <2>2. v = [n \in 0..AncestorGuard |-> v[n]]
      OBVIOUS
    <2>3. v[k] = Link(w, k, live, up)
      BY <2>1
    <2>4. \A n \in (k + 1)..AncestorGuard : n \in 0..AncestorGuard /\ v[n] = w[n]
      BY <1>1, <2>1
    <2> HIDE DEF v
    <2>5. ASSUME NEW n \in k..AncestorGuard
          PROVE  Link(v, n, live, up) = Link(w, n, live, up)
      <3>1. n # AncestorGuard => n + 1 \in (k + 1)..AncestorGuard
        BY <1>1, <2>1
      <3>2. n # AncestorGuard => v[n + 1] = w[n + 1]
        BY <2>4, <3>1
      <3>3. QED
        BY <3>2 DEF Link
    <2>6. ASSUME NEW n \in k..AncestorGuard
          PROVE  v[n] = Link(v, n, live, up)
      <3>1. CASE n = k
        BY <2>3, <2>5, <3>1
      <3>2. CASE n \in (k + 1)..AncestorGuard
        BY <2>1, <2>4, <2>5, <3>2
      <3>3. QED
        BY <2>1, <3>1, <3>2
    <2>7. part(v, k)
      BY <2>2, <2>6
    <2>8. QED
      BY <1>3, <2>7
  <1> HIDE DEF bad
  <1>4. bad = {}
    <2> SUFFICES ASSUME bad # {} PROVE FALSE
      OBVIOUS
    <2>1. bad \subseteq 0..AncestorGuard /\ bad \subseteq Nat
      BY <1>1 DEF bad
    <2>2. PICK m \in bad : \A n \in bad : m <= n
      BY <1>1, <2>1, LeastNat
    <2>3. m # 0 /\ m \in 0..AncestorGuard
      BY <1>2, <2>1
    <2>4. m - 1 \in 0..AncestorGuard /\ (m - 1) + 1 = m
      BY <1>1, <2>3
    <2>5. m - 1 \in bad
      BY <1>3, <2>2, <2>4
    <2>6. QED
      BY <1>1, <2>2, <2>3, <2>5
  <1>5. PICK w : part(w, 0)
    <2>1. AncestorGuard \in 0..AncestorGuard /\ AncestorGuard - AncestorGuard = 0
      BY <1>1
    <2>2. QED
      BY <1>4, <2>1 DEF bad
  <1>6. w = [n \in 0..AncestorGuard |-> Link(w, n, live, up)]
    BY <1>5
  <1>7. QED
    BY <1>6 DEF WalksOver

LiveIds == {id \in Ids : HasRow(id) /\ ~branches[FirstRow(id)].archived}
Parent == [id \in Ids |-> branches[FirstRow(id)].parent]

LEMMA AncestorWalkIs ==
  ASSUME NEW b
  PROVE  \E w : WalksOver(w, LiveIds, Parent) /\ AncestorWalk(b) = w[0][b]
  <1> DEFINE walks(w) ==
               w = [n \in 0..AncestorGuard |->
                        [id \in Branches \cup {NoBranch} |->
                            IF ~HasRow(id) \/ branches[FirstRow(id)].archived
                              THEN <<>>
                              ELSE <<id>> \o IF n = AncestorGuard
                                               THEN <<>>
                                               ELSE w[n + 1][branches[FirstRow(id)].parent]]]
             walk == CHOOSE w : walks(w)
  <1>1. ASSUME NEW w
        PROVE  WalksOver(w, LiveIds, Parent) <=> walks(w)
    <2>1. ASSUME NEW n \in 0..AncestorGuard
          PROVE  Link(w, n, LiveIds, Parent)
                   = [id \in Branches \cup {NoBranch} |->
                            IF ~HasRow(id) \/ branches[FirstRow(id)].archived
                              THEN <<>>
                              ELSE <<id>> \o IF n = AncestorGuard
                                               THEN <<>>
                                               ELSE w[n + 1][branches[FirstRow(id)].parent]]
      BY DEF Link, Ids, LiveIds, Parent
    <2>2. QED
      BY <2>1 DEF WalksOver
  <1>2. AncestorWalk(b) = walk[0][b]
    BY DEF AncestorWalk
  <1> HIDE DEF walks
  <1>3. walks(walk)
    BY <1>1, WalkExists
  <1>4. QED
    BY <1>1, <1>2, <1>3

LEMMA AncestorWalkIsNext ==
  ASSUME NEW b
  PROVE  \E w : WalksOver(w, LiveIds', Parent') /\ AncestorWalk(b)' = w[0][b]
  <1> DEFINE walks(w) ==
               w = [n \in 0..AncestorGuard |->
                        [id \in Branches \cup {NoBranch} |->
                            IF ~HasRow(id)' \/ branches'[FirstRow(id)'].archived
                              THEN <<>>
                              ELSE <<id>> \o IF n = AncestorGuard
                                               THEN <<>>
                                               ELSE w[n + 1][branches'[FirstRow(id)'].parent]]]
             walk == CHOOSE w : walks(w)
  <1>1. ASSUME NEW w
        PROVE  WalksOver(w, LiveIds', Parent') <=> walks(w)
    <2>1. ASSUME NEW n \in 0..AncestorGuard
          PROVE  Link(w, n, LiveIds', Parent')
                   = [id \in Branches \cup {NoBranch} |->
                            IF ~HasRow(id)' \/ branches'[FirstRow(id)'].archived
                              THEN <<>>
                              ELSE <<id>> \o IF n = AncestorGuard
                                               THEN <<>>
                                               ELSE w[n + 1][branches'[FirstRow(id)'].parent]]
      BY DEF Link, Ids, LiveIds, Parent
    <2>2. QED
      BY <2>1 DEF WalksOver
  <1>2. AncestorWalk(b)' = walk[0][b]
    BY DEF AncestorWalk
  <1> HIDE DEF walks
  <1>3. walks(walk)
    BY <1>1, WalkExists
  <1>4. QED
    BY <1>1, <1>2, <1>3

LEMMA RowsAreTyped ==
  ASSUME TypeOK, NEW b, HasRow(b)
  PROVE  /\ b \in Branches
         /\ FirstRow(b) \in 1..Len(branches) /\ branches[FirstRow(b)] \in Branch
         /\ branches[FirstRow(b)].id = b
         /\ \A j \in 1..(FirstRow(b) - 1) : branches[j].id # b
  <1> DEFINE rows == {i \in DOMAIN branches : branches[i].id = b}
  <1>1. DOMAIN branches = 1..Len(branches) /\ Len(branches) \in Nat
    BY DEF TypeOK
  <1>2. rows \subseteq Nat /\ rows # {}
    BY <1>1 DEF HasRow
  <1>3. PICK m \in rows : \A i \in rows : m <= i
    BY <1>2, LeastNat
  <1>4. \A j \in 1..(m - 1) : branches[j].id # b
    BY <1>1, <1>3
  <1>5. /\ FirstRow(b) \in DOMAIN branches /\ branches[FirstRow(b)].id = b
        /\ \A j \in 1..(FirstRow(b) - 1) : branches[j].id # b
    BY <1>3, <1>4 DEF FirstRow
  <1>6. branches[FirstRow(b)] \in Branch
    BY <1>1, <1>5 DEF TypeOK
  <1>7. QED
    BY <1>1, <1>5, <1>6 DEF Branch

\* The table keeps its rows where they are: branches are only appended.
TableGrows ==
    /\ Len(branches) <= Len(branches')
    /\ \A k \in 1..Len(branches) : branches'[k] = branches[k]

LEMMA GrowthKeepsRows ==
  ASSUME TypeOK, TypeOK', TableGrows, NEW c, HasRow(c)
  PROVE  HasRow(c)' /\ branches'[FirstRow(c)'] = branches[FirstRow(c)]
  <1> DEFINE n == Len(branches)
             i == FirstRow(c)
             first(k) == k \in DOMAIN branches' /\ branches'[k].id = c
                         /\ \A j \in 1..(k - 1) : branches'[j].id # c
  <1>2. /\ n \in Nat /\ DOMAIN branches = 1..n
        /\ Len(branches') \in Nat /\ DOMAIN branches' = 1..Len(branches')
        /\ n <= Len(branches')
        /\ \A k \in 1..n : branches'[k] = branches[k] /\ k \in DOMAIN branches'
    BY DEF TypeOK, TableGrows
  <1>3. i \in 1..n /\ branches[i].id = c /\ \A j \in 1..(i - 1) : branches[j].id # c
    BY RowsAreTyped
  <1> HIDE DEF i, n
  <1>4. \A j \in 1..(i - 1) : j \in 1..n
    BY <1>2, <1>3
  <1>5. first(i)
    BY <1>2, <1>3, <1>4
  <1>6. FirstRow(c)' = CHOOSE k \in DOMAIN branches' :
                          branches'[k].id = c /\ \A j \in 1..(k - 1) : branches'[j].id # c
    BY DEF FirstRow
  <1>7. first(FirstRow(c)')
    BY <1>5, <1>6
  <1>8. ASSUME NEW k, first(k) PROVE k = i
    <2>1. k \in Nat /\ i \in Nat
      BY <1>2, <1>3, <1>8
    <2>2. ~(k < i)
      <3> SUFFICES ASSUME k < i PROVE FALSE
        OBVIOUS
      <3>1. k \in 1..(i - 1)
        BY <1>2, <1>8, <2>1
      <3>2. QED
        BY <1>5, <1>8, <3>1
    <2>3. ~(i < k)
      <3> SUFFICES ASSUME i < k PROVE FALSE
        OBVIOUS
      <3>1. i \in 1..(k - 1)
        BY <1>2, <1>3, <2>1
      <3>2. QED
        BY <1>5, <1>8, <3>1
    <2>4. QED
      BY <2>1, <2>2, <2>3
  <1>9. FirstRow(c)' = i
    BY <1>7, <1>8
  <1>10. HasRow(c)'
    BY <1>5 DEF HasRow
  <1>11. branches'[i] = branches[i]
    BY <1>2, <1>3
  <1>12. QED
    BY <1>9, <1>10, <1>11 DEF i

\* No walk that begins at a row goes another way when a row is appended.
LEMMA WalkKept ==
  ASSUME TypeOK, TypeOK', BranchTableWellFormed,
         TableGrows, NEW c, HasRow(c)
  PROVE  AncestorWalk(c)' = AncestorWalk(c)
  <1>1. PICK w : WalksOver(w, LiveIds, Parent) /\ AncestorWalk(c) = w[0][c]
    BY AncestorWalkIs
  <1>2. PICK v : WalksOver(v, LiveIds', Parent') /\ AncestorWalk(c)' = v[0][c]
    BY AncestorWalkIsNext
  <1>3. AncestorGuard \in Nat
    BY BrainAssumption
  <1>4. NoBranch \notin LiveIds /\ NoBranch \notin LiveIds'
    <2>1. ~HasRow(NoBranch)
      BY RowsAreTyped, BrainAssumption
    <2>2. branches' \in Seq(Branch)
      BY DEF TypeOK
    <2>3. \A k \in DOMAIN branches' : branches'[k].id \in Branches
      <3>1. \A k \in 1..Len(branches') : branches'[k] \in Branch
        BY <2>2, ElementOfSeq
      <3>2. DOMAIN branches' = 1..Len(branches')
        BY <2>2
      <3>3. QED
        BY <3>1, <3>2 DEF Branch
    <2>4. QED
      BY <2>1, <2>3, BrainAssumption DEF HasRow, LiveIds
  <1>5. ASSUME NEW id \in Ids, HasRow(id)
        PROVE  /\ id \in LiveIds' <=> id \in LiveIds
               /\ Parent'[id] = Parent[id]
               /\ Parent[id] = NoBranch \/ (Parent[id] \in Ids /\ HasRow(Parent[id]))
    <2>1. HasRow(id)' /\ branches'[FirstRow(id)'] = branches[FirstRow(id)]
      BY <1>5, GrowthKeepsRows
    <2>2. (id \in LiveIds' <=> id \in LiveIds) /\ Parent'[id] = Parent[id]
      BY <1>5, <2>1 DEF LiveIds, Parent
    <2>3. FirstRow(id) \in DOMAIN branches /\ DOMAIN branches = 1..Len(branches)
          /\ Len(branches) \in Nat /\ branches[FirstRow(id)] \in Branch
      BY <1>5, RowsAreTyped DEF TypeOK
    <2>4. Parent[id] = branches[FirstRow(id)].parent
      BY DEF Parent
    <2>5. Parent[id] # NoBranch => HasRow(Parent[id])
      BY <2>3, <2>4 DEF BranchTableWellFormed, HasRow
    <2>6. Parent[id] \in Ids
      BY <2>3, <2>4 DEF Branch, Ids
    <2>7. QED
      BY <2>2, <2>5, <2>6
  <1> DEFINE same(n) == \A id \in Ids : HasRow(id) => v[n][id] = w[n][id]
             bad == {j \in 0..AncestorGuard : ~same(AncestorGuard - j)}
  <1>6. ASSUME NEW n \in 0..AncestorGuard, NEW id \in Ids
        PROVE  /\ w[n][id] = IF id \notin LiveIds THEN <<>>
                             ELSE <<id>> \o IF n = AncestorGuard THEN <<>> ELSE w[n + 1][Parent[id]]
               /\ v[n][id] = IF id \notin LiveIds' THEN <<>>
                             ELSE <<id>> \o IF n = AncestorGuard THEN <<>> ELSE v[n + 1][Parent'[id]]
    <2>1. w[n] = Link(w, n, LiveIds, Parent)
      BY <1>1 DEF WalksOver
    <2>2. v[n] = Link(v, n, LiveIds', Parent')
      BY <1>2 DEF WalksOver
    <2>3. QED
      BY <2>1, <2>2 DEF Link
  <1>7. ASSUME NEW n \in 0..AncestorGuard, n = AncestorGuard \/ (n + 1 \in 0..AncestorGuard /\ same(n + 1))
        PROVE  same(n)
    <2> SUFFICES ASSUME NEW id \in Ids, HasRow(id)
                 PROVE  v[n][id] = w[n][id]
      OBVIOUS
    <2>1. n # AncestorGuard => v[n + 1][Parent'[id]] = w[n + 1][Parent[id]]
      <3> SUFFICES ASSUME n # AncestorGuard, n + 1 \in 0..AncestorGuard, same(n + 1)
                   PROVE  v[n + 1][Parent[id]] = w[n + 1][Parent[id]]
        BY <1>5, <1>7
      <3>1. CASE Parent[id] = NoBranch
        <4>1. NoBranch \in Ids
          BY DEF Ids
        <4>2. v[n + 1][NoBranch] = <<>> /\ w[n + 1][NoBranch] = <<>>
          BY <1>4, <1>6, <4>1
        <4>3. QED
          BY <3>1, <4>2
      <3>2. CASE Parent[id] # NoBranch
        BY <1>5, <3>2
      <3>3. QED
        BY <3>1, <3>2
    <2>2. (id \in LiveIds' <=> id \in LiveIds)
      BY <1>5
    <2>3. /\ w[n][id] = IF id \notin LiveIds THEN <<>>
                        ELSE <<id>> \o IF n = AncestorGuard THEN <<>> ELSE w[n + 1][Parent[id]]
          /\ v[n][id] = IF id \notin LiveIds' THEN <<>>
                        ELSE <<id>> \o IF n = AncestorGuard THEN <<>> ELSE v[n + 1][Parent'[id]]
      BY <1>6
    <2>4. QED
      BY <2>1, <2>2, <2>3
  <1> HIDE DEF same
  <1>8. bad = {}
    <2> SUFFICES ASSUME bad # {} PROVE FALSE
      OBVIOUS
    <2>1. bad \subseteq Nat
      BY <1>3
    <2>2. PICK m \in bad : \A n \in bad : m <= n
      <3> HIDE DEF bad
      <3>1. QED
        BY <2>1, LeastNat
    <2>3. m \in 0..AncestorGuard /\ AncestorGuard - m \in 0..AncestorGuard /\ ~same(AncestorGuard - m)
      BY <1>3, <2>2
    <2>4. CASE m = 0
      <3>1. AncestorGuard - m = AncestorGuard
        BY <1>3, <2>4
      <3>2. QED
        BY <1>7, <2>3, <3>1
    <2>5. CASE m # 0
      <3>1. m - 1 \in 0..AncestorGuard /\ ~(m <= m - 1)
            /\ AncestorGuard - (m - 1) = (AncestorGuard - m) + 1
            /\ (AncestorGuard - m) + 1 \in 0..AncestorGuard
        BY <1>3, <2>3, <2>5
      <3>2. m - 1 \notin bad
        BY <2>2, <3>1
      <3>3. same((AncestorGuard - m) + 1)
        BY <3>1, <3>2
      <3>4. QED
        BY <1>7, <2>3, <3>1, <3>3
    <2>6. QED
      BY <2>4, <2>5
  <1>9. same(0)
    <2>1. AncestorGuard \in 0..AncestorGuard /\ AncestorGuard - AncestorGuard = 0
      BY <1>3
    <2>2. QED
      BY <1>8, <2>1
  <1>10. c \in Ids
    BY RowsAreTyped DEF Ids
  <1>11. QED
    BY <1>1, <1>2, <1>9, <1>10 DEF same

LEMMA ChainsKept ==
  ASSUME TypeOK, TypeOK', BranchTableWellFormed, TableGrows, NEW c, HasRow(c)
  PROVE  HasRow(c)' /\ BranchAncestors(c)' = BranchAncestors(c)
  BY GrowthKeepsRows, WalkKept DEF BranchAncestors

\* Only create_branch appends a row, and every other transaction leaves the table alone.
LEMMA CommitsGrowTable ==
  ASSUME TypeOK, Next, AnyCommitted
  PROVE  TableGrows
  <1>1. Len(txs) \in Nat /\ txs' # txs /\ Len(txs') # 0
    BY DEF TypeOK, AnyCommitted
  <1>2. branches' = branches => TableGrows
    <2>1. Len(branches) \in Nat
      BY DEF TypeOK
    <2>2. QED
      BY <2>1 DEF TableGrows
  <1>3. CASE \E b, parent, now : CreateBranch(parent, b, now)
    <2>1. PICK row : branches' = Append(branches, row)
      BY <1>3 DEF CreateBranch
    <2>2. QED
      BY <2>1 DEF TypeOK, TableGrows
  <1>4. CASE FactStep
    BY <1>2, <1>4 DEF FactStep, AssertFact, RetractFact, RetractFactExact
  <1>5. CASE BeliefStep
    BY <1>2, <1>5 DEF BeliefStep, ReviseBelief, RevokeBelief
  <1>6. CASE \E b \in Branches, id \in ObsIds, now \in Clock : AssertObservation(b, id, now)
    BY <1>2, <1>6 DEF AssertObservation
  <1>7. CASE BranchStep
    BY <1>1, <1>3, <1>7 DEF BranchStep, ArchiveBranch
  <1>8. CASE MergeStep
    BY <1>2, <1>8
       DEF MergeStep, MergeStart, MergeAssert, MergeRetract, MergeSkip, MergeFinish, MergeFail
  <1>9. CASE Reset
    <2>1. txs' = <<>>
      BY <1>9 DEF Reset
    <2>2. QED
      BY <1>1, <2>1
  <1>10. QED
    BY <1>4, <1>5, <1>6, <1>7, <1>8, <1>9 DEF Next

(***************************************************************************)
(* Heads.  log2 is a log one transaction longer than log, with n as its    *)
(* last; rows2 are rows of log2 that stem from rows of log or are of n.    *)
(***************************************************************************)

IsChain(chain, b) ==
    /\ <<0, b>> \in chain
    /\ \A link \in chain : link = <<0, b>> \/ (link[1] \in Int /\ link[1] >= 1)

LEMMA ChainShape ==
  ASSUME NEW b
  PROVE  IsChain(BranchAncestors(b), b)
  <1> DEFINE chain == BranchAncestors(b)
  <1>1. <<0, b>> \in chain
    BY DEF BranchAncestors
  <1>2. ASSUME NEW link \in chain, link # <<0, b>>
        PROVE  link[1] \in Int /\ link[1] >= 1
    <2>1. \E s, d : d \in 2..Len(s) /\ link = <<d - 1, s[d]>>
      BY <1>2 DEF BranchAncestors
    <2>2. PICK s, d : d \in 2..Len(s) /\ link = <<d - 1, s[d]>>
      BY <2>1
    <2>3. d \in Int /\ d >= 2
      BY <2>2
    <2>4. QED
      BY <2>2, <2>3
  <1>3. QED
    BY <1>1, <1>2 DEF IsChain

Longer(log, log2, n) ==
    /\ n \in Nat \ {0}
    /\ DOMAIN log = 1..(n - 1) /\ DOMAIN log2 = 1..n
    /\ \A t \in 1..(n - 1) : log2[t].branch = log[t].branch

\* Rows of log, one per transaction.
RowsOf(log, rows) ==
    /\ \A r \in rows : r.tx \in DOMAIN log
    /\ \A r, s \in rows : r.tx = s.tx => r = s

Stems(r, r2) == r2.id = r.id /\ r2.tx = r.tx

\* rows2 are rows, rewritten, and perhaps a row of n.
Grown(log, log2, rows, rows2, n) ==
    /\ Longer(log, log2, n)
    /\ RowsOf(log, rows) /\ RowsOf(log2, rows2)
    /\ \A r \in rows : \E r2 \in rows2 : Stems(r, r2)
    /\ \A r2 \in rows2 : r2.tx = n \/ \E r \in rows : Stems(r, r2)

\* Looking back from asOf in log and from asOf2 in log2 is looking at the same part of log.
SameWindow(n, asOf, asOf2) == \A t \in 1..(n - 1) : t <= asOf <=> t <= asOf2

LEMMA SeenInLonger ==
  ASSUME NEW log, NEW log2, NEW n, Longer(log, log2, n), NEW t \in DOMAIN log, NEW chain
  PROVE  Seen(log2, t, chain) <=> Seen(log, t, chain)
  BY DEF Longer, Seen

LEMMA HidesInLonger ==
  ASSUME NEW log, NEW log2, NEW n, Longer(log, log2, n), NEW chain,
         NEW r, NEW s, NEW r2, NEW s2, r.tx \in DOMAIN log, s.tx \in DOMAIN log,
         r2.tx = r.tx, s2.tx = s.tx
  PROVE  Hides(log2, r2, s2, chain) <=> Hides(log, r, s, chain)
  BY DEF Longer, Hides, Nearer

\* A row whose rewriting is a head is a head.
LEMMA HeadsDown ==
  ASSUME NEW log, NEW log2, NEW rows, NEW rows2, NEW n, Grown(log, log2, rows, rows2, n),
         NEW chain, NEW asOf, NEW asOf2, SameWindow(n, asOf, asOf2),
         NEW r \in rows, NEW r2 \in Heads(log2, rows2, chain, asOf2), Stems(r, r2)
  PROVE  r \in Heads(log, rows, chain, asOf)
  <1>1. r.tx \in DOMAIN log /\ DOMAIN log = 1..(n - 1)
    BY DEF Grown, RowsOf, Longer
  <1>2. r \in Visible(log, rows, chain, asOf)
    BY <1>1, SeenInLonger DEF Grown, Heads, Visible, Stems, SameWindow
  <1>3. ASSUME NEW s \in Visible(log, rows, chain, asOf), s.id = r.id, s # r
        PROVE  Hides(log, r, s, chain)
    <2>1. s \in rows /\ s.tx \in DOMAIN log /\ s.tx <= asOf /\ Seen(log, s.tx, chain)
      BY <1>3 DEF Grown, RowsOf, Visible
    <2>2. PICK s2 \in rows2 : Stems(s, s2)
      BY <2>1 DEF Grown
    <2>3. s2.tx <= asOf2 /\ Seen(log2, s2.tx, chain)
      BY <1>1, <2>1, <2>2, SeenInLonger DEF Grown, Stems, SameWindow
    <2>4. s2.id = r2.id /\ s2 # r2
      BY <1>3, <2>1, <2>2 DEF Stems, Grown, RowsOf
    <2>5. Hides(log2, r2, s2, chain)
      BY <2>3, <2>4 DEF Heads, Visible
    <2>6. QED
      BY <1>1, <2>1, <2>2, <2>5, HidesInLonger DEF Grown, Stems
  <1>4. QED
    BY <1>2, <1>3 DEF Heads

\* And the other way, unless the new transaction wrote the same id where it is seen.
LEMMA HeadsUp ==
  ASSUME NEW log, NEW log2, NEW rows, NEW rows2, NEW n, Grown(log, log2, rows, rows2, n),
         NEW chain, NEW asOf, NEW asOf2, SameWindow(n, asOf, asOf2),
         NEW r \in Heads(log, rows, chain, asOf), NEW r2 \in rows2, Stems(r, r2),
         \A s2 \in rows2 : s2.tx = n /\ s2.id = r2.id => ~(n <= asOf2 /\ Seen(log2, n, chain))
  PROVE  r2 \in Heads(log2, rows2, chain, asOf2)
  <1>1. r \in rows /\ r.tx \in DOMAIN log /\ DOMAIN log = 1..(n - 1)
    BY DEF Grown, RowsOf, Longer, Heads, Visible
  <1>2. r2 \in Visible(log2, rows2, chain, asOf2)
    BY <1>1, SeenInLonger DEF Grown, Heads, Visible, Stems, SameWindow
  <1>3. ASSUME NEW s2 \in Visible(log2, rows2, chain, asOf2), s2.id = r2.id, s2 # r2
        PROVE  Hides(log2, r2, s2, chain)
    <2>1. s2 \in rows2 /\ s2.tx <= asOf2 /\ Seen(log2, s2.tx, chain)
      BY <1>3 DEF Visible
    <2>2. s2.tx # n
      BY <1>3, <2>1
    <2>3. PICK s \in rows : Stems(s, s2)
      BY <2>1, <2>2 DEF Grown
    <2>4. s.tx \in DOMAIN log
      BY <2>3 DEF Grown, RowsOf
    <2>5. s.tx <= asOf /\ Seen(log, s.tx, chain)
      BY <1>1, <2>1, <2>3, <2>4, SeenInLonger DEF Grown, Stems, SameWindow
    <2>6. s.id = r.id /\ s # r
      BY <1>3, <2>1, <2>3 DEF Stems, Grown, RowsOf
    <2>7. Hides(log, r, s, chain)
      BY <2>3, <2>5, <2>6 DEF Heads, Visible
    <2>8. QED
      BY <1>1, <2>3, <2>4, <2>7, HidesInLonger DEF Grown, Stems
  <1>4. QED
    BY <1>2, <1>3 DEF Heads

\* Two rows of a view do not hide each other.
LEMMA HidesOneWay ==
  ASSUME NEW log, NEW chain, NEW b, IsChain(chain, b), NEW r, NEW s,
         r.tx \in Nat, s.tx \in Nat, Seen(log, r.tx, chain), Seen(log, s.tx, chain),
         Hides(log, r, s, chain), Hides(log, s, r, chain)
  PROVE  FALSE
  <1>1. \A link \in chain : link[1] \in Int
    BY DEF IsChain
  <1>2. ~(Nearer(log, r, s, chain) /\ log[r.tx].branch = log[s.tx].branch)
    BY <1>1 DEF Nearer
  <1>3. ~(Nearer(log, s, r, chain) /\ log[r.tx].branch = log[s.tx].branch)
    BY <1>1 DEF Nearer
  <1>4. ~(Nearer(log, r, s, chain) /\ Nearer(log, s, r, chain))
    <2> SUFFICES ASSUME Nearer(log, r, s, chain), Nearer(log, s, r, chain)
                 PROVE  FALSE
      OBVIOUS
    <2>1. PICK link \in chain : link[2] = log[r.tx].branch
            /\ \A other \in chain : other[2] = log[s.tx].branch => link[1] < other[1]
      BY DEF Nearer
    <2>2. PICK other \in chain : other[2] = log[s.tx].branch
            /\ \A l \in chain : l[2] = log[r.tx].branch => other[1] < l[1]
      BY DEF Nearer
    <2>3. QED
      BY <1>1, <2>1, <2>2
  <1>5. QED
    BY <1>2, <1>3, <1>4 DEF Hides

\* So a view has one head for each id.
LEMMA OneHead ==
  ASSUME NEW log, NEW rows, RowsOf(log, rows), DOMAIN log \subseteq Nat,
         NEW chain, NEW b, IsChain(chain, b), NEW asOf,
         NEW r \in Heads(log, rows, chain, asOf), NEW s \in Heads(log, rows, chain, asOf),
         r.id = s.id
  PROVE  r = s
  <1> SUFFICES ASSUME r # s PROVE FALSE
    OBVIOUS
  <1>1. r.tx \in Nat /\ s.tx \in Nat /\ Seen(log, r.tx, chain) /\ Seen(log, s.tx, chain)
    BY DEF Heads, Visible, RowsOf
  <1>2. Hides(log, r, s, chain) /\ Hides(log, s, r, chain)
    BY DEF Heads
  <1>3. QED
    BY <1>1, <1>2, HidesOneWay

(***************************************************************************)
(* Live facts.                                                             *)
(***************************************************************************)

\* A transaction n on b wrote rows2 from rows: it may add a row of id, stamp rows of id on b,
\* and revokes only what was not revoked.
Wrote(log, log2, rows, rows2, n, b, id) ==
    /\ Grown(log, log2, rows, rows2, n)
    /\ log2[n].branch = b
    /\ \A f \in rows : f.rev # None =>
          f.rev \in DOMAIN log /\ log[f.rev].branch = log[f.tx].branch
    /\ \A f \in rows, g \in rows2 : Stems(f, g) =>
          /\ g.pred = f.pred /\ g.val = f.val
          /\ g.rev = f.rev \/ (f.rev = None /\ g.rev = n)
          /\ g = f \/ (f.id = id /\ log[f.tx].branch = b)
    /\ \A g \in rows2 : g.tx = n => g.id = id

LEMMA LiveDown ==
  ASSUME NEW log, NEW log2, NEW rows, NEW rows2, NEW n, NEW b, NEW id,
         Wrote(log, log2, rows, rows2, n, b, id),
         NEW chain, NEW asOf, NEW asOf2, SameWindow(n, asOf, asOf2),
         NEW f \in rows, NEW g \in Live(log2, rows2, chain, asOf2), Stems(f, g)
  PROVE  f \in Live(log, rows, chain, asOf)
  <1>1. g \in rows2 /\ g \in Heads(log2, rows2, chain, asOf2) /\ ~Revoked(log2, g, asOf2, chain)
    BY DEF Live, Heads, Visible
  <1>2. f \in Heads(log, rows, chain, asOf)
    BY <1>1, HeadsDown DEF Wrote
  <1>3. ASSUME Revoked(log, f, asOf, chain)
        PROVE  FALSE
    <2>1. f.rev # None /\ f.rev \in DOMAIN log /\ g.rev = f.rev /\ f.rev <= asOf
          /\ Seen(log, f.rev, chain)
      BY <1>1, <1>3 DEF Wrote, Revoked
    <2>2. Seen(log2, f.rev, chain) /\ f.rev <= asOf2
      BY <2>1, SeenInLonger DEF Wrote, Grown, Longer, SameWindow
    <2>3. QED
      BY <1>1, <2>1, <2>2 DEF Revoked
  <1>4. QED
    BY <1>2, <1>3 DEF Live

LEMMA LiveUp ==
  ASSUME NEW log, NEW log2, NEW rows, NEW rows2, NEW n, NEW b, NEW id,
         Wrote(log, log2, rows, rows2, n, b, id),
         NEW chain, NEW asOf, NEW asOf2, SameWindow(n, asOf, asOf2),
         NEW f \in Live(log, rows, chain, asOf), NEW g \in rows2, Stems(f, g),
         f.id # id \/ ~(n <= asOf2 /\ Seen(log2, n, chain))
  PROVE  g \in Live(log2, rows2, chain, asOf2)
  <1>1. f \in rows /\ f \in Heads(log, rows, chain, asOf) /\ ~Revoked(log, f, asOf, chain)
    BY DEF Live, Heads, Visible
  <1>2. g \in Heads(log2, rows2, chain, asOf2)
    <2>1. \A s2 \in rows2 : s2.tx = n /\ s2.id = g.id => ~(n <= asOf2 /\ Seen(log2, n, chain))
      BY DEF Wrote, Stems
    <2>2. QED
      BY <1>1, <2>1, HeadsUp DEF Wrote
  <1>3. ASSUME Revoked(log2, g, asOf2, chain)
        PROVE  FALSE
    <2>1. g.rev # None /\ g.rev <= asOf2 /\ Seen(log2, g.rev, chain)
      BY <1>3 DEF Revoked
    <2>2. CASE g.rev = f.rev
      <3>1. f.rev \in DOMAIN log
        BY <1>1, <2>1, <2>2 DEF Wrote
      <3>2. Seen(log, f.rev, chain) /\ f.rev <= asOf
        BY <2>1, <2>2, <3>1, SeenInLonger DEF Wrote, Grown, Longer, SameWindow
      <3>3. QED
        BY <1>1, <2>1, <2>2, <3>2 DEF Revoked
    <2>3. CASE g.rev # f.rev
      <3>1. f.rev = None /\ g.rev = n /\ f.id = id
        BY <1>1, <2>3 DEF Wrote
      <3>2. QED
        BY <2>1, <3>1
    <2>4. QED
      BY <2>2, <2>3
  <1>4. QED
    BY <1>2, <1>3 DEF Live

\* Where the transaction is not seen, the view stays as it is.
LEMMA UnseenWrite ==
  ASSUME NEW log, NEW log2, NEW rows, NEW rows2, NEW n, NEW b, NEW id,
         Wrote(log, log2, rows, rows2, n, b, id),
         NEW chain, ~Seen(log2, n, chain)
  PROVE  Live(log2, rows2, chain, n) = Live(log, rows, chain, n - 1)
  <1>1. n \in Nat \ {0} /\ DOMAIN log = 1..(n - 1) /\ DOMAIN log2 = 1..n
    BY DEF Wrote, Grown, Longer
  <1>2. SameWindow(n, n - 1, n)
    BY <1>1 DEF SameWindow
  <1>3. ASSUME NEW f \in rows, NEW g \in rows2, Stems(f, g), Seen(log, f.tx, chain)
        PROVE  g = f
    <2>1. log[f.tx].branch # b
      BY <1>1, <1>3 DEF Seen, Wrote
    <2>2. QED
      BY <1>3, <2>1 DEF Wrote
  <1>4. ASSUME NEW g \in Live(log2, rows2, chain, n)
        PROVE  g \in Live(log, rows, chain, n - 1)
    <2>1. g \in rows2 /\ Seen(log2, g.tx, chain)
      BY DEF Live, Heads, Visible
    <2>2. PICK f \in rows : Stems(f, g)
      BY <2>1 DEF Wrote, Grown
    <2>3. f \in Live(log, rows, chain, n - 1)
      BY <1>2, <2>2, LiveDown
    <2>4. Seen(log, f.tx, chain)
      BY <2>3 DEF Live, Heads, Visible
    <2>5. QED
      BY <1>3, <2>1, <2>2, <2>3, <2>4
  <1>5. ASSUME NEW f \in Live(log, rows, chain, n - 1)
        PROVE  f \in Live(log2, rows2, chain, n)
    <2>1. f \in rows /\ Seen(log, f.tx, chain)
      BY DEF Live, Heads, Visible
    <2>2. PICK g \in rows2 : Stems(f, g)
      BY <2>1 DEF Wrote, Grown
    <2>3. g \in Live(log2, rows2, chain, n)
      BY <1>2, <2>2, LiveUp
    <2>4. QED
      BY <1>3, <2>1, <2>2, <2>3
  <1>6. QED
    BY <1>4, <1>5

Known(f) == <<f.id, f.pred, f.val, f.tx>>

\* What is known as of an earlier transaction stays as it is.
LEMMA EarlierView ==
  ASSUME NEW log, NEW log2, NEW rows, NEW rows2, NEW n, NEW b, NEW id,
         Wrote(log, log2, rows, rows2, n, b, id),
         NEW chain, NEW t \in 1..(n - 1)
  PROVE  /\ \A g \in Live(log2, rows2, chain, t) :
               \E f \in Live(log, rows, chain, t) : Known(g) = Known(f)
         /\ \A f \in Live(log, rows, chain, t) :
               \E g \in Live(log2, rows2, chain, t) : Known(g) = Known(f)
  <1>1. n \in Nat \ {0} /\ DOMAIN log = 1..(n - 1) /\ DOMAIN log2 = 1..n
    BY DEF Wrote, Grown, Longer
  <1>2. SameWindow(n, t, t) /\ ~(n <= t)
    BY <1>1 DEF SameWindow
  <1>3. ASSUME NEW f \in rows, NEW g \in rows2, Stems(f, g)
        PROVE  Known(g) = Known(f)
    BY <1>3 DEF Wrote, Stems, Known
  <1>4. ASSUME NEW g \in Live(log2, rows2, chain, t)
        PROVE  \E f \in Live(log, rows, chain, t) : Known(g) = Known(f)
    <2>1. g \in rows2 /\ g.tx <= t
      BY DEF Live, Heads, Visible
    <2>2. PICK f \in rows : Stems(f, g)
      BY <1>2, <2>1 DEF Wrote, Grown
    <2>3. f \in Live(log, rows, chain, t)
      BY <1>2, <2>2, LiveDown
    <2>4. QED
      BY <1>3, <2>1, <2>2, <2>3
  <1>5. ASSUME NEW f \in Live(log, rows, chain, t)
        PROVE  \E g \in Live(log2, rows2, chain, t) : Known(g) = Known(f)
    <2>1. f \in rows
      BY DEF Live, Heads, Visible
    <2>2. PICK g \in rows2 : Stems(f, g)
      BY <2>1 DEF Wrote, Grown
    <2>3. g \in Live(log2, rows2, chain, t)
      BY <1>2, <2>2, LiveUp
    <2>4. QED
      BY <1>3, <2>1, <2>2, <2>3
  <1>6. QED
    BY <1>4, <1>5

(***************************************************************************)
(* The views of Brain are those of its variables, before and after a step. *)
(***************************************************************************)

LEMMA FactViews ==
  ASSUME NEW b
  PROVE  /\ \A asOf : LiveFacts(b, asOf) = Live(txs, facts, BranchAncestors(b), asOf)
         /\ FactsOnBranch(b) = Live(txs, facts, BranchAncestors(b), Len(txs))
         /\ FactsOnBranch(b)' = Live(txs', facts', BranchAncestors(b)', Len(txs'))
  <1>1. ASSUME NEW asOf
        PROVE  LiveFacts(b, asOf) = Live(txs, facts, BranchAncestors(b), asOf)
    BY DEF LiveFacts, Live, Heads, Visible, NewestRows, RevokedInView, Revoked, InView, Seen,
           Before, Closer, Hides, Nearer, TxBranch
  <1>2. FactsOnBranch(b)' = Live(txs', facts', BranchAncestors(b)', Len(txs'))
    BY DEF FactsOnBranch, LastTx,
           LiveFacts, Live, Heads, Visible, NewestRows, RevokedInView, Revoked, InView, Seen,
           Before, Closer, Hides, Nearer, TxBranch
  <1>3. QED
    BY <1>1, <1>2 DEF FactsOnBranch, LastTx

LEMMA PastFactViews ==
  ASSUME NEW t
  PROVE  /\ FactsAsOf(t) = Live(txs, facts, BranchAncestors(TxBranch(t)), t)
         /\ FactsAsOf(t)' = Live(txs', facts', BranchAncestors(TxBranch(t))', t)
  BY DEF FactsAsOf, LiveFacts, Live, Heads, Visible, NewestRows, RevokedInView, Revoked, InView,
         Seen, Before, Closer, Hides, Nearer, TxBranch

\* The branch of a past transaction is that of a name which does not change.
LEMMA ChainOfTx ==
  ASSUME NEW t, NEW c, txs[t].branch = c, txs'[t].branch = c
  PROVE  /\ BranchAncestors(TxBranch(t)) = BranchAncestors(c)
         /\ BranchAncestors(TxBranch(t))' = BranchAncestors(c)'
  BY DEF BranchAncestors, AncestorWalk, TxBranch, HasRow, FirstRow

LEMMA BeliefViews ==
  ASSUME NEW b
  PROVE  /\ BeliefsOnBranch(b) =
              Held(txs, Heads(txs, beliefs, BranchAncestors(b), Len(txs)), BranchAncestors(b))
         /\ BeliefsOnBranch(b)' =
              Held(txs', Heads(txs', beliefs', BranchAncestors(b)', Len(txs')), BranchAncestors(b)')
  BY DEF BeliefsOnBranch, BeliefHeads, ActiveBeliefs, LastTx, Held, Heads, Visible, NewestRows,
         InView, Seen, Before, Closer, Hides, Nearer, TxBranch

LEMMA PastBeliefViews ==
  ASSUME NEW t
  PROVE  /\ BeliefsAsOf(t) =
              Held(txs, Heads(txs, beliefs, BranchAncestors(TxBranch(t)), t),
                   BranchAncestors(TxBranch(t)))
         /\ BeliefsAsOf(t)' =
              Held(txs', Heads(txs', beliefs', BranchAncestors(TxBranch(t))', t),
                   BranchAncestors(TxBranch(t))')
  BY DEF BeliefsAsOf, ActiveBeliefs, Held, Heads, Visible, NewestRows,
         InView, Seen, Before, Closer, Hides, Nearer, TxBranch

(***************************************************************************)
(* Commits: the steps that append a transaction, by what they write.       *)
(***************************************************************************)

WritesFacts(b, action, ref, now) ==
    \/ /\ action = "AssertFact"
       /\ ref \in FactIds
       /\ \E pred, val, from, to : facts' = RowsAfterAssert(b, ref, pred, val, from, to, now)
    \/ /\ action = "RetractFact"
       /\ \E head \in FactsOnBranch(b) :
             /\ head.id = ref
             /\ \/ facts' = RowsAfterRetract(b, head, now)
                \/ facts' = RowsAfterRetractExact(b, head, now)

Commits(b, action, ref, now) ==
    /\ AllocTx(b, action, ref, now)
    /\ \/ WritesFacts(b, action, ref, now) /\ beliefs' = beliefs
       \/ /\ action \in TxAction \ {"AssertFact", "RetractFact"}
          /\ facts' = facts
          /\ beliefs' = beliefs \/ \E row : beliefs' = beliefs \cup {row}
                                              /\ row.tx = NewTx /\ row.id = ref

\* The steps that append nothing.
LEMMA NothingAppended ==
  ASSUME TypeOK, txs' = txs \/ txs' = <<>>
  PROVE  ~AnyCommitted
  <1>1. Len(txs) \in Nat
    BY DEF TypeOK
  <1>2. QED
    BY <1>1 DEF AnyCommitted

LEMMA CommitForm ==
  ASSUME TypeOK, Next, AnyCommitted
  PROVE  \E b \in Branches, action \in TxAction, ref \in Refs, now \in Times :
            Commits(b, action, ref, now)
  <1>1. /\ "AssertFact" \in TxAction /\ "RetractFact" \in TxAction
        /\ \A a \in {"AssertObservation", "ReviseBelief", "RevokeBelief", "CreateBranch", "Merge"} :
              a \in TxAction \ {"AssertFact", "RetractFact"}
    BY DEF TxAction
  <1>2. CASE FactStep
    <2>1. PICK b \in Branches, id \in FactIds, now \in Clock :
            \/ \E pred \in Preds, val \in Values :
                  \/ RetractFactExact(b, id, pred, val, now)
                  \/ \E from \in Froms, to \in Ends : AssertFact(b, id, pred, val, from, to, now)
            \/ RetractFact(b, id, now)
      BY <1>2 DEF FactStep
    <2>2. now \in Times /\ id \in Refs
      BY ClockTyped, RefsTyped
    <2>3. CASE \E pred, val, from, to : AssertFact(b, id, pred, val, from, to, now)
      <3>1. AllocTx(b, "AssertFact", id, now) /\ WritesFacts(b, "AssertFact", id, now)
            /\ beliefs' = beliefs
        BY <2>3 DEF AssertFact, WritesFacts
      <3>2. QED
        BY <1>1, <2>2, <3>1 DEF Commits
    <2>4. CASE RetractFact(b, id, now) \/ \E pred, val : RetractFactExact(b, id, pred, val, now)
      <3>1. AllocTx(b, "RetractFact", id, now) /\ WritesFacts(b, "RetractFact", id, now)
            /\ beliefs' = beliefs
        BY <2>4 DEF RetractFact, RetractFactExact, WritesFacts
      <3>2. QED
        BY <1>1, <2>2, <3>1 DEF Commits
    <2>5. QED
      BY <2>1, <2>3, <2>4
  <1>3. CASE BeliefStep
    <2>1. PICK b \in Branches, id \in BeliefIds, now \in Clock :
            \/ \E claim \in Claims, support \in Supports \cup {Inherit},
                  from \in Froms, to \in Ends :
                  ReviseBelief(b, id, claim, support, from, to, now)
            \/ RevokeBelief(b, id, now)
      BY <1>3 DEF BeliefStep
    <2>2. now \in Times /\ id \in Refs
      BY ClockTyped, RefsTyped
    <2>3. CASE \E claim, support, from, to : ReviseBelief(b, id, claim, support, from, to, now)
      <3>1. AllocTx(b, "ReviseBelief", id, now) /\ facts' = facts
            /\ \E row : beliefs' = beliefs \cup {row} /\ row.tx = NewTx /\ row.id = id
        <4>1. PICK claim, support, from, to : ReviseBelief(b, id, claim, support, from, to, now)
          BY <2>3
        <4> DEFINE row == [id |-> id, claim |-> claim, status |-> "Active", tx |-> NewTx,
                           support |-> SupportOf(b, id, support),
                           from |-> ValidFrom(from, now), to |-> to]
        <4>2. row.tx = NewTx /\ row.id = id
          OBVIOUS
        <4>3. beliefs' = beliefs \cup {row}
          BY <4>1 DEF ReviseBelief
        <4> HIDE DEF row
        <4>4. QED
          BY <4>1, <4>2, <4>3 DEF ReviseBelief
      <3>2. QED
        BY <1>1, <2>2, <3>1 DEF Commits
    <2>4. CASE RevokeBelief(b, id, now)
      <3>1. PICK active \in BeliefsOnBranch(b) :
              /\ active.id = id
              /\ AllocTx(b, "RevokeBelief", id, now)
              /\ beliefs' = BeliefsAfterRevoke(active, now)
              /\ facts' = facts
        BY <2>4 DEF RevokeBelief
      <3>2. active \in Belief
        BY BeliefViewsShowRows DEF TypeOK
      <3> DEFINE row == [active EXCEPT !.status = "Revoked", !.tx = NewTx, !.to = now]
      <3>3. row.tx = NewTx /\ row.id = id
        BY <3>1, <3>2 DEF Belief
      <3>4. beliefs' = beliefs \cup {row}
        BY <3>1 DEF BeliefsAfterRevoke
      <3> HIDE DEF row
      <3>5. \E r : beliefs' = beliefs \cup {r} /\ r.tx = NewTx /\ r.id = id
        BY <3>3, <3>4
      <3>6. QED
        BY <1>1, <2>2, <3>1, <3>5 DEF Commits
    <2>5. QED
      BY <2>1, <2>3, <2>4
  <1>4. CASE \E b \in Branches, id \in ObsIds, now \in Clock : AssertObservation(b, id, now)
    BY <1>1, <1>4, ClockTyped, RefsTyped DEF AssertObservation, Commits
  <1>5. CASE BranchStep
    <2>1. PICK b \in Branches :
            \/ \E parent \in Branches, now \in Clock : CreateBranch(parent, b, now)
            \/ ArchiveBranch(b)
      BY <1>5 DEF BranchStep
    <2>2. ~ArchiveBranch(b)
      BY NothingAppended DEF ArchiveBranch
    <2>3. QED
      BY <1>1, <2>1, <2>2, ClockTyped, RefsTyped DEF CreateBranch, Commits
  <1>6. CASE MergeStep
    <2>1. ~MergeFail /\ (\A s, t, p : ~MergeStart(s, t, p)) /\ (\A f : ~MergeSkip(f))
      BY NothingAppended DEF MergeFail, MergeStart, MergeSkip
    <2>2. ASSUME NEW f \in merge.todo, NEW now \in Clock, MergeAssert(f, now)
          PROVE  \E b \in Branches, action \in TxAction, ref \in Refs, t \in Times :
                    Commits(b, action, ref, t)
      <3>1. f.id \in FactIds /\ f.id \in Refs /\ now \in Times
        BY MergeTyped, ClockTyped, RefsTyped DEF Fact
      <3>2. AllocTx(merge.target, "AssertFact", f.id, now) /\ beliefs' = beliefs
            /\ WritesFacts(merge.target, "AssertFact", f.id, now)
        BY <2>2, <3>1 DEF MergeAssert, WritesFacts
      <3>3. merge.target \in Branches
        BY <3>2, BranchOfExisting DEF AllocTx
      <3>4. QED
        BY <1>1, <3>1, <3>2, <3>3 DEF Commits
    <2>3. ASSUME NEW f \in merge.todo, NEW now \in Clock, MergeRetract(f, now)
          PROVE  \E b \in Branches, action \in TxAction, ref \in Refs, t \in Times :
                    Commits(b, action, ref, t)
      <3>1. f.id \in FactIds /\ f.id \in Refs /\ now \in Times
        BY MergeTyped, ClockTyped, RefsTyped DEF Fact
      <3>2. AllocTx(merge.target, "RetractFact", f.id, now) /\ beliefs' = beliefs
            /\ WritesFacts(merge.target, "RetractFact", f.id, now)
        BY <2>3 DEF MergeRetract, WritesFacts
      <3>3. merge.target \in Branches
        BY <3>2, BranchOfExisting DEF AllocTx
      <3>4. QED
        BY <1>1, <3>1, <3>2, <3>3 DEF Commits
    <2>4. ASSUME NEW now \in Clock, MergeFinish(now)
          PROVE  \E b \in Branches, action \in TxAction, ref \in Refs, t \in Times :
                    Commits(b, action, ref, t)
      <3>1. AllocTx(merge.target, "Merge", merge.source, now) /\ facts' = facts
            /\ beliefs' = beliefs /\ Merging
        BY <2>4 DEF MergeFinish
      <3>2. merge.target \in Branches /\ merge.source \in Refs
        BY <3>1, BranchOfExisting, MergeTyped, RefsTyped DEF AllocTx
      <3>3. QED
        BY <1>1, <3>1, <3>2, ClockTyped DEF Commits
    <2>5. QED
      BY <1>6, <2>1, <2>2, <2>3, <2>4 DEF MergeStep
  <1>7. CASE Reset
    BY <1>7, NothingAppended DEF Reset
  <1>8. QED
    BY <1>2, <1>3, <1>4, <1>5, <1>6, <1>7 DEF Next

\* Every other step.
LEMMA AllSteps ==
  ASSUME TypeOK, Next
  PROVE  \/ AnyCommitted
         \/ Reset
         \/ \E b : ArchiveBranch(b)
         \/ UNCHANGED <<txs, facts, beliefs, branches>>
  <1>1. \A action, ref, now, b : AllocTx(b, action, ref, now) => AnyCommitted
    BY DEF AllocTx, AnyCommitted, TypeOK
  <1>2. FactStep => AnyCommitted
    BY <1>1 DEF FactStep, AssertFact, RetractFact, RetractFactExact
  <1>3. BeliefStep => AnyCommitted
    BY <1>1 DEF BeliefStep, ReviseBelief, RevokeBelief
  <1>4. (\E b \in Branches, id \in ObsIds, now \in Clock : AssertObservation(b, id, now)) => AnyCommitted
    BY <1>1 DEF AssertObservation
  <1>5. BranchStep => AnyCommitted \/ \E b : ArchiveBranch(b)
    BY <1>1 DEF BranchStep, CreateBranch
  <1>6. MergeStep => AnyCommitted \/ UNCHANGED <<txs, facts, beliefs, branches>>
    BY <1>1 DEF MergeStep, MergeStart, MergeAssert, MergeRetract, MergeSkip, MergeFinish, MergeFail
  <1>7. QED
    BY <1>2, <1>3, <1>4, <1>5, <1>6 DEF Next

LEMMA CommitLog ==
  ASSUME TypeOK, NEW b \in Branches, NEW action \in TxAction, NEW ref \in Refs, NEW now \in Times,
         Commits(b, action, ref, now)
  PROVE  /\ Longer(txs, txs', NewTx)
         /\ \A t \in DOMAIN txs : txs'[t] = txs[t]
         /\ txs'[NewTx].branch = b /\ txs'[NewTx].action = action /\ txs'[NewTx].ref = ref
         /\ NewTx = Len(txs') /\ Len(txs) = NewTx - 1 /\ NewTx \in Nat /\ NewTx > 0
         /\ LastTx' = NewTx
  <1>1. AllocTx(b, action, ref, now)
    BY DEF Commits
  <1>2. Len(txs') = Len(txs) + 1 /\ Len(txs) \in Nat
    <2>1. Len(txs') = Len(txs) + 1
      BY <1>1, AllocTxTyped
    <2>2. QED
      BY <2>1 DEF TypeOK
  <1>3. NewTx = Len(txs') /\ Len(txs) = NewTx - 1 /\ LastTx' = NewTx
    BY <1>2 DEF NewTx, LastTx
  <1>4. /\ NewTx \in Nat /\ NewTx > 0
        /\ DOMAIN txs = 1..(NewTx - 1) /\ DOMAIN txs' = 1..NewTx
        /\ \A t \in DOMAIN txs : txs'[t] = txs[t]
        /\ txs'[NewTx].action = action /\ txs'[NewTx].ref = ref /\ txs'[NewTx].branch = b
    BY <1>1, LogGrows
  <1>5. QED
    BY <1>3, <1>4 DEF Longer

\* A row of an inherited fact revoked at its creation.
LEMMA TombstoneRow ==
  ASSUME TypeOK, NEW head \in facts, NEW now
  PROVE  LET new == Tombstone(head, now)
         IN  new.tx = NewTx /\ new.id = head.id /\ new.rev = NewTx
  BY DEF TypeOK, Fact, Tombstone

\* What a commit makes of each fact row, and what it adds.
LEMMA FactRowsAfter ==
  ASSUME TypeOK, RowsInv, NEW b \in Branches, NEW action \in TxAction, NEW ref \in Refs,
         NEW now \in Times, Commits(b, action, ref, now)
  PROVE  /\ \A f \in facts : \E g \in facts' : Stems(f, g)
         /\ \A g \in facts' :
               \/ g.tx = NewTx /\ g.id = ref
               \/ \E f \in facts :
                     /\ Stems(f, g)
                     /\ g.pred = f.pred /\ g.val = f.val
                     /\ g.rev = f.rev \/ (f.rev = None /\ g.rev = NewTx)
                     /\ g = f \/ (f.id = ref /\ TxBranch(f.tx) = b)
  <1> DEFINE from(f, g) ==
                     /\ Stems(f, g)
                     /\ g.pred = f.pred /\ g.val = f.val
                     /\ g.rev = f.rev \/ (f.rev = None /\ g.rev = NewTx)
                     /\ g = f \/ (f.id = ref /\ TxBranch(f.tx) = b)
  <1>1. facts \subseteq Fact
    BY DEF TypeOK
  <1>2. \A f \in facts : from(f, f)
    BY DEF Stems
  <1>3. CASE facts' = facts
    BY <1>2, <1>3
  <1>4. CASE \E pred, val, start, to : facts' = RowsAfterAssert(b, ref, pred, val, start, to, now)
    <2>1. PICK pred, val, start, to : facts' = RowsAfterAssert(b, ref, pred, val, start, to, now)
      BY <1>4
    <2> DEFINE closeAt == IF ValidFrom(start, now) < now THEN ValidFrom(start, now) ELSE now
               new == [id |-> ref, pred |-> pred, val |-> val, tx |-> NewTx,
                       sup |-> None, rev |-> None, from |-> ValidFrom(start, now), to |-> to]
               step(f) == IF OpenRow(f, b, ref)
                            THEN [f EXCEPT !.sup = NewTx, !.to = closeAt] ELSE f
    <2>2. facts' = {step(f) : f \in facts} \cup {new}
      BY <2>1 DEF RowsAfterAssert
    <2>3. new.tx = NewTx /\ new.id = ref
      OBVIOUS
    <2>4. ASSUME NEW f \in facts PROVE from(f, step(f))
      BY <1>1 DEF Fact, Stems, OpenRow
    <2> HIDE DEF new, step, from
    <2>5. QED
      BY <2>2, <2>3, <2>4 DEF from
  <1>5. CASE \E head \in FactsOnBranch(b) :
                head.id = ref /\ TxBranch(head.tx) # b /\ facts' = facts \cup {Tombstone(head, now)}
    <2>1. PICK head \in FactsOnBranch(b) :
                head.id = ref /\ facts' = facts \cup {Tombstone(head, now)}
      BY <1>5
    <2>2. Tombstone(head, now).tx = NewTx /\ Tombstone(head, now).id = ref
      BY <2>1, ViewsShowRows, TombstoneRow DEF FactsOnBranch
    <2>3. QED
      BY <1>2, <2>1, <2>2
  <1>6. CASE \E head \in FactsOnBranch(b) :
                head.id = ref /\ TxBranch(head.tx) = b /\ facts' = RowsAfterRetract(b, head, now)
    <2>1. PICK head \in FactsOnBranch(b) :
                head.id = ref /\ TxBranch(head.tx) = b /\ facts' = RowsAfterRetract(b, head, now)
      BY <1>6
    <2> DEFINE step(f) == IF f.id = ref /\ f.rev = None /\ f.sup = None /\ TxBranch(f.tx) = b
                            THEN [f EXCEPT !.rev = NewTx, !.to = now] ELSE f
    <2>2. facts' = {step(f) : f \in facts}
      BY <2>1 DEF RowsAfterRetract
    <2>3. ASSUME NEW f \in facts PROVE from(f, step(f))
      BY <1>1 DEF Fact, Stems
    <2> HIDE DEF step, from
    <2>4. QED
      BY <2>2, <2>3 DEF from
  <1>7. CASE \E head \in FactsOnBranch(b) :
                head.id = ref /\ TxBranch(head.tx) = b /\ facts' = RowsAfterRetractExact(b, head, now)
    <2>1. PICK head \in FactsOnBranch(b) :
                head.id = ref /\ TxBranch(head.tx) = b /\ facts' = RowsAfterRetractExact(b, head, now)
      BY <1>7
    <2> DEFINE step(f) == IF /\ f.id = ref /\ f.pred = head.pred /\ f.val = head.val
                             /\ f.rev = None
                             /\ TxBranch(f.tx) = b
                            THEN [f EXCEPT !.rev = NewTx, !.to = IF @ = None THEN now ELSE @] ELSE f
    <2>2. facts' = {step(f) : f \in facts}
      BY <2>1 DEF RowsAfterRetractExact
    <2>3. ASSUME NEW f \in facts PROVE from(f, step(f))
      BY <1>1 DEF Fact, Stems
    <2> HIDE DEF step, from
    <2>4. QED
      BY <2>2, <2>3 DEF from
  <1>8. QED
    BY <1>3, <1>4, <1>5, <1>6, <1>7
       DEF Commits, WritesFacts, RowsAfterRetract, RowsAfterRetractExact

LEMMA FactsWritten ==
  ASSUME TypeOK, RowsInv, RowsInv', NEW b \in Branches, NEW action \in TxAction,
         NEW ref \in Refs, NEW now \in Times, Commits(b, action, ref, now)
  PROVE  Wrote(txs, txs', facts, facts', NewTx, b, ref)
  <1>1. Longer(txs, txs', NewTx) /\ txs'[NewTx].branch = b
    BY CommitLog
  <1>2. RowsOf(txs, facts) /\ RowsOf(txs', facts')
    BY DEF RowsInv, StampsTraceToTheLog, RowsOf
  <1>3. \A f \in facts : f.rev # None =>
           f.rev \in DOMAIN txs /\ txs[f.rev].branch = txs[f.tx].branch
    BY DEF RowsInv, StampsTraceToTheLog, TxBranch
  <1>4. \A f \in facts : f.tx \in DOMAIN txs /\ f.tx # NewTx
    BY <1>1, <1>2 DEF RowsOf, Longer
  <1>5. /\ \A f \in facts : \E g \in facts' : Stems(f, g)
        /\ \A g \in facts' :
               \/ g.tx = NewTx /\ g.id = ref
               \/ \E f \in facts :
                     /\ Stems(f, g)
                     /\ g.pred = f.pred /\ g.val = f.val
                     /\ g.rev = f.rev \/ (f.rev = None /\ g.rev = NewTx)
                     /\ g = f \/ (f.id = ref /\ TxBranch(f.tx) = b)
    BY FactRowsAfter
  <1>6. Grown(txs, txs', facts, facts', NewTx)
    BY <1>1, <1>2, <1>5 DEF Grown
  <1>7. \A g \in facts' : g.tx = NewTx => g.id = ref
    BY <1>4, <1>5 DEF Stems
  <1>8. ASSUME NEW f \in facts, NEW g \in facts', Stems(f, g)
        PROVE  /\ g.pred = f.pred /\ g.val = f.val
               /\ g.rev = f.rev \/ (f.rev = None /\ g.rev = NewTx)
               /\ g = f \/ (f.id = ref /\ txs[f.tx].branch = b)
    <2>1. g.tx # NewTx
      BY <1>4, <1>8 DEF Stems
    <2>2. PICK e \in facts :
                     /\ Stems(e, g)
                     /\ g.pred = e.pred /\ g.val = e.val
                     /\ g.rev = e.rev \/ (e.rev = None /\ g.rev = NewTx)
                     /\ g = e \/ (e.id = ref /\ TxBranch(e.tx) = b)
      BY <1>5, <2>1
    <2>3. e = f
      BY <1>2, <1>8, <2>2 DEF RowsOf, Stems
    <2>4. QED
      BY <2>2, <2>3 DEF TxBranch
  <1>9. QED
    BY <1>1, <1>3, <1>6, <1>7, <1>8 DEF Wrote

(***************************************************************************)
(* The log, the branches and the belief rows.                              *)
(***************************************************************************)

\* The branch of a transaction is in the table, an assertion has its row, and so has a belief
\* its transaction.
LogInv ==
    /\ \A t \in DOMAIN txs : HasRow(TxBranch(t))
    /\ \A t \in DOMAIN txs : txs[t].action = "AssertFact" => \E f \in facts : f.tx = t
    /\ \A r \in beliefs : r.tx \in DOMAIN txs
    /\ \A r, s \in beliefs : r.tx = s.tx => r = s

LEMMA BeliefsWritten ==
  ASSUME TypeOK, LogInv, NEW b \in Branches, NEW action \in TxAction,
         NEW ref \in Refs, NEW now \in Times, Commits(b, action, ref, now)
  PROVE  /\ Grown(txs, txs', beliefs, beliefs', NewTx)
         /\ beliefs \subseteq beliefs'
         /\ \A r \in beliefs' \ beliefs : r.tx = NewTx /\ r.id = ref
         /\ \A r \in beliefs : r.tx # NewTx
  <1>1. Longer(txs, txs', NewTx)
    BY CommitLog
  <1>2. RowsOf(txs, beliefs)
    BY DEF LogInv, RowsOf
  <1>3. \A r \in beliefs : r.tx \in DOMAIN txs /\ r.tx \in DOMAIN txs' /\ r.tx # NewTx
    BY <1>1, <1>2 DEF RowsOf, Longer
  <1>4. NewTx \in DOMAIN txs'
    BY <1>1 DEF Longer
  <1>5. beliefs' = beliefs \/ \E row : beliefs' = beliefs \cup {row} /\ row.tx = NewTx /\ row.id = ref
    BY DEF Commits
  <1>6. RowsOf(txs', beliefs')
    BY <1>2, <1>3, <1>4, <1>5 DEF RowsOf
  <1>7. Grown(txs, txs', beliefs, beliefs', NewTx)
    BY <1>1, <1>2, <1>5, <1>6 DEF Grown, Stems
  <1>8. QED
    BY <1>3, <1>5, <1>7

LEMMA CommitKeepsLog ==
  ASSUME TypeOK, TypeOK', RowsInv, RowsInv', LogInv, Next, AnyCommitted
  PROVE  LogInv'
  <1>1. PICK b \in Branches, action \in TxAction, ref \in Refs, now \in Times :
            Commits(b, action, ref, now)
    BY CommitForm
  <1>2. /\ DOMAIN txs = 1..(NewTx - 1) /\ DOMAIN txs' = 1..NewTx
        /\ \A t \in DOMAIN txs : txs'[t] = txs[t]
        /\ txs'[NewTx].branch = b /\ txs'[NewTx].action = action /\ NewTx \in Nat
    BY <1>1, CommitLog DEF Longer
  <1>3. \A t \in DOMAIN txs' : t = NewTx \/ t \in DOMAIN txs
    BY <1>2
  <1>4. ASSUME NEW t \in DOMAIN txs'
        PROVE  HasRow(TxBranch(t))'
    <2>1. CASE t = NewTx
      <3>1. HasRow(b)
        BY <1>1 DEF Commits, AllocTx, BranchExists, HasRow
      <3>2. HasRow(b)'
        BY <3>1, CommitsGrowTable, GrowthKeepsRows
      <3>3. QED
        BY <1>2, <2>1, <3>2 DEF HasRow, TxBranch
    <2>2. CASE t \in DOMAIN txs
      <3>1. PICK c : c = txs[t].branch
        OBVIOUS
      <3>2. HasRow(c)
        BY <2>2, <3>1 DEF LogInv, HasRow, TxBranch
      <3>3. HasRow(c)'
        BY <3>2, CommitsGrowTable, GrowthKeepsRows
      <3>4. QED
        BY <1>2, <2>2, <3>1, <3>3 DEF HasRow, TxBranch
    <2>3. QED
      BY <1>3, <2>1, <2>2
  <1>5. ASSUME NEW t \in DOMAIN txs', txs'[t].action = "AssertFact"
        PROVE  \E g \in facts' : g.tx = t
    <2>1. CASE t = NewTx
      <3>1. action = "AssertFact"
        BY <1>2, <1>5, <2>1
      <3>2. \E pred, val, from, to : facts' = RowsAfterAssert(b, ref, pred, val, from, to, now)
        BY <1>1, <3>1 DEF Commits, WritesFacts
      <3>3. PICK pred, val, from, to : facts' = RowsAfterAssert(b, ref, pred, val, from, to, now)
        BY <3>2
      <3> DEFINE new == [id |-> ref, pred |-> pred, val |-> val, tx |-> NewTx,
                         sup |-> None, rev |-> None, from |-> ValidFrom(from, now), to |-> to]
      <3>4. new \in facts'
        BY <3>3 DEF RowsAfterAssert
      <3>5. new.tx = NewTx
        OBVIOUS
      <3>6. QED
        BY <2>1, <3>4, <3>5
    <2>2. CASE t \in DOMAIN txs
      <3>1. \E f \in facts : f.tx = t
        BY <1>2, <1>5, <2>2 DEF LogInv
      <3>2. QED
        BY <1>1, <3>1, FactRowsAfter DEF Stems
    <2>3. QED
      BY <1>3, <2>1, <2>2
  <1>6. RowsOf(txs', beliefs')
    BY <1>1, BeliefsWritten DEF Grown
  <1>7. QED
    BY <1>4, <1>5, <1>6 DEF LogInv, RowsOf

LEMMA ArchiveKeepsRows ==
  ASSUME TypeOK, NEW b, ArchiveBranch(b), NEW c, HasRow(c)
  PROVE  HasRow(c)'
  <1>1. PICK k : branches' = [branches EXCEPT ![k].archived = TRUE]
    BY DEF ArchiveBranch
  <1>2. PICK i \in DOMAIN branches : branches[i].id = c
    BY DEF HasRow
  <1>3. branches[i] \in Branch
    BY <1>2 DEF TypeOK
  <1>4. branches'[i].id = c /\ i \in DOMAIN branches'
    BY <1>1, <1>2, <1>3 DEF Branch
  <1>5. QED
    BY <1>4 DEF HasRow

LEMMA NextKeepsLog ==
  ASSUME TypeOK, TypeOK', RowsInv, RowsInv', LogInv, [Next]_vars
  PROVE  LogInv'
  <1>1. ASSUME txs' = txs, facts' = facts, beliefs' = beliefs, \A c : HasRow(c) => HasRow(c)'
        PROVE  LogInv'
    <2>1. \A t \in DOMAIN txs : HasRow(txs[t].branch)
      BY DEF LogInv, TxBranch
    <2>2. \A t \in DOMAIN txs' : HasRow(TxBranch(t))'
      <3> SUFFICES ASSUME NEW t \in DOMAIN txs'
                   PROVE  HasRow(TxBranch(t))'
        OBVIOUS
      <3>1. PICK c : c = txs[t].branch
        OBVIOUS
      <3>2. HasRow(c)
        BY <1>1, <2>1, <3>1 DEF HasRow
      <3>3. HasRow(c)'
        BY <1>1, <3>2
      <3>4. QED
        BY <1>1, <3>1, <3>3 DEF HasRow, TxBranch
    <2>3. QED
      BY <1>1, <2>2 DEF LogInv
  <1>2. branches' = branches => \A c : HasRow(c) => HasRow(c)'
    BY DEF HasRow
  <1>3. CASE Next /\ AnyCommitted
    BY <1>3, CommitKeepsLog
  <1>4. CASE \E b : ArchiveBranch(b)
    <2>1. txs' = txs /\ facts' = facts /\ beliefs' = beliefs
      BY <1>4 DEF ArchiveBranch
    <2>2. QED
      BY <1>1, <1>4, <2>1, ArchiveKeepsRows
  <1>5. CASE Reset
    BY <1>5 DEF Reset, LogInv
  <1>6. CASE UNCHANGED <<txs, facts, beliefs, branches>>
    BY <1>1, <1>2, <1>6
  <1>7. Next => \/ AnyCommitted \/ Reset
                \/ \E b : ArchiveBranch(b)
                \/ UNCHANGED <<txs, facts, beliefs, branches>>
    BY AllSteps
  <1>8. QED
    BY <1>3, <1>4, <1>5, <1>6, <1>7 DEF vars

(***************************************************************************)
(* Belief rows are never rewritten: a view which does not reach the new    *)
(* transaction has the same heads, and holds the same of them.             *)
(***************************************************************************)

LEMMA SameHeads ==
  ASSUME NEW log, NEW log2, NEW rows, NEW rows2, NEW n, Grown(log, log2, rows, rows2, n),
         rows \subseteq rows2, \A r \in rows2 \ rows : r.tx = n,
         NEW chain, NEW asOf, NEW asOf2, SameWindow(n, asOf, asOf2),
         rows2 = rows \/ ~(n <= asOf2 /\ Seen(log2, n, chain))
  PROVE  Heads(log2, rows2, chain, asOf2) = Heads(log, rows, chain, asOf)
  <1>1. ASSUME NEW r \in Heads(log2, rows2, chain, asOf2)
        PROVE  r \in Heads(log, rows, chain, asOf)
    <2>1. r \in rows2 /\ r.tx <= asOf2 /\ Seen(log2, r.tx, chain)
      BY DEF Heads, Visible
    <2>2. r \in rows
      BY <2>1
    <2>3. Stems(r, r)
      BY DEF Stems
    <2>4. QED
      BY <2>2, <2>3, HeadsDown
  <1>2. ASSUME NEW r \in Heads(log, rows, chain, asOf)
        PROVE  r \in Heads(log2, rows2, chain, asOf2)
    <2>1. r \in rows2 /\ Stems(r, r)
      BY DEF Heads, Visible, Stems
    <2>2. \A s2 \in rows2 : s2.tx = n /\ s2.id = r.id => ~(n <= asOf2 /\ Seen(log2, n, chain))
      <3>1. \A s \in rows : s.tx # n
        BY DEF Grown, RowsOf, Longer
      <3>2. QED
        BY <3>1
    <2>3. QED
      BY <2>1, <2>2, HeadsUp
  <1>3. QED
    BY <1>1, <1>2

LEMMA SameHeld ==
  ASSUME NEW log, NEW log2, NEW n, Longer(log, log2, n), NEW heads,
         \A r \in heads : r.tx \in DOMAIN log, NEW chain
  PROVE  Held(log2, heads, chain) = Held(log, heads, chain)
  <1>1. \A r, s \in heads : Hides(log2, r, s, chain) <=> Hides(log, r, s, chain)
    BY HidesInLonger
  <1>2. QED
    BY <1>1 DEF Held

LEMMA UnseenBeliefs ==
  ASSUME NEW log, NEW log2, NEW rows, NEW rows2, NEW n, Grown(log, log2, rows, rows2, n),
         rows \subseteq rows2, \A r \in rows2 \ rows : r.tx = n,
         NEW chain, NEW asOf, NEW asOf2, SameWindow(n, asOf, asOf2),
         ~(n <= asOf2 /\ Seen(log2, n, chain))
  PROVE  Held(log2, Heads(log2, rows2, chain, asOf2), chain)
           = Held(log, Heads(log, rows, chain, asOf), chain)
  <1>1. Heads(log2, rows2, chain, asOf2) = Heads(log, rows, chain, asOf)
    BY SameHeads
  <1>2. \A r \in Heads(log, rows, chain, asOf) : r.tx \in DOMAIN log
    BY DEF Heads, Visible, Grown, RowsOf
  <1>3. QED
    BY <1>1, <1>2, SameHeld DEF Grown

\* The branch of a chain is its closest link: no row of the chain hides the newest one there.
LEMMA NothingHidesTheLast ==
  ASSUME NEW log, NEW n \in Nat, DOMAIN log = 1..n, NEW chain, NEW b, IsChain(chain, b),
         log[n].branch = b, NEW r, NEW s, r.tx \in DOMAIN log, s.tx = n
  PROVE  ~Hides(log, r, s, chain)
  <1>1. ~Nearer(log, r, s, chain)
    BY DEF Nearer, IsChain
  <1>2. ~(r.tx > n)
    OBVIOUS
  <1>3. QED
    BY <1>1, <1>2 DEF Hides

(***************************************************************************)
(* What a commit shows to a branch that sees it, and to the others.        *)
(***************************************************************************)

ViewInv == TypeOK /\ RowsInv /\ BranchTableWellFormed /\ LogInv

LEMMA CommitWindow ==
  ASSUME TypeOK, NEW b \in Branches, NEW action \in TxAction, NEW ref \in Refs, NEW now \in Times,
         Commits(b, action, ref, now)
  PROVE  /\ SameWindow(NewTx, Len(txs), NewTx)
         /\ \A t \in 1..Len(txs) : SameWindow(NewTx, t, t) /\ ~(NewTx <= t)
  BY CommitLog DEF SameWindow

LEMMA IsolationOfACommit ==
  ASSUME ViewInv, ViewInv', Next, AnyCommitted,
         NEW c, BranchExists(c), ~InView(LastTx, BranchAncestors(c))'
  PROVE  /\ FactsOnBranch(c)' = FactsOnBranch(c)
         /\ BeliefsOnBranch(c)' = BeliefsOnBranch(c)
  <1> USE DEF ViewInv
  <1>1. PICK b \in Branches, action \in TxAction, ref \in Refs, now \in Times :
            Commits(b, action, ref, now)
    BY CommitForm
  <1>2. BranchAncestors(c)' = BranchAncestors(c)
    BY CommitsGrowTable, ChainsKept DEF BranchExists, HasRow
  <1>3. LastTx' = NewTx /\ Len(txs') = NewTx /\ Len(txs) = NewTx - 1
    BY <1>1, CommitLog
  <1>4. ~Seen(txs', NewTx, BranchAncestors(c))
    BY <1>2, <1>3 DEF InView, Seen, TxBranch
  <1>5. FactsOnBranch(c)' = FactsOnBranch(c)
    <2>1. Wrote(txs, txs', facts, facts', NewTx, b, ref)
      BY <1>1, FactsWritten
    <2>2. Live(txs', facts', BranchAncestors(c), NewTx) = Live(txs, facts, BranchAncestors(c), NewTx - 1)
      BY <1>4, <2>1, UnseenWrite
    <2>3. QED
      BY <1>2, <1>3, <2>2, FactViews
  <1>6. BeliefsOnBranch(c)' = BeliefsOnBranch(c)
    <2>1. /\ Grown(txs, txs', beliefs, beliefs', NewTx) /\ beliefs \subseteq beliefs'
          /\ \A r \in beliefs' \ beliefs : r.tx = NewTx
      BY <1>1, BeliefsWritten
    <2>2. SameWindow(NewTx, Len(txs), NewTx)
      BY <1>1, CommitWindow
    <2>3. Held(txs', Heads(txs', beliefs', BranchAncestors(c), NewTx), BranchAncestors(c))
            = Held(txs, Heads(txs, beliefs, BranchAncestors(c), Len(txs)), BranchAncestors(c))
      BY <1>4, <2>1, <2>2, UnseenBeliefs
    <2>4. QED
      BY <1>2, <1>3, <2>3, BeliefViews
  <1>7. QED
    BY <1>5, <1>6

LEMMA PastOfACommit ==
  ASSUME ViewInv, ViewInv', Next, AnyCommitted, NEW t \in 1..LastTx
  PROVE  /\ FactsKnownAt(t)' = FactsKnownAt(t)
         /\ BeliefsAsOf(t)' = BeliefsAsOf(t)
  <1> USE DEF ViewInv
  <1>1. PICK b \in Branches, action \in TxAction, ref \in Refs, now \in Times :
            Commits(b, action, ref, now)
    BY CommitForm
  <1>2. /\ DOMAIN txs = 1..(NewTx - 1) /\ \A u \in DOMAIN txs : txs'[u] = txs[u]
        /\ Len(txs) = NewTx - 1
    BY <1>1, CommitLog DEF Longer
  <1>3. t \in 1..(NewTx - 1) /\ t \in 1..Len(txs)
    BY <1>2 DEF LastTx
  <1>4. PICK c : c = txs[t].branch
    OBVIOUS
  <1>5. txs'[t].branch = c
    BY <1>2, <1>3, <1>4
  <1>6. HasRow(c)
    BY <1>2, <1>3, <1>4 DEF LogInv, HasRow, TxBranch
  <1>7. BranchAncestors(c)' = BranchAncestors(c)
    BY <1>6, CommitsGrowTable, ChainsKept
  <1>8. /\ BranchAncestors(TxBranch(t)) = BranchAncestors(c)
        /\ BranchAncestors(TxBranch(t))' = BranchAncestors(c)
    BY <1>4, <1>5, <1>7, ChainOfTx
  <1>9. FactsKnownAt(t)' = FactsKnownAt(t)
    <2>1. Wrote(txs, txs', facts, facts', NewTx, b, ref)
      BY <1>1, FactsWritten
    <2>2. /\ \A g \in Live(txs', facts', BranchAncestors(c), t) :
                \E f \in Live(txs, facts, BranchAncestors(c), t) : Known(g) = Known(f)
          /\ \A f \in Live(txs, facts, BranchAncestors(c), t) :
                \E g \in Live(txs', facts', BranchAncestors(c), t) : Known(g) = Known(f)
      BY <1>3, <2>1, EarlierView
    <2>3. FactsAsOf(t) = Live(txs, facts, BranchAncestors(c), t)
          /\ FactsAsOf(t)' = Live(txs', facts', BranchAncestors(c), t)
      BY <1>8, PastFactViews
    <2>4. FactsKnownAt(t) = {Known(f) : f \in FactsAsOf(t)}
          /\ FactsKnownAt(t)' = {Known(f) : f \in FactsAsOf(t)'}
      BY DEF FactsKnownAt, Known
    <2>5. QED
      BY <2>2, <2>3, <2>4
  <1>10. BeliefsAsOf(t)' = BeliefsAsOf(t)
    <2>1. /\ Grown(txs, txs', beliefs, beliefs', NewTx) /\ beliefs \subseteq beliefs'
          /\ \A r \in beliefs' \ beliefs : r.tx = NewTx
      BY <1>1, BeliefsWritten
    <2>2. SameWindow(NewTx, t, t) /\ ~(NewTx <= t)
      BY <1>1, <1>3, CommitWindow
    <2>3. Held(txs', Heads(txs', beliefs', BranchAncestors(c), t), BranchAncestors(c))
            = Held(txs, Heads(txs, beliefs, BranchAncestors(c), t), BranchAncestors(c))
      BY <2>1, <2>2, UnseenBeliefs
    <2>4. QED
      BY <1>8, <2>3, PastBeliefViews
  <1>11. QED
    BY <1>9, <1>10

LEMMA NextKeepsViewInv == ViewInv /\ [Next]_vars => ViewInv'
  <1> SUFFICES ASSUME ViewInv, [Next]_vars PROVE ViewInv'
    OBVIOUS
  <1>1. TypeOK /\ RowsInv /\ BranchTableWellFormed /\ LogInv
    BY DEF ViewInv
  <1>2. TypeOK' /\ RowsInv' /\ BranchTableWellFormed'
    BY <1>1, NextTyped, NextKeepsRows, NextKeepsTable
  <1>3. LogInv'
    BY <1>1, <1>2, NextKeepsLog
  <1>4. QED
    BY <1>2, <1>3 DEF ViewInv

LEMMA ViewInvariant == Spec => []ViewInv
  <1>1. Init => LogInv
    BY DEF Init, LogInv
  <1>2. Init => RowsInv
    BY DEF Init, RowsInv, StampsTraceToTheLog, OpenRowIsNewest
  <1>3. Init => BranchTableWellFormed
    BY DEF Init, MainRow, BranchTableWellFormed, BranchExists
  <1>4. Init => ViewInv
    BY <1>1, <1>2, <1>3, InitTyped DEF ViewInv
  <1>5. QED
    BY <1>4, NextKeepsViewInv, PTL DEF Spec

\* A transaction of any operation, on any tree of branches of any depth, changes no row, stamp
\* or interval that a branch which does not see its branch shows (branch_ancestors, newest_rows
\* and the closing loops of assert_fact and retract_fact).
THEOREM BranchIsolation == Spec => BranchesIsolated
  <1>1. ASSUME ViewInv, ViewInv', [Next]_vars
        PROVE  [AnyCommitted =>
                  \A c \in Branches :
                     /\ BranchExists(c)
                     /\ ~InView(LastTx, BranchAncestors(c))'
                     => /\ FactsOnBranch(c)' = FactsOnBranch(c)
                        /\ BeliefsOnBranch(c)' = BeliefsOnBranch(c)]_vars
    BY <1>1, IsolationOfACommit
  <1>2. QED
    BY <1>1, ViewInvariant, NextKeepsViewInv, PTL DEF Spec, BranchesIsolated

\* Whatever is asserted, retracted, revised, merged or branched off later, facts_as_of and
\* beliefs_as_of answer for a past transaction what they answered when it was the last.
THEOREM StablePast == Spec => PastIsStable
  <1>1. ASSUME ViewInv, ViewInv', [Next]_vars
        PROVE  [AnyCommitted =>
                  \A t \in 1..LastTx :
                     FactsKnownAt(t)' = FactsKnownAt(t) /\ BeliefsAsOf(t)' = BeliefsAsOf(t)]_vars
    BY <1>1, PastOfACommit
  <1>2. QED
    BY <1>1, ViewInvariant, NextKeepsViewInv, PTL DEF Spec, PastIsStable

(***************************************************************************)
(* Retractions.                                                            *)
(***************************************************************************)

\* A live fact is open: its row is revoked nowhere in its branch, and not superseded, because
\* the row which superseded it would hide it.
LEMMA LiveRowOpen ==
  ASSUME ViewInv, NEW b, NEW f \in FactsOnBranch(b)
  PROVE  f \in facts /\ f \in Fact /\ f.rev = None /\ f.sup = None
  <1> USE DEF ViewInv
  <1> DEFINE chain == BranchAncestors(b)
  <1>1. f \in facts /\ f \in Fact
    BY ViewsShowRows DEF FactsOnBranch, TypeOK
  <1>2. f \in Live(txs, facts, chain, Len(txs))
    BY FactViews
  <1>3. f \in Heads(txs, facts, chain, Len(txs)) /\ ~Revoked(txs, f, Len(txs), chain)
        /\ Seen(txs, f.tx, chain)
    BY <1>2 DEF Live, Heads, Visible
  <1>4. DOMAIN txs = 1..Len(txs) /\ Len(txs) \in Nat
    BY DEF TypeOK
  <1>5. StampsTraceToTheLog
    BY DEF RowsInv
  <1>6. f.rev = None
    <2> SUFFICES ASSUME f.rev # None PROVE FALSE
      OBVIOUS
    <2>1. f.rev \in DOMAIN txs /\ txs[f.rev].branch = txs[f.tx].branch
      BY <1>1, <1>5 DEF StampsTraceToTheLog, TxBranch
    <2>2. f.rev <= Len(txs) /\ Seen(txs, f.rev, chain)
      BY <1>3, <1>4, <2>1 DEF Seen
    <2>3. QED
      BY <1>3, <2>2 DEF Revoked
  <1>7. f.sup = None
    <2> SUFFICES ASSUME f.sup # None PROVE FALSE
      OBVIOUS
    <2>1. /\ f.sup \in DOMAIN txs /\ f.sup > f.tx /\ txs[f.sup].action = "AssertFact"
          /\ txs[f.sup].ref = f.id /\ txs[f.sup].branch = txs[f.tx].branch
      BY <1>1, <1>5 DEF StampsTraceToTheLog, TxBranch
    <2>2. PICK g \in facts : g.tx = f.sup
      BY <2>1 DEF LogInv
    <2>3. g.id = f.id /\ g # f /\ f.tx \in DOMAIN txs
      BY <1>1, <1>4, <1>5, <2>1, <2>2 DEF StampsTraceToTheLog
    <2>4. g \in Visible(txs, facts, chain, Len(txs))
      BY <1>3, <1>4, <2>1, <2>2 DEF Visible, Seen
    <2>5. Hides(txs, f, g, chain)
      BY <1>3, <2>3, <2>4 DEF Heads
    <2>6. ~Nearer(txs, f, g, chain)
      <3>1. IsChain(chain, b)
        BY ChainShape
      <3> HIDE DEF chain
      <3>2. \A link \in chain : link[1] \in Int
        BY <3>1 DEF IsChain
      <3>3. QED
        BY <2>1, <2>2, <3>2 DEF Nearer
    <2>7. ~(f.tx > g.tx)
      BY <1>4, <2>1, <2>2, <2>3
    <2>8. QED
      BY <2>5, <2>6, <2>7 DEF Hides
  <1>8. QED
    BY <1>1, <1>6, <1>7

\* What a live fact of the branch of a commit, or of a branch that sees it, becomes.
LEMMA OtherFactsStay ==
  ASSUME ViewInv, ViewInv', NEW b \in Branches, NEW action \in TxAction,
         NEW ref \in Refs, NEW now \in Times, Commits(b, action, ref, now),
         NEW c, BranchAncestors(c)' = BranchAncestors(c), NEW f, f.id # ref
  PROVE  f \in FactsOnBranch(c)' <=> f \in FactsOnBranch(c)
  <1> USE DEF ViewInv
  <1> DEFINE chain == BranchAncestors(c)
  <1>1. /\ NewTx = Len(txs') /\ Len(txs) = NewTx - 1 /\ NewTx \in Nat
    BY CommitLog
  <1>2. BranchAncestors(c)' = chain
    OBVIOUS
  <1>3. Wrote(txs, txs', facts, facts', NewTx, b, ref)
    BY FactsWritten
  <1>4. SameWindow(NewTx, Len(txs), NewTx)
    BY CommitWindow
  <1>5. FactsOnBranch(c) = Live(txs, facts, chain, Len(txs))
        /\ FactsOnBranch(c)' = Live(txs', facts', chain, NewTx)
    BY <1>1, <1>2, FactViews
  <1>6. ASSUME f \in FactsOnBranch(c)'
        PROVE  f \in FactsOnBranch(c)
    <2>1. f \in facts'
      BY <1>5, <1>6 DEF Live, Heads, Visible
    <2>2. PICK e \in facts : Stems(e, f)
      BY <1>3, <2>1 DEF Wrote, Grown
    <2>3. e = f
      BY <1>3, <2>1, <2>2 DEF Wrote, Stems
    <2>4. e \in Live(txs, facts, chain, Len(txs))
      BY <1>3, <1>4, <1>5, <1>6, <2>2, LiveDown
    <2>5. QED
      BY <1>5, <2>3, <2>4
  <1>7. ASSUME f \in FactsOnBranch(c)
        PROVE  f \in FactsOnBranch(c)'
    <2>1. f \in facts
      BY <1>5, <1>7 DEF Live, Heads, Visible
    <2>2. PICK g \in facts' : Stems(f, g)
      BY <1>3, <2>1 DEF Wrote, Grown
    <2>3. g = f
      BY <1>3, <2>1, <2>2 DEF Wrote
    <2>4. g \in Live(txs', facts', chain, NewTx)
      BY <1>3, <1>4, <1>5, <1>7, <2>2, LiveUp
    <2>5. QED
      BY <1>5, <2>3, <2>4
  <1>8. QED
    BY <1>6, <1>7

\* The fact a retraction is about is gone: the tombstone hides the row of the ancestor, or the
\* branch's own row, being live and so open, is the one that gets revoked.
LEMMA RetractedIsGone ==
  ASSUME ViewInv, ViewInv', Next, NEW b \in Branches, NEW id \in Refs, NEW now \in Times,
         Commits(b, "RetractFact", id, now), NEW g \in FactsOnBranch(b)'
  PROVE  g.id # id
  <1> USE DEF ViewInv
  <1> SUFFICES ASSUME g.id = id PROVE FALSE
    OBVIOUS
  <1> DEFINE chain == BranchAncestors(b)
  <1>0. "RetractFact" \in TxAction
    BY DEF TxAction
  <1>1. /\ NewTx = Len(txs') /\ Len(txs) = NewTx - 1 /\ NewTx \in Nat /\ NewTx > 0
        /\ DOMAIN txs' = 1..NewTx /\ DOMAIN txs = 1..(NewTx - 1)
        /\ txs'[NewTx].branch = b /\ Longer(txs, txs', NewTx)
        /\ AnyCommitted
    BY <1>0, CommitLog DEF AnyCommitted, Longer
  <1>2. BranchAncestors(b)' = chain
    <2>1. HasRow(b)
      BY DEF Commits, AllocTx, BranchExists, HasRow
    <2>2. QED
      BY <1>1, <2>1, CommitsGrowTable, ChainsKept
  <1>3. Wrote(txs, txs', facts, facts', NewTx, b, id)
    BY <1>0, FactsWritten
  <1>4. SameWindow(NewTx, Len(txs), NewTx)
    BY <1>0, CommitWindow
  <1>5. FactsOnBranch(b) = Live(txs, facts, chain, Len(txs))
        /\ g \in Live(txs', facts', chain, NewTx)
    BY <1>1, <1>2, FactViews
  <1>6. g \in facts' /\ g \in Heads(txs', facts', chain, NewTx)
        /\ ~Revoked(txs', g, NewTx, chain) /\ g.tx \in DOMAIN txs'
    <2>1. g \in facts' /\ g \in Heads(txs', facts', chain, NewTx)
          /\ ~Revoked(txs', g, NewTx, chain)
      BY <1>5 DEF Live, Heads, Visible
    <2>2. RowsOf(txs', facts')
      BY <1>3 DEF Wrote, Grown
    <2>3. QED
      BY <2>1, <2>2 DEF RowsOf
  <1>7. IsChain(chain, b)
    BY ChainShape
  <1>8. Seen(txs', NewTx, chain)
    BY <1>1, <1>7 DEF Seen, IsChain
  <1>9. g.rev # NewTx
    <2>1. NewTx # None /\ NewTx <= NewTx
      BY <1>1 DEF None
    <2>2. QED
      BY <1>6, <1>8, <2>1 DEF Revoked
  <1>10. PICK head \in FactsOnBranch(b) :
             /\ head.id = id
             /\ \/ facts' = RowsAfterRetract(b, head, now)
                \/ facts' = RowsAfterRetractExact(b, head, now)
    BY <1>0 DEF Commits, WritesFacts
  <1>11. head \in facts /\ head \in Fact /\ head.rev = None /\ head.sup = None
    BY LiveRowOpen
  <1>12. CASE TxBranch(head.tx) # b
    <2> DEFINE new == Tombstone(head, now)
    <2>1. new \in facts'
      BY <1>10, <1>12 DEF RowsAfterRetract, RowsAfterRetractExact
    <2>2. new.tx = NewTx /\ new.id = id /\ new.rev = NewTx
      BY <1>10, <1>11, TombstoneRow
    <2> HIDE DEF new
    <2>3. g # new /\ new \in Visible(txs', facts', chain, NewTx)
      BY <1>1, <1>8, <1>9, <2>1, <2>2 DEF Visible
    <2>4. Hides(txs', g, new, chain)
      BY <1>6, <2>2, <2>3 DEF Heads
    <2>5. QED
      BY <1>1, <1>6, <1>7, <2>2, <2>4, NothingHidesTheLast
  <1>13. CASE TxBranch(head.tx) = b
    <2>1. PICK h \in facts' : Stems(head, h) /\ h.rev = NewTx
      <3>1. CASE facts' = RowsAfterRetract(b, head, now)
        <4> DEFINE h == [head EXCEPT !.rev = NewTx, !.to = now]
        <4>1. h \in facts'
          BY <1>10, <1>11, <1>13, <3>1 DEF RowsAfterRetract
        <4>2. h.id = head.id /\ h.tx = head.tx /\ h.rev = NewTx
          BY <1>11 DEF Fact
        <4>3. QED
          BY <4>1, <4>2 DEF Stems
      <3>2. CASE facts' = RowsAfterRetractExact(b, head, now)
        <4> DEFINE h == [head EXCEPT !.rev = NewTx, !.to = IF @ = None THEN now ELSE @]
        <4>1. h \in facts'
          BY <1>10, <1>11, <1>13, <3>2 DEF RowsAfterRetractExact
        <4>2. h.id = head.id /\ h.tx = head.tx /\ h.rev = NewTx
          BY <1>11 DEF Fact
        <4>3. QED
          BY <4>1, <4>2 DEF Stems
      <3>3. QED
        BY <1>10, <3>1, <3>2
    <2>2. g.tx # NewTx
      <3>1. \A k \in facts' : \E f \in facts : k.tx = f.tx
        <4>1. CASE facts' = RowsAfterRetract(b, head, now)
          <5> DEFINE step(f) == IF f.id = head.id /\ f.rev = None /\ f.sup = None /\ TxBranch(f.tx) = b
                                  THEN [f EXCEPT !.rev = NewTx, !.to = now] ELSE f
          <5>1. facts' = {step(f) : f \in facts}
            BY <1>13, <4>1 DEF RowsAfterRetract
          <5>2. \A f \in facts : step(f).tx = f.tx
            BY DEF TypeOK, Fact
          <5> HIDE DEF step
          <5>3. QED
            BY <5>1, <5>2
        <4>2. CASE facts' = RowsAfterRetractExact(b, head, now)
          <5> DEFINE step(f) == IF /\ f.id = head.id /\ f.pred = head.pred /\ f.val = head.val
                                   /\ f.rev = None
                                   /\ TxBranch(f.tx) = b
                                  THEN [f EXCEPT !.rev = NewTx, !.to = IF @ = None THEN now ELSE @]
                                  ELSE f
          <5>1. facts' = {step(f) : f \in facts}
            BY <1>13, <4>2 DEF RowsAfterRetractExact
          <5>2. \A f \in facts : step(f).tx = f.tx
            BY DEF TypeOK, Fact
          <5> HIDE DEF step
          <5>3. QED
            BY <5>1, <5>2
        <4>3. QED
          BY <1>10, <4>1, <4>2
      <3>2. \A f \in facts : f.tx # NewTx
        BY <1>1 DEF RowsInv, StampsTraceToTheLog
      <3>3. QED
        BY <1>6, <3>1, <3>2
    <2>3. PICK f \in facts : Stems(f, g)
      BY <1>3, <1>6, <2>2 DEF Wrote, Grown
    <2>4. f \in Live(txs, facts, chain, Len(txs))
      BY <1>3, <1>4, <1>5, <2>3, LiveDown
    <2>5. f = head
      <3>1. RowsOf(txs, facts) /\ DOMAIN txs \subseteq Nat
        BY <1>1, <1>3 DEF Wrote, Grown
      <3>2. f \in Heads(txs, facts, chain, Len(txs)) /\ head \in Heads(txs, facts, chain, Len(txs))
        BY <1>5, <2>4 DEF Live
      <3>3. f.id = head.id
        BY <1>10, <2>3 DEF Stems
      <3>4. QED
        BY <1>7, <3>1, <3>2, <3>3, OneHead
    <2>6. g = h
      BY <1>3, <1>6, <2>1, <2>3, <2>5 DEF Wrote, Grown, RowsOf, Stems
    <2>7. QED
      BY <1>9, <2>1, <2>6
  <1>14. QED
    BY <1>12, <1>13

LEMMA EffectOfARetraction ==
  ASSUME ViewInv, ViewInv', Next, NEW b \in Branches, NEW id \in FactIds,
         Committed("RetractFact", b, id)
  PROVE  FactsOnBranch(b)' = {f \in FactsOnBranch(b) : f.id # id}
  <1>1. TypeOK
    BY DEF ViewInv
  <1>2. PICK c \in Branches, action \in TxAction, ref \in Refs, now \in Times :
            Commits(c, action, ref, now)
    BY <1>1, CommitForm DEF Committed
  <1>3. c = b /\ action = "RetractFact" /\ ref = id
    BY <1>1, <1>2, CommitLog DEF Committed
  <1>4. \A g \in FactsOnBranch(b)' : g.id # id
    BY <1>2, <1>3, RetractedIsGone
  <1>5. BranchAncestors(b)' = BranchAncestors(b)
    <2>1. HasRow(b) /\ TypeOK' /\ BranchTableWellFormed
      BY <1>2, <1>3 DEF Commits, AllocTx, BranchExists, HasRow, ViewInv
    <2>2. QED
      BY <1>1, <2>1, CommitsGrowTable, ChainsKept DEF Committed
  <1>6. ASSUME NEW f, f.id # id
        PROVE  f \in FactsOnBranch(b)' <=> f \in FactsOnBranch(b)
    BY <1>2, <1>3, <1>5, <1>6, OtherFactsStay
  <1>7. QED
    BY <1>4, <1>6

\* retract_fact and retract_fact_exact, alone or within a merge, own row or inherited: the fact
\* is gone from the branch, and no other fact of the branch is touched.
THEOREM RetractionsTakeEffect == Spec => RetractionTakesEffect
  <1>1. ASSUME ViewInv, ViewInv', [Next]_vars
        PROVE  [\A b \in Branches, id \in FactIds :
                   Committed("RetractFact", b, id)
                     => FactsOnBranch(b)' = {f \in FactsOnBranch(b) : f.id # id}]_vars
    <2>1. Next => \A b \in Branches, id \in FactIds :
                   Committed("RetractFact", b, id)
                     => FactsOnBranch(b)' = {f \in FactsOnBranch(b) : f.id # id}
      BY <1>1, EffectOfARetraction
    <2>2. QED
      BY <1>1, <2>1
  <1>2. QED
    BY <1>1, ViewInvariant, NextKeepsViewInv, PTL DEF Spec, RetractionTakesEffect

(***************************************************************************)
(* Merges.  log is the log, m the locals of merge_branch, up and down the  *)
(* chains of the source and the target, here and there the facts of the    *)
(* source and the target, each before and after a step of the loop.        *)
(***************************************************************************)

Picked(log, m, up, f) == f \in m.todo /\ \A g \in m.todo \ {f} : Hides(log, f, g, up)

Clash(m, f) == \E g \in m.targetFacts : g.id = f.id /\ g.val # f.val

\* What is left to merge: one source row for each fact, none of which the target inherits.
TodoOK(log, m, up, down) ==
    /\ \A f \in m.todo : Seen(log, f.tx, up) /\ ~Seen(log, f.tx, down)
    /\ \A f, g \in m.todo : f.id = g.id => f = g
    /\ m.retracted => m.policy = "LastWriterWins"

\* A fact the target had is there as it was, or it was overwritten or is being so.
TargetOK(log, m, up, there) ==
    \A g \in m.targetFacts :
        \/ g \in there
        \/ /\ m.policy = "LastWriterWins"
           /\ \A f \in m.todo : f.id = g.id => m.retracted /\ Picked(log, m, up, f) /\ Clash(m, f)

Landed(m, f, there) ==
    \E g \in there : g.id = f.id /\ (m.policy = "LastWriterWins" => g.val = f.val)

\* A fact of the source is inherited, still to be merged, or has landed for good.
SourceOK(log, m, down, here, there) ==
    \A f \in here :
        \/ Seen(log, f.tx, down)
        \/ f \in m.todo
        \/ Landed(m, f, there) /\ \A e \in m.todo : e.id # f.id

MergeOK(log, m, up, down, here, there) ==
    /\ TodoOK(log, m, up, down)
    /\ TargetOK(log, m, up, there)
    /\ SourceOK(log, m, down, here, there)

MergeInv ==
    Merging =>
        /\ merge.source \in Branches /\ merge.target \in Branches
        /\ MergeOK(txs, merge, BranchAncestors(merge.source), BranchAncestors(merge.target),
                   FactsOnBranch(merge.source), FactsOnBranch(merge.target))

\* The loop has one next fact.
LEMMA OnePicked ==
  ASSUME NEW log, DOMAIN log \subseteq Nat, NEW m, NEW up, NEW down, NEW b, IsChain(up, b),
         TodoOK(log, m, up, down), NEW e, NEW f, Picked(log, m, up, e), Picked(log, m, up, f)
  PROVE  e = f
  <1> SUFFICES ASSUME e # f PROVE FALSE
    OBVIOUS
  <1>1. Hides(log, e, f, up) /\ Hides(log, f, e, up)
    BY DEF Picked
  <1>2. Seen(log, e.tx, up) /\ Seen(log, f.tx, up)
    BY DEF Picked, TodoOK
  <1>3. e.tx \in Nat /\ f.tx \in Nat
    BY <1>2 DEF Seen
  <1>4. QED
    BY <1>1, <1>2, <1>3, HidesOneWay

\* A transaction of the loop, on the next fact f: it may change the rows of f only, and what it
\* adds is seen on the target.
LoopWrites(log, log2, n, m, up, down, here, here2, there, there2, f) ==
    /\ Longer(log, log2, n)
    /\ MergeOK(log, m, up, down, here, there)
    /\ Picked(log, m, up, f)
    /\ \A x : x.id # f.id => (x \in here2 <=> x \in here) /\ (x \in there2 <=> x \in there)
    /\ \A h \in here2 : h.id = f.id => Seen(log2, h.tx, down) \/ h \in here

LEMMA TodoKept ==
  ASSUME NEW log, NEW log2, NEW n, NEW m, NEW m2, NEW up, NEW down, NEW f,
         Longer(log, log2, n), TodoOK(log, m, up, down), m2.todo \subseteq m.todo,
         m2.retracted => m2.policy = "LastWriterWins"
  PROVE  TodoOK(log2, m2, up, down)
  <1>1. \A e \in m.todo : e.tx \in DOMAIN log
    BY DEF TodoOK, Seen
  <1>2. QED
    BY <1>1, SeenInLonger DEF TodoOK

LEMMA AssertInLoop ==
  ASSUME NEW log, NEW log2, NEW n, NEW m, NEW m2, NEW up, NEW down,
         NEW here, NEW here2, NEW there, NEW there2, NEW b, IsChain(up, b), NEW f,
         LoopWrites(log, log2, n, m, up, down, here, here2, there, there2, f),
         (\A g \in m.targetFacts : g.id # f.id) \/ m.retracted,
         \E g \in there2 : g.id = f.id /\ g.val = f.val,
         m2.todo = m.todo \ {f}, m2.policy = m.policy, m2.targetFacts = m.targetFacts,
         ~m2.retracted
  PROVE  MergeOK(log2, m2, up, down, here2, there2)
  <1>1. /\ Longer(log, log2, n)
        /\ TodoOK(log, m, up, down) /\ TargetOK(log, m, up, there)
        /\ SourceOK(log, m, down, here, there)
        /\ Picked(log, m, up, f)
        /\ \A x : x.id # f.id => (x \in here2 <=> x \in here) /\ (x \in there2 <=> x \in there)
        /\ \A h \in here2 : h.id = f.id => Seen(log2, h.tx, down) \/ h \in here
    BY DEF LoopWrites, MergeOK
  <1>2. f \in m.todo /\ \A e \in m.todo : e.id = f.id => e = f
    BY <1>1 DEF Picked, TodoOK
  <1>3. TodoOK(log2, m2, up, down)
    BY <1>1, TodoKept
  <1>4. TargetOK(log2, m2, up, there2)
    <2> SUFFICES ASSUME NEW g \in m.targetFacts, g \notin there2
                 PROVE  /\ m.policy = "LastWriterWins"
                        /\ \A e \in m2.todo : e.id # g.id
      BY DEF TargetOK
    <2>1. CASE g.id = f.id
      BY <1>1, <1>2, <2>1 DEF TodoOK
    <2>2. CASE g.id # f.id
      <3>1. g \notin there
        BY <1>1, <2>2
      <3>2. /\ m.policy = "LastWriterWins"
            /\ \A e \in m.todo : e.id = g.id => Picked(log, m, up, e)
        BY <1>1, <3>1 DEF TargetOK
      <3>3. \A e \in m.todo : e.id = g.id => e = f
        BY <1>1, <3>2, OnePicked DEF Longer
      <3>4. QED
        BY <3>2, <3>3
    <2>3. QED
      BY <2>1, <2>2
  <1>5. SourceOK(log2, m2, down, here2, there2)
    <2> SUFFICES ASSUME NEW h \in here2, ~Seen(log2, h.tx, down), h \notin m2.todo
                 PROVE  Landed(m2, h, there2) /\ \A e \in m2.todo : e.id # h.id
      BY DEF SourceOK
    <2>1. h \in here
      BY <1>1
    <2>2. ~Seen(log, h.tx, down)
      BY <1>1, SeenInLonger DEF Seen
    <2>3. h \in m.todo \/ (Landed(m, h, there) /\ \A e \in m.todo : e.id # h.id)
      BY <1>1, <2>1, <2>2 DEF SourceOK
    <2>4. CASE h \in m.todo
      <3>1. h = f
        BY <2>4
      <3>2. Landed(m2, h, there2)
        BY <3>1 DEF Landed
      <3>3. QED
        BY <1>2, <3>1, <3>2
    <2>5. CASE Landed(m, h, there) /\ \A e \in m.todo : e.id # h.id
      <3>1. h.id # f.id
        BY <1>2, <2>5
      <3>2. Landed(m2, h, there2)
        BY <1>1, <2>5, <3>1 DEF Landed
      <3>3. QED
        BY <2>5, <3>2
    <2>6. QED
      BY <2>3, <2>4, <2>5
  <1>6. QED
    BY <1>3, <1>4, <1>5 DEF MergeOK

LEMMA RetractInLoop ==
  ASSUME NEW log, NEW log2, NEW n, NEW m, NEW m2, NEW up, NEW down,
         NEW here, NEW here2, NEW there, NEW there2, NEW b, IsChain(up, b), NEW f,
         LoopWrites(log, log2, n, m, up, down, here, here2, there, there2, f),
         Clash(m, f), m.policy = "LastWriterWins",
         m2.todo = m.todo, m2.policy = m.policy, m2.targetFacts = m.targetFacts,
         m2.retracted
  PROVE  MergeOK(log2, m2, up, down, here2, there2)
  <1>1. /\ Longer(log, log2, n)
        /\ TodoOK(log, m, up, down) /\ TargetOK(log, m, up, there)
        /\ SourceOK(log, m, down, here, there)
        /\ Picked(log, m, up, f)
        /\ \A x : x.id # f.id => (x \in here2 <=> x \in here) /\ (x \in there2 <=> x \in there)
        /\ \A h \in here2 : h.id = f.id => Seen(log2, h.tx, down) \/ h \in here
    BY DEF LoopWrites, MergeOK
  <1>2. f \in m.todo /\ \A e \in m.todo : e.id = f.id => e = f
    BY <1>1 DEF Picked, TodoOK
  <1>3. TodoOK(log2, m2, up, down)
    BY <1>1, TodoKept
  <1>4. Picked(log2, m2, up, f) /\ Clash(m2, f)
    <2>1. \A e \in m.todo : e.tx \in DOMAIN log
      BY <1>1 DEF TodoOK, Seen
    <2>2. \A g \in m.todo : Hides(log2, f, g, up) <=> Hides(log, f, g, up)
      BY <1>1, <1>2, <2>1, HidesInLonger
    <2>3. QED
      BY <1>1, <2>2 DEF Picked, Clash
  <1>5. TargetOK(log2, m2, up, there2)
    <2> SUFFICES ASSUME NEW g \in m.targetFacts, g \notin there2
                 PROVE  \A e \in m.todo : e.id = g.id => e = f
      BY <1>4 DEF TargetOK
    <2>1. CASE g.id = f.id
      BY <1>2, <2>1
    <2>2. CASE g.id # f.id
      <3>1. \A e \in m.todo : e.id = g.id => Picked(log, m, up, e)
        BY <1>1, <2>2 DEF TargetOK
      <3>2. QED
        BY <1>1, <3>1, OnePicked DEF Longer
    <2>3. QED
      BY <2>1, <2>2
  <1>6. SourceOK(log2, m2, down, here2, there2)
    <2> SUFFICES ASSUME NEW h \in here2, ~Seen(log2, h.tx, down), h \notin m.todo
                 PROVE  Landed(m2, h, there2) /\ \A e \in m.todo : e.id # h.id
      BY DEF SourceOK
    <2>1. h \in here
      BY <1>1
    <2>2. ~Seen(log, h.tx, down)
      BY <1>1, SeenInLonger DEF Seen
    <2>3. Landed(m, h, there) /\ \A e \in m.todo : e.id # h.id
      BY <1>1, <2>1, <2>2 DEF SourceOK
    <2>4. h.id # f.id
      BY <1>2, <2>3
    <2>5. Landed(m2, h, there2)
      BY <1>1, <2>3, <2>4 DEF Landed
    <2>6. QED
      BY <2>3, <2>5
  <1>7. QED
    BY <1>3, <1>5, <1>6 DEF MergeOK

LEMMA SkipInLoop ==
  ASSUME NEW log, DOMAIN log \subseteq Nat, NEW m, NEW m2, NEW up, NEW down,
         NEW here, NEW there, NEW b, IsChain(up, b), NEW f,
         MergeOK(log, m, up, down, here, there), Picked(log, m, up, f),
         \E g \in m.targetFacts : g.id = f.id,
         ~(Clash(m, f) /\ m.policy = "LastWriterWins"),
         m2.todo = m.todo \ {f}, m2.policy = m.policy, m2.targetFacts = m.targetFacts,
         m2.retracted = m.retracted
  PROVE  MergeOK(log, m2, up, down, here, there)
  <1>1. /\ TodoOK(log, m, up, down) /\ TargetOK(log, m, up, there)
        /\ SourceOK(log, m, down, here, there)
    BY DEF MergeOK
  <1>2. f \in m.todo /\ \A e \in m.todo : e.id = f.id => e = f
    BY <1>1 DEF Picked, TodoOK
  <1>3. TodoOK(log, m2, up, down)
    BY <1>1 DEF TodoOK
  <1>4. TargetOK(log, m2, up, there)
    <2> SUFFICES ASSUME NEW g \in m.targetFacts, g \notin there
                 PROVE  m.policy = "LastWriterWins" /\ \A e \in m2.todo : e.id # g.id
      BY DEF TargetOK
    <2>1. m.policy = "LastWriterWins" /\ \A e \in m.todo : e.id = g.id => Picked(log, m, up, e)
      BY <1>1 DEF TargetOK
    <2>2. \A e \in m.todo : e.id = g.id => e = f
      BY <1>1, <2>1, OnePicked
    <2>3. QED
      BY <2>1, <2>2
  <1>5. Landed(m2, f, there)
    <2>1. PICK g \in m.targetFacts : g.id = f.id
      OBVIOUS
    <2>2. g \in there
      BY <1>1, <1>2, <2>1 DEF TargetOK
    <2>3. m.policy = "LastWriterWins" => g.val = f.val
      BY <2>1 DEF Clash
    <2>4. QED
      BY <2>1, <2>2, <2>3 DEF Landed
  <1>6. SourceOK(log, m2, down, here, there)
    <2> SUFFICES ASSUME NEW h \in here, ~Seen(log, h.tx, down), h \notin m2.todo
                 PROVE  Landed(m2, h, there) /\ \A e \in m2.todo : e.id # h.id
      BY DEF SourceOK
    <2>1. h \in m.todo \/ (Landed(m, h, there) /\ \A e \in m.todo : e.id # h.id)
      BY <1>1 DEF SourceOK
    <2>2. CASE h \in m.todo
      BY <1>2, <1>5, <2>2
    <2>3. CASE Landed(m, h, there) /\ \A e \in m.todo : e.id # h.id
      BY <2>3 DEF Landed
    <2>4. QED
      BY <2>1, <2>2, <2>3
  <1>7. QED
    BY <1>3, <1>4, <1>6 DEF MergeOK

\* The newest row of the branch itself hides every other row of its chain.
LEMMA TheLastHidesAll ==
  ASSUME NEW log, NEW n \in Nat, DOMAIN log = 1..n, NEW chain, NEW b, IsChain(chain, b),
         log[n].branch = b, NEW r, NEW s, r.tx = n, s.tx \in DOMAIN log, s.tx # n
  PROVE  Hides(log, r, s, chain)
  <1>1. n > s.tx
    OBVIOUS
  <1>2. log[s.tx].branch # b => Nearer(log, r, s, chain)
    <2> SUFFICES ASSUME log[s.tx].branch # b
                 PROVE  Nearer(log, r, s, chain)
      OBVIOUS
    <2>1. <<0, b>> \in chain /\ <<0, b>>[2] = log[r.tx].branch
      BY DEF IsChain
    <2>2. \A other \in chain : other[2] = log[s.tx].branch => <<0, b>>[1] < other[1]
      BY DEF IsChain
    <2>3. QED
      BY <2>1, <2>2 DEF Nearer
  <1>3. QED
    BY <1>1, <1>2 DEF Hides

\* What is asserted is live where it was asserted.
LEMMA AssertedIsLive ==
  ASSUME ViewInv, ViewInv', NEW b \in Branches, NEW id \in FactIds, NEW now \in Times,
         NEW pred, NEW val, NEW from, NEW to,
         AllocTx(b, "AssertFact", id, now),
         facts' = RowsAfterAssert(b, id, pred, val, from, to, now), beliefs' = beliefs,
         BranchAncestors(b)' = BranchAncestors(b)
  PROVE  \E g \in FactsOnBranch(b)' : g.id = id /\ g.val = val
  <1> USE DEF ViewInv
  <1> DEFINE chain == BranchAncestors(b)
             new == [id |-> id, pred |-> pred, val |-> val, tx |-> NewTx,
                     sup |-> None, rev |-> None, from |-> ValidFrom(from, now), to |-> to]
  <1>1. "AssertFact" \in TxAction /\ id \in Refs
    BY RefsTyped DEF TxAction
  <1>2. Commits(b, "AssertFact", id, now)
    BY DEF Commits, WritesFacts
  <1>3. /\ NewTx = Len(txs') /\ NewTx \in Nat /\ DOMAIN txs' = 1..NewTx /\ NewTx > 0
        /\ txs'[NewTx].branch = b
    BY <1>1, <1>2, CommitLog DEF Longer
  <1>4. IsChain(chain, b)
    BY ChainShape
  <1>5. new \in facts'
    BY DEF RowsAfterAssert
  <1>6. new.tx = NewTx /\ new.id = id /\ new.val = val /\ new.rev = None
    OBVIOUS
  <1> HIDE DEF new
  <1>7. RowsOf(txs', facts')
    BY DEF RowsInv, StampsTraceToTheLog, RowsOf
  <1>8. new \in Visible(txs', facts', chain, NewTx)
    BY <1>3, <1>4, <1>5, <1>6 DEF Visible, Seen, IsChain
  <1>9. ASSUME NEW s \in Visible(txs', facts', chain, NewTx), s # new
        PROVE  Hides(txs', new, s, chain)
    <2>1. s \in facts' /\ s.tx \in DOMAIN txs' /\ s.tx # NewTx
      BY <1>5, <1>6, <1>7, <1>9 DEF Visible, RowsOf
    <2>2. QED
      BY <1>3, <1>4, <1>6, <2>1, TheLastHidesAll
  <1>10. new \in Live(txs', facts', chain, NewTx)
    BY <1>6, <1>8, <1>9 DEF Live, Heads, Revoked
  <1>11. new \in FactsOnBranch(b)'
    BY <1>3, <1>10, FactViews
  <1>12. QED
    BY <1>6, <1>11

\* The views of a merge before and after a step of its loop are those of two branches.
LEMMA MergeViews ==
  ASSUME NEW source, NEW target, merge.source = source, merge.target = target,
         branches' = branches
  PROVE  /\ BranchAncestors(source)' = BranchAncestors(source)
         /\ BranchAncestors(target)' = BranchAncestors(target)
         /\ BranchAncestors(merge.source) = BranchAncestors(source)
         /\ BranchAncestors(merge.target) = BranchAncestors(target)
         /\ FactsOnBranch(merge.source) = FactsOnBranch(source)
         /\ FactsOnBranch(merge.target) = FactsOnBranch(target)
  BY DEF BranchAncestors, AncestorWalk, HasRow, FirstRow

LEMMA MergeViewsNext ==
  ASSUME NEW source, NEW target, merge'.source = source, merge'.target = target
  PROVE  /\ BranchAncestors(merge.source)' = BranchAncestors(source)'
         /\ BranchAncestors(merge.target)' = BranchAncestors(target)'
         /\ FactsOnBranch(merge.source)' = FactsOnBranch(source)'
         /\ FactsOnBranch(merge.target)' = FactsOnBranch(target)'
  <1>1. /\ BranchAncestors(merge.source)' = BranchAncestors(source)'
        /\ BranchAncestors(merge.target)' = BranchAncestors(target)'
    BY DEF BranchAncestors, AncestorWalk, HasRow, FirstRow
  <1>2. QED
    BY <1>1 DEF FactsOnBranch, LiveFacts

LEMMA LoopStep ==
  ASSUME ViewInv, ViewInv', NEW source \in Branches, NEW target \in Branches,
         merge.source = source, merge.target = target, branches' = branches,
         MergeOK(txs, merge, BranchAncestors(source), BranchAncestors(target),
                 FactsOnBranch(source), FactsOnBranch(target)),
         NEW f \in Fact, MergeNext(f), NEW action \in TxAction, NEW now \in Times,
         Commits(target, action, f.id, now)
  PROVE  LoopWrites(txs, txs', NewTx, merge, BranchAncestors(source), BranchAncestors(target),
                    FactsOnBranch(source), FactsOnBranch(source)',
                    FactsOnBranch(target), FactsOnBranch(target)', f)
  <1> USE DEF ViewInv
  <1> DEFINE up == BranchAncestors(source)
             down == BranchAncestors(target)
  <1>1. f.id \in Refs
    BY RefsTyped DEF Fact
  <1>2. /\ Longer(txs, txs', NewTx) /\ NewTx = Len(txs') /\ txs'[NewTx].branch = target
        /\ NewTx \in Nat /\ NewTx > 0
    BY <1>1, CommitLog
  <1>3. BranchAncestors(source)' = up /\ BranchAncestors(target)' = down
    BY MergeViews
  <1>4. Picked(txs, merge, up, f)
    <2>1. BranchAncestors(merge.source) = up
      BY MergeViews
    <2>2. QED
      BY <2>1 DEF MergeNext, Before, Closer, TxBranch, Picked, Hides, Nearer
  <1>5. ASSUME NEW x, x.id # f.id
        PROVE  /\ x \in FactsOnBranch(source)' <=> x \in FactsOnBranch(source)
               /\ x \in FactsOnBranch(target)' <=> x \in FactsOnBranch(target)
    BY <1>1, <1>3, <1>5, OtherFactsStay
  <1>6. ASSUME NEW h \in FactsOnBranch(source)', h.id = f.id, ~Seen(txs', h.tx, down)
        PROVE  h \in FactsOnBranch(source)
    <2>1. Wrote(txs, txs', facts, facts', NewTx, target, f.id)
      BY <1>1, FactsWritten
    <2>2. h \in Live(txs', facts', up, NewTx)
      BY <1>2, <1>3, FactViews
    <2>3. h \in facts' /\ h.tx \in DOMAIN txs'
      BY <2>2 DEF Live, Heads, Visible, Seen
    <2>4. IsChain(down, target)
      BY ChainShape
    <2>5. txs'[h.tx].branch # target
      BY <1>6, <2>3, <2>4 DEF Seen, IsChain
    <2>6. PICK e \in facts : Stems(e, h)
      BY <1>2, <2>1, <2>3, <2>5 DEF Wrote, Grown
    <2>7. txs[e.tx].branch # target
      BY <1>2, <2>1, <2>5, <2>6 DEF Wrote, Grown, RowsOf, Stems, Longer
    <2>8. h = e
      BY <2>1, <2>3, <2>6, <2>7 DEF Wrote
    <2>9. e \in Live(txs, facts, up, Len(txs))
      BY <1>1, <2>1, <2>2, <2>6, CommitWindow, LiveDown
    <2>10. QED
      BY <2>8, <2>9, FactViews
  <1>7. QED
    BY <1>2, <1>4, <1>5, <1>6 DEF LoopWrites

LEMMA MergeInvNext ==
  ASSUME NEW source \in Branches, NEW target \in Branches,
         merge'.source = source, merge'.target = target,
         MergeOK(txs', merge', BranchAncestors(source)', BranchAncestors(target)',
                 FactsOnBranch(source)', FactsOnBranch(target)')
  PROVE  MergeInv'
  BY MergeViewsNext DEF MergeInv

LEMMA StartOfMerge ==
  ASSUME ViewInv, NEW source \in Branches, NEW target \in Branches, NEW policy \in MergePolicy,
         MergeStart(source, target, policy)
  PROVE  MergeInv'
  <1> USE DEF ViewInv
  <1> DEFINE up == BranchAncestors(source)
             down == BranchAncestors(target)
             here == FactsOnBranch(source)
             there == FactsOnBranch(target)
  <1>1. /\ merge'.source = source /\ merge'.target = target /\ merge'.policy = policy
        /\ merge'.todo = {f \in here : ~InView(f.tx, down)}
        /\ merge'.targetFacts = there /\ merge'.retracted = FALSE
    BY DEF MergeStart
  <1>2. txs' = txs /\ facts' = facts /\ branches' = branches
    BY DEF MergeStart
  <1>3. BranchAncestors(source)' = up /\ BranchAncestors(target)' = down
    BY <1>2 DEF BranchAncestors, AncestorWalk, HasRow, FirstRow
  <1>4. FactsOnBranch(source)' = here /\ FactsOnBranch(target)' = there
    BY <1>2, <1>3, FactViews
  <1>5. here = Live(txs, facts, up, Len(txs))
    BY FactViews
  <1>6. ASSUME NEW f \in here
        PROVE  /\ Seen(txs, f.tx, up)
               /\ InView(f.tx, down) <=> Seen(txs, f.tx, down)
               /\ f \in Heads(txs, facts, up, Len(txs))
    BY <1>5 DEF Live, Heads, Visible, InView, Seen, TxBranch
  <1>7. ASSUME NEW f \in here, NEW g \in here, f.id = g.id
        PROVE  f = g
    <2>1. RowsOf(txs, facts)
      BY DEF RowsInv, StampsTraceToTheLog, RowsOf
    <2>2. DOMAIN txs \subseteq Nat
      BY DEF TypeOK
    <2>3. QED
      BY <1>6, <1>7, <2>1, <2>2, ChainShape, OneHead
  <1> HIDE DEF up, down, here, there
  <1>8. TodoOK(txs, merge', up, down)
    BY <1>1, <1>6, <1>7 DEF TodoOK
  <1>9. TargetOK(txs, merge', up, there)
    BY <1>1 DEF TargetOK
  <1>10. SourceOK(txs, merge', down, here, there)
    BY <1>1, <1>6 DEF SourceOK
  <1>11. MergeOK(txs', merge', BranchAncestors(source)', BranchAncestors(target)',
                 FactsOnBranch(source)', FactsOnBranch(target)')
    BY <1>2, <1>3, <1>4, <1>8, <1>9, <1>10 DEF MergeOK
  <1>12. QED
    BY <1>1, <1>11, MergeInvNext

\* The loop of a merge keeps the invariant, whatever it does with the next fact.
LEMMA LoopKeepsMerge ==
  ASSUME ViewInv, ViewInv', MergeInv, NEW f \in merge.todo, NEW now,
         \/ now \in Clock /\ (MergeAssert(f, now) \/ MergeRetract(f, now))
         \/ MergeSkip(f)
  PROVE  MergeInv'
  <1> USE DEF ViewInv
  <1>1. MergeNext(f) /\ Merging /\ branches' = branches /\ beliefs' = beliefs
    BY DEF MergeAssert, MergeRetract, MergeSkip, MergeNext
  <1>2. PICK source \in Branches, target \in Branches :
            merge.source = source /\ merge.target = target
    BY <1>1 DEF MergeInv
  <1> DEFINE up == BranchAncestors(source)
             down == BranchAncestors(target)
  <1>3. MergeOK(txs, merge, up, down, FactsOnBranch(source), FactsOnBranch(target))
    BY <1>1, <1>2, MergeViews DEF MergeInv
  <1>4. BranchAncestors(source)' = up /\ BranchAncestors(target)' = down
    BY <1>1, <1>2, MergeViews
  <1>5. IsChain(up, source)
    BY ChainShape
  <1>6. f \in Fact /\ f.id \in FactIds /\ f.id \in Refs
        /\ (now \in Clock => now \in Times)
        /\ "AssertFact" \in TxAction /\ "RetractFact" \in TxAction
    BY MergeTyped, ClockTyped, RefsTyped DEF Fact, TxAction
  <1>7. merge \in MergeState
    BY DEF TypeOK
  <1> HIDE DEF up, down
  <1>8. CASE now \in Clock /\ MergeAssert(f, now)
    <2>1. /\ AllocTx(target, "AssertFact", f.id, now)
          /\ facts' = RowsAfterAssert(target, f.id, f.pred, f.val, f.from, f.to, now)
      BY <1>2, <1>8 DEF MergeAssert
    <2>2. Commits(target, "AssertFact", f.id, now)
      BY <1>1, <1>6, <2>1 DEF Commits, WritesFacts
    <2>3. LoopWrites(txs, txs', NewTx, merge, up, down,
                     FactsOnBranch(source), FactsOnBranch(source)',
                     FactsOnBranch(target), FactsOnBranch(target)', f)
      BY <1>1, <1>2, <1>3, <1>6, <1>8, <2>2, LoopStep DEF up, down
    <2>4. \E g \in FactsOnBranch(target)' : g.id = f.id /\ g.val = f.val
      BY <1>1, <1>4, <1>6, <1>8, <2>1, AssertedIsLive DEF down
    <2>5. (\A g \in merge.targetFacts : g.id # f.id) \/ merge.retracted
      BY <1>8 DEF MergeAssert, InTarget
    <2>6. merge' = [merge EXCEPT !.todo = @ \ {f}, !.retracted = FALSE]
      BY <1>8 DEF MergeAssert
    <2>7. /\ merge'.todo = merge.todo \ {f} /\ merge'.policy = merge.policy
          /\ merge'.targetFacts = merge.targetFacts /\ ~merge'.retracted
          /\ merge'.source = source /\ merge'.target = target
      BY <1>2, <1>7, <2>6 DEF MergeState
    <2>8. MergeOK(txs', merge', up, down, FactsOnBranch(source)', FactsOnBranch(target)')
      BY <1>5, <2>3, <2>4, <2>5, <2>7, AssertInLoop
    <2>9. QED
      BY <1>4, <2>7, <2>8, MergeInvNext
  <1>9. CASE now \in Clock /\ MergeRetract(f, now)
    <2>1. Commits(target, "RetractFact", f.id, now)
      BY <1>1, <1>2, <1>9 DEF MergeRetract, Commits, WritesFacts
    <2>2. LoopWrites(txs, txs', NewTx, merge, up, down,
                     FactsOnBranch(source), FactsOnBranch(source)',
                     FactsOnBranch(target), FactsOnBranch(target)', f)
      BY <1>1, <1>2, <1>3, <1>6, <1>9, <2>1, LoopStep DEF up, down
    <2>3. Clash(merge, f) /\ merge.policy = "LastWriterWins"
      BY <1>9 DEF MergeRetract, Overwrites, Conflicts, Clash
    <2>4. merge' = [merge EXCEPT !.retracted = TRUE]
      BY <1>9 DEF MergeRetract
    <2>5. /\ merge'.todo = merge.todo /\ merge'.policy = merge.policy
          /\ merge'.targetFacts = merge.targetFacts /\ merge'.retracted
          /\ merge'.source = source /\ merge'.target = target
      BY <1>2, <1>7, <2>4 DEF MergeState
    <2>6. MergeOK(txs', merge', up, down, FactsOnBranch(source)', FactsOnBranch(target)')
      BY <1>5, <2>2, <2>3, <2>5, RetractInLoop
    <2>7. QED
      BY <1>4, <2>5, <2>6, MergeInvNext
  <1>10. CASE MergeSkip(f)
    <2>1. txs' = txs /\ facts' = facts
      BY <1>10 DEF MergeSkip
    <2>2. /\ FactsOnBranch(source)' = FactsOnBranch(source)
          /\ FactsOnBranch(target)' = FactsOnBranch(target)
      BY <1>4, <2>1, FactViews DEF up, down
    <2>3. Picked(txs, merge, up, f)
      <3>1. BranchAncestors(merge.source) = up
        BY <1>1, <1>2, MergeViews DEF up
      <3>2. QED
        BY <1>1, <3>1 DEF MergeNext, Before, Closer, TxBranch, Picked, Hides, Nearer
    <2>4. /\ \E g \in merge.targetFacts : g.id = f.id
          /\ ~(Clash(merge, f) /\ merge.policy = "LastWriterWins")
      BY <1>10 DEF MergeSkip, InTarget, Overwrites, Conflicts, Clash
    <2>5. merge' = [merge EXCEPT !.todo = @ \ {f}]
      BY <1>10 DEF MergeSkip
    <2>6. /\ merge'.todo = merge.todo \ {f} /\ merge'.policy = merge.policy
          /\ merge'.targetFacts = merge.targetFacts /\ merge'.retracted = merge.retracted
          /\ merge'.source = source /\ merge'.target = target
      BY <1>2, <1>7, <2>5 DEF MergeState
    <2>7. DOMAIN txs \subseteq Nat
      BY DEF TypeOK
    <2>8. MergeOK(txs, merge', up, down, FactsOnBranch(source), FactsOnBranch(target))
      BY <1>3, <1>5, <2>3, <2>4, <2>6, <2>7, SkipInLoop
    <2>9. MergeOK(txs', merge', up, down, FactsOnBranch(source)', FactsOnBranch(target)')
      BY <2>1, <2>2, <2>8
    <2>10. QED
      BY <1>4, <2>6, <2>9, MergeInvNext
  <1>11. QED
    BY <1>8, <1>9, <1>10

LEMMA NextKeepsMerge == ViewInv /\ ViewInv' /\ MergeInv /\ [Next]_vars => MergeInv'
  <1> SUFFICES ASSUME ViewInv, ViewInv', MergeInv, [Next]_vars PROVE MergeInv'
    OBVIOUS
  <1>1. CASE \E source, target \in Branches, policy \in MergePolicy :
                MergeStart(source, target, policy)
    BY <1>1, StartOfMerge
  <1>2. CASE \E f \in merge.todo : \/ \E now \in Clock : MergeAssert(f, now) \/ MergeRetract(f, now)
                                   \/ MergeSkip(f)
    <2>1. PICK f \in merge.todo : \/ \E now \in Clock : MergeAssert(f, now) \/ MergeRetract(f, now)
                                  \/ MergeSkip(f)
      BY <1>2
    <2>2. CASE \E now \in Clock : MergeAssert(f, now) \/ MergeRetract(f, now)
      BY <2>2, LoopKeepsMerge
    <2>3. CASE MergeSkip(f)
      BY <2>3, LoopKeepsMerge
    <2>4. QED
      BY <2>1, <2>2, <2>3
  <1>3. CASE merge' = NoMerge
    BY <1>3 DEF MergeInv, Merging, NoMerge
  <1>4. CASE ~Merging /\ merge' = merge
    BY <1>4 DEF MergeInv, Merging
  <1>5. CASE UNCHANGED vars
    <2>1. txs' = txs /\ facts' = facts /\ branches' = branches /\ merge' = merge
      BY <1>5 DEF vars
    <2>2. CASE Merging
      <3>1. PICK source \in Branches, target \in Branches :
                merge.source = source /\ merge.target = target
        BY <2>2 DEF MergeInv
      <3>2. /\ BranchAncestors(source)' = BranchAncestors(source)
            /\ BranchAncestors(target)' = BranchAncestors(target)
        BY <2>1, <3>1, MergeViews
      <3>3. /\ FactsOnBranch(source)' = FactsOnBranch(source)
            /\ FactsOnBranch(target)' = FactsOnBranch(target)
        BY <2>1, <3>2, FactViews
      <3>4. MergeOK(txs, merge, BranchAncestors(source), BranchAncestors(target),
                    FactsOnBranch(source), FactsOnBranch(target))
        BY <2>1, <2>2, <3>1, MergeViews DEF MergeInv
      <3>5. QED
        BY <2>1, <3>1, <3>2, <3>3, <3>4, MergeInvNext
    <2>3. CASE ~Merging
      BY <1>4, <2>1, <2>3
    <2>4. QED
      BY <2>2, <2>3
  <1>6. ASSUME Next
        PROVE  \/ MergeStep \/ (~Merging /\ merge' = merge)
    <2>1. FactStep => ~Merging /\ merge' = merge
      BY DEF FactStep, AssertFact, RetractFact, RetractFactExact, MayBegin
    <2>2. BeliefStep => ~Merging /\ merge' = merge
      BY DEF BeliefStep, ReviseBelief, RevokeBelief, MayBegin
    <2>3. (\E b \in Branches, id \in ObsIds, now \in Clock : AssertObservation(b, id, now))
            => ~Merging /\ merge' = merge
      BY DEF AssertObservation, MayBegin
    <2>4. BranchStep => ~Merging /\ merge' = merge
      BY DEF BranchStep, CreateBranch, ArchiveBranch, MayBegin
    <2>5. Reset => ~Merging /\ merge' = merge
      BY DEF Reset
    <2>6. QED
      BY <1>6, <2>1, <2>2, <2>3, <2>4, <2>5 DEF Next
  <1>7. MergeStep =>
          \/ \E source, target \in Branches, policy \in MergePolicy :
                MergeStart(source, target, policy)
          \/ \E f \in merge.todo : \/ \E now \in Clock : MergeAssert(f, now) \/ MergeRetract(f, now)
                                   \/ MergeSkip(f)
          \/ merge' = NoMerge
    BY DEF MergeStep, MergeFinish, MergeFail
  <1>8. QED
    BY <1>1, <1>2, <1>3, <1>4, <1>5, <1>6, <1>7

LEMMA MergeInvariant == Spec => [](ViewInv /\ MergeInv)
  <1>1. Init => MergeInv
    BY DEF Init, MergeInv, Merging, NoMerge
  <1>2. QED
    BY <1>1, NextKeepsMerge, NextKeepsViewInv, ViewInvariant, PTL DEF Spec

\* However far a merge has come when it is observed or refused, KeepTarget and Manual have left
\* on the target every fact it had when merge_branch began.
THEOREM MergeLeavesTarget == Spec => []MergeKeepsTarget
  <1>1. MergeInv => MergeKeepsTarget
    <2> SUFFICES ASSUME MergeInv, Merging, merge.policy # "LastWriterWins"
                 PROVE  merge.targetFacts \subseteq FactsOnBranch(merge.target)
      BY DEF MergeKeepsTarget
    <2>1. TargetOK(txs, merge, BranchAncestors(merge.source), FactsOnBranch(merge.target))
      BY DEF MergeInv, MergeOK
    <2>2. QED
      BY <2>1 DEF TargetOK
  <1>2. QED
    BY <1>1, MergeInvariant, PTL

\* The transaction of a step is the one it allocates.
LEMMA CommittedTx ==
  ASSUME TypeOK, NEW action, NEW b, NEW ref, Committed(action, b, ref),
         NEW action2, NEW b2, NEW ref2, NEW now, AllocTx(b2, action2, ref2, now)
  PROVE  action2 = action /\ b2 = b /\ ref2 = ref
  <1> DEFINE tx == [time |-> now, branch |-> b2, action |-> action2, ref |-> ref2]
  <1>1. txs \in Seq(Tx) /\ txs' = Append(txs, tx)
    BY DEF TypeOK, AllocTx
  <1>2. Len(txs') = Len(txs) + 1 /\ txs'[Len(txs) + 1] = tx
    <2> HIDE DEF tx
    <2>1. QED
      BY <1>1
  <1>3. tx.action = action /\ tx.branch = b /\ tx.ref = ref
    BY <1>2 DEF Committed, LastTx
  <1>4. QED
    BY <1>3

\* Only the last transaction of merge_branch is a merge.
LEMMA MergeCommitted ==
  ASSUME TypeOK, Next, Committed("Merge", merge.target, merge.source)
  PROVE  Merging /\ merge.todo = {}
  <1>1. ASSUME NEW b, NEW action, NEW ref, NEW now, AllocTx(b, action, ref, now)
        PROVE  action = "Merge"
    BY <1>1, CommittedTx
  <1>2. AnyCommitted
    BY DEF Committed
  <1>3. ~FactStep
    BY <1>1 DEF FactStep, AssertFact, RetractFact, RetractFactExact
  <1>4. ~BeliefStep
    BY <1>1 DEF BeliefStep, ReviseBelief, RevokeBelief
  <1>5. ~\E b \in Branches, id \in ObsIds, now \in Clock : AssertObservation(b, id, now)
    BY <1>1 DEF AssertObservation
  <1>6. ~BranchStep
    BY <1>1, <1>2, NothingAppended DEF BranchStep, CreateBranch, ArchiveBranch
  <1>7. ~Reset
    BY <1>2, NothingAppended DEF Reset
  <1>8. MergeStep
    BY <1>3, <1>4, <1>5, <1>6, <1>7 DEF Next
  <1>9. \E now \in Clock : MergeFinish(now)
    BY <1>1, <1>2, <1>8, NothingAppended
       DEF MergeStep, MergeStart, MergeAssert, MergeRetract, MergeSkip, MergeFail
  <1>10. QED
    BY <1>9 DEF MergeFinish

\* When merge_branch returns its transaction, every fact of the source which the target does not
\* inherit is live there, and under LastWriterWins with the value of the source: no fact gets
\* lost between the snapshots, the retraction and the assertion of the loop.
THEOREM MergesLand == Spec => MergeLands
  <1>1. ASSUME ViewInv, MergeInv, [Next]_vars
        PROVE  [Committed("Merge", merge.target, merge.source) =>
                  \A f \in FactsOnBranch(merge.source) :
                      InView(f.tx, BranchAncestors(merge.target)) \/
                      \E g \in FactsOnBranch(merge.target) :
                          g.id = f.id /\ (merge.policy = "LastWriterWins" => g.val = f.val)]_vars
    <2> SUFFICES ASSUME Next, Committed("Merge", merge.target, merge.source),
                        NEW f \in FactsOnBranch(merge.source)
                 PROVE  InView(f.tx, BranchAncestors(merge.target)) \/
                        \E g \in FactsOnBranch(merge.target) :
                            g.id = f.id /\ (merge.policy = "LastWriterWins" => g.val = f.val)
      BY <1>1
    <2>1. Merging /\ merge.todo = {}
      BY <1>1, MergeCommitted DEF ViewInv
    <2>2. SourceOK(txs, merge, BranchAncestors(merge.target), FactsOnBranch(merge.source),
                   FactsOnBranch(merge.target))
      BY <1>1, <2>1 DEF MergeInv, MergeOK
    <2>3. \/ Seen(txs, f.tx, BranchAncestors(merge.target))
          \/ Landed(merge, f, FactsOnBranch(merge.target))
      BY <2>1, <2>2 DEF SourceOK
    <2>4. QED
      BY <2>3 DEF Landed, Seen, InView, TxBranch
  <1>2. QED
    BY <1>1, MergeInvariant, PTL DEF Spec, MergeLands

(***************************************************************************)
(* Beliefs.                                                                *)
(***************************************************************************)

InEffect(rows, time) == {r \in rows : r.from <= time}

LEMMA BitemporalViews ==
  ASSUME NEW n, NEW b, NEW time, txs[n].branch = b
  PROVE  BeliefsBitemporal(n, time) =
            {r \in Held(txs, Heads(txs, InEffect(beliefs, time), BranchAncestors(b), n),
                        BranchAncestors(b)) : IsValidAt(r, r.to, time)}
  BY DEF BeliefsBitemporal, ActiveBeliefs, Held, Heads, Visible, NewestRows, InEffect,
         InView, Seen, Before, Closer, Hides, Nearer, TxBranch

LEMMA BitemporalViewsNext ==
  ASSUME NEW n, NEW b, NEW time, LastTx' = n, txs'[n].branch = b
  PROVE  BeliefsBitemporal(LastTx, time)' =
            {r \in Held(txs', Heads(txs', InEffect(beliefs', time), BranchAncestors(b)', n),
                        BranchAncestors(b)') : IsValidAt(r, r.to, time)}
  <1>1. BranchAncestors(TxBranch(LastTx))' = BranchAncestors(b)'
    BY DEF BranchAncestors, AncestorWalk, TxBranch, HasRow, FirstRow
  <1>2. QED
    BY <1>1
       DEF BeliefsBitemporal, ActiveBeliefs, Held, Heads, Visible, NewestRows, InEffect,
           InView, Seen, Before, Closer, Hides, Nearer, TxBranch

LEMMA BeliefCommitted ==
  ASSUME TypeOK, Next, NEW action \in {"ReviseBelief", "RevokeBelief"}, NEW b, NEW id,
         Committed(action, b, id)
  PROVE  \E now \in Clock :
            \/ action = "RevokeBelief" /\ RevokeBelief(b, id, now)
            \/ /\ action = "ReviseBelief"
               /\ \E claim, support, from, to : ReviseBelief(b, id, claim, support, from, to, now)
  <1>1. ASSUME NEW b2, NEW action2, NEW ref, NEW now, AllocTx(b2, action2, ref, now)
        PROVE  action2 = action /\ b2 = b /\ ref = id
    BY <1>1, CommittedTx
  <1>2. /\ AnyCommitted
        /\ action \notin {"AssertFact", "RetractFact", "AssertObservation", "CreateBranch", "Merge"}
    BY DEF Committed
  <1>3. ~FactStep
    BY <1>1 DEF FactStep, AssertFact, RetractFact, RetractFactExact
  <1>4. ~\E c \in Branches, o \in ObsIds, now \in Clock : AssertObservation(c, o, now)
    BY <1>1 DEF AssertObservation
  <1>5. ~BranchStep
    <2>1. \A p, c, now : ~CreateBranch(p, c, now)
      BY <1>1, <1>2 DEF CreateBranch
    <2>2. \A c : ~ArchiveBranch(c)
      BY <1>2, NothingAppended DEF ArchiveBranch
    <2>3. QED
      BY <2>1, <2>2 DEF BranchStep
  <1>6. ~Reset
    BY <1>2, NothingAppended DEF Reset
  <1>7. ~MergeStep
    <2>1. \A f, now : ~MergeAssert(f, now) /\ ~MergeRetract(f, now) /\ ~MergeFinish(now)
      BY <1>1, <1>2 DEF MergeAssert, MergeRetract, MergeFinish
    <2>2. \A src, tgt, p, f : ~MergeStart(src, tgt, p) /\ ~MergeSkip(f) /\ ~MergeFail
      BY <1>2, NothingAppended DEF MergeStart, MergeSkip, MergeFail
    <2>3. QED
      BY <2>1, <2>2 DEF MergeStep
  <1>8. PICK b2 \in Branches, id2 \in BeliefIds, now \in Clock :
            \/ \E claim, support, from, to : ReviseBelief(b2, id2, claim, support, from, to, now)
            \/ RevokeBelief(b2, id2, now)
    BY <1>3, <1>4, <1>5, <1>6, <1>7 DEF Next, BeliefStep
  <1>9. CASE \E claim, support, from, to : ReviseBelief(b2, id2, claim, support, from, to, now)
    <2>1. AllocTx(b2, "ReviseBelief", id2, now)
      BY <1>9 DEF ReviseBelief
    <2>2. action = "ReviseBelief" /\ b2 = b /\ id2 = id
      BY <1>1, <2>1
    <2>3. QED
      BY <1>9, <2>2
  <1>10. CASE RevokeBelief(b2, id2, now)
    <2>1. AllocTx(b2, "RevokeBelief", id2, now)
      BY <1>10 DEF RevokeBelief
    <2>2. action = "RevokeBelief" /\ b2 = b /\ id2 = id
      BY <1>1, <2>1
    <2>3. QED
      BY <1>10, <2>2
  <1>11. QED
    BY <1>8, <1>9, <1>10

\* A revoked row of the last transaction keeps its id out of a view of its branch.
LEMMA RevokedHides ==
  ASSUME NEW log, NEW n \in Nat, n > 0, DOMAIN log = 1..n, NEW chain, NEW b, IsChain(chain, b),
         log[n].branch = b, NEW rows, NEW new \in rows, new.tx = n, new.status = "Revoked",
         NEW r \in Held(log, Heads(log, rows, chain, n), chain)
  PROVE  r.id # new.id
  <1> SUFFICES ASSUME r.id = new.id PROVE FALSE
    OBVIOUS
  <1>1. r.status = "Active" /\ r \in Heads(log, rows, chain, n)
    BY DEF Held
  <1>2. r # new /\ r.tx \in DOMAIN log
    BY <1>1 DEF Heads, Visible, Seen
  <1>3. new \in Visible(log, rows, chain, n)
    BY DEF Visible, Seen, IsChain
  <1>4. Hides(log, r, new, chain)
    BY <1>1, <1>2, <1>3 DEF Heads
  <1>5. QED
    BY <1>2, <1>4, NothingHidesTheLast

LEMMA EffectOfARevocation ==
  ASSUME ViewInv, ViewInv', Next, NEW b \in Branches, NEW id \in BeliefIds,
         Committed("RevokeBelief", b, id)
  PROVE  /\ \A r \in BeliefsOnBranch(b)' : r.id # id
         /\ \A revoked \in beliefs' \ beliefs, time \in Times :
               revoked.from <= time => \A r \in BeliefsBitemporal(LastTx, time)' : r.id # id
  <1> USE DEF ViewInv
  <1>1. PICK now \in Clock : RevokeBelief(b, id, now)
    BY BeliefCommitted
  <1>2. PICK active \in BeliefsOnBranch(b) :
              /\ active.id = id
              /\ AllocTx(b, "RevokeBelief", id, now)
              /\ beliefs' = BeliefsAfterRevoke(active, now)
              /\ branches' = branches
    BY <1>1 DEF RevokeBelief
  <1> DEFINE new == [active EXCEPT !.status = "Revoked", !.tx = NewTx, !.to = now]
             chain == BranchAncestors(b)
  <1>3. active \in Belief
    BY BeliefViewsShowRows DEF TypeOK
  <1>4. new.tx = NewTx /\ new.id = id /\ new.status = "Revoked"
    BY <1>2, <1>3 DEF Belief
  <1>5. beliefs' = beliefs \cup {new}
    BY <1>2 DEF BeliefsAfterRevoke
  <1>6. /\ NewTx \in Nat /\ NewTx > 0 /\ DOMAIN txs' = 1..NewTx /\ txs'[NewTx].branch = b
        /\ NewTx = Len(txs') /\ LastTx' = NewTx
    <2>1. now \in Times /\ id \in Refs /\ "RevokeBelief" \in TxAction
      BY ClockTyped, RefsTyped DEF TxAction
    <2>2. /\ NewTx \in Nat /\ NewTx > 0 /\ DOMAIN txs' = 1..NewTx /\ txs'[NewTx].branch = b
      BY <1>2, <2>1, LogGrows
    <2>3. Len(txs') = Len(txs) + 1
      BY <1>2, <2>1, AllocTxTyped
    <2>4. QED
      BY <2>2, <2>3 DEF NewTx, LastTx
  <1>7. BranchAncestors(b)' = chain
    BY <1>2 DEF BranchAncestors, AncestorWalk, HasRow, FirstRow
  <1>8. IsChain(chain, b)
    BY ChainShape
  <1> HIDE DEF new, chain
  <1>9. ASSUME NEW r \in BeliefsOnBranch(b)'
        PROVE  r.id # id
    <2>1. r \in Held(txs', Heads(txs', beliefs', chain, NewTx), chain)
      BY <1>6, <1>7, BeliefViews
    <2>2. new \in beliefs'
      BY <1>5
    <2>3. QED
      BY <1>4, <1>6, <1>8, <2>1, <2>2, RevokedHides
  <1>10. ASSUME NEW revoked \in beliefs' \ beliefs, NEW time \in Times, revoked.from <= time,
                NEW r \in BeliefsBitemporal(LastTx, time)'
         PROVE  r.id # id
    <2>1. new \in InEffect(beliefs', time)
      BY <1>5, <1>10 DEF InEffect
    <2>2. r \in Held(txs', Heads(txs', InEffect(beliefs', time), chain, NewTx), chain)
      BY <1>6, <1>7, <1>10, BitemporalViewsNext
    <2>3. QED
      BY <1>4, <1>6, <1>8, <2>1, <2>2, RevokedHides
  <1>11. QED
    BY <1>9, <1>10

LEMMA EffectOfARevision ==
  ASSUME ViewInv, ViewInv', Next, NEW b \in Branches, NEW id \in BeliefIds,
         Committed("ReviseBelief", b, id), txs # <<>>, TxBranch(LastTx) = b,
         NEW revised \in beliefs' \ beliefs, NEW time \in Times, time < revised.from
  PROVE  BeliefsBitemporal(LastTx, time)' = BeliefsBitemporal(LastTx, time)
  <1> USE DEF ViewInv
  <1>1. PICK now, claim, support, from, to :
            now \in Clock /\ ReviseBelief(b, id, claim, support, from, to, now)
    BY BeliefCommitted
  <1> DEFINE new == [id |-> id, claim |-> claim, status |-> "Active", tx |-> NewTx,
                     support |-> SupportOf(b, id, support),
                     from |-> ValidFrom(from, now), to |-> to]
             chain == BranchAncestors(b)
             old == InEffect(beliefs, time)
  <1>2. beliefs' = beliefs \cup {new} /\ branches' = branches
        /\ AllocTx(b, "ReviseBelief", id, now)
    BY <1>1 DEF ReviseBelief
  <1> HIDE DEF new
  <1>3. new = revised
    BY <1>2
  <1>4. InEffect(beliefs', time) = old
    <2>1. revised.from \in Nat /\ time \in Nat
      <3>1. revised.from \in Times
        BY DEF TypeOK, Belief
      <3>2. QED
        BY <3>1, BrainAssumption DEF Times
    <2>2. ~(revised.from <= time)
      BY <2>1
    <2>3. QED
      BY <1>2, <1>3, <2>2 DEF InEffect
  <1>5. /\ NewTx \in Nat /\ NewTx > 0 /\ DOMAIN txs' = 1..NewTx /\ DOMAIN txs = 1..(NewTx - 1)
        /\ txs'[NewTx].branch = b /\ \A t \in DOMAIN txs : txs'[t] = txs[t]
        /\ NewTx = Len(txs') /\ LastTx' = NewTx /\ Len(txs) = NewTx - 1 /\ LastTx = Len(txs)
    <2>1. now \in Times /\ id \in Refs /\ "ReviseBelief" \in TxAction
      BY <1>1, ClockTyped, RefsTyped DEF TxAction
    <2>2. /\ NewTx \in Nat /\ NewTx > 0 /\ DOMAIN txs' = 1..NewTx /\ DOMAIN txs = 1..(NewTx - 1)
          /\ txs'[NewTx].branch = b /\ \A t \in DOMAIN txs : txs'[t] = txs[t]
      BY <1>2, <2>1, LogGrows
    <2>3. Len(txs') = Len(txs) + 1 /\ Len(txs) \in Nat
      <3>1. Len(txs') = Len(txs) + 1
        BY <1>2, <2>1, AllocTxTyped
      <3>2. QED
        BY <3>1 DEF TypeOK
    <2>4. QED
      BY <2>2, <2>3 DEF NewTx, LastTx
  <1>6. BranchAncestors(b)' = chain
    BY <1>2 DEF BranchAncestors, AncestorWalk, HasRow, FirstRow
  <1>7. Grown(txs, txs', old, old, NewTx)
    <2>1. RowsOf(txs, old)
      BY DEF LogInv, RowsOf, InEffect
    <2>2. \A t \in DOMAIN txs : t \in DOMAIN txs'
      BY <1>5
    <2>3. RowsOf(txs', old)
      BY <2>1, <2>2 DEF RowsOf
    <2>4. Longer(txs, txs', NewTx)
      BY <1>5 DEF Longer
    <2>5. QED
      BY <2>1, <2>3, <2>4 DEF Grown, Stems
  <1>8. SameWindow(NewTx, Len(txs), NewTx)
    BY <1>5 DEF SameWindow
  <1> HIDE DEF old
  <1>9. Heads(txs', old, chain, NewTx) = Heads(txs, old, chain, Len(txs))
    BY <1>7, <1>8, SameHeads
  <1>10. Held(txs', Heads(txs, old, chain, Len(txs)), chain)
           = Held(txs, Heads(txs, old, chain, Len(txs)), chain)
    <2>1. \A r \in Heads(txs, old, chain, Len(txs)) : r.tx \in DOMAIN txs
      BY <1>7 DEF Heads, Visible, Grown, RowsOf
    <2>2. QED
      BY <1>7, <2>1, SameHeld DEF Grown
  <1>11. BeliefsBitemporal(LastTx, time)' =
            {r \in Held(txs', Heads(txs', old, chain, NewTx), chain) : IsValidAt(r, r.to, time)}
    BY <1>4, <1>5, <1>6, BitemporalViewsNext
  <1>12. BeliefsBitemporal(LastTx, time) =
            {r \in Held(txs, Heads(txs, old, chain, Len(txs)), chain) : IsValidAt(r, r.to, time)}
    BY <1>5, BitemporalViews DEF old, TxBranch
  <1>13. QED
    BY <1>9, <1>10, <1>11, <1>12

\* revoke_belief takes the belief out of the present view of its branch and out of every view at
\* a moment from the start of the belief on, whatever other rows of it the branch inherits.
THEOREM RevocationsTakeEffect == Spec => RevocationTakesEffect
  <1>1. ASSUME ViewInv, ViewInv', [Next]_vars
        PROVE  [\A b \in Branches, id \in BeliefIds :
                   Committed("RevokeBelief", b, id) =>
                     /\ \A r \in BeliefsOnBranch(b)' : r.id # id
                     /\ \A revoked \in beliefs' \ beliefs, time \in Times :
                           revoked.from <= time
                             => \A r \in BeliefsBitemporal(LastTx, time)' : r.id # id]_vars
    <2>1. Next => \A b \in Branches, id \in BeliefIds :
                   Committed("RevokeBelief", b, id) =>
                     /\ \A r \in BeliefsOnBranch(b)' : r.id # id
                     /\ \A revoked \in beliefs' \ beliefs, time \in Times :
                           revoked.from <= time
                             => \A r \in BeliefsBitemporal(LastTx, time)' : r.id # id
      BY <1>1, EffectOfARevocation
    <2>2. QED
      BY <1>1, <2>1
  <1>2. QED
    BY <1>1, ViewInvariant, NextKeepsViewInv, PTL DEF Spec, RevocationTakesEffect

\* revise_belief with a later valid_from leaves what beliefs_bitemporal answers for the moments
\* before it as it was.
THEOREM RevisionsKeepTheMeantime == Spec => RevisionKeepsTheMeantime
  <1>1. ASSUME ViewInv, ViewInv', [Next]_vars
        PROVE  [\A b \in Branches, id \in BeliefIds :
                   Committed("ReviseBelief", b, id) /\ txs # <<>> /\ TxBranch(LastTx) = b =>
                     \A revised \in beliefs' \ beliefs, time \in Times :
                        time < revised.from
                          => BeliefsBitemporal(LastTx, time)' = BeliefsBitemporal(LastTx, time)]_vars
    <2>1. Next => \A b \in Branches, id \in BeliefIds :
                   Committed("ReviseBelief", b, id) /\ txs # <<>> /\ TxBranch(LastTx) = b =>
                     \A revised \in beliefs' \ beliefs, time \in Times :
                        time < revised.from
                          => BeliefsBitemporal(LastTx, time)' = BeliefsBitemporal(LastTx, time)
      BY <1>1, EffectOfARevision
    <2>2. QED
      BY <1>1, <2>1
  <1>2. QED
    BY <1>1, ViewInvariant, NextKeepsViewInv, PTL DEF Spec, RevisionKeepsTheMeantime

=============================================================================
