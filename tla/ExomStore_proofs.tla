-------------------------- MODULE ExomStore_proofs --------------------------
(***************************************************************************)
(* What an operation acknowledged stays in the brain and on disk, and what *)
(* it wrote finds its own transaction, for every number of operations,     *)
(* stops and failures.                                                     *)
(*                                                                         *)
(* Neither holds by itself: both rest on what the steps still to do will   *)
(* save.  Planned says how an operation's steps follow each other, and     *)
(* StoreInv what they owe to the tables that disk and brain disagree on.   *)
(***************************************************************************)
EXTENDS ExomStore, SequenceTheorems, TLAPS

Steps == [name : {"alloc", "row", "save", "replace", "reset", "remove", "return"},
          table : Tables, tolerated : BOOLEAN]

\* From step k on the tables are only saved, and t is the first of them.
Saves(steps, k, t) ==
    /\ steps[k].name = "save" /\ steps[k].table = t
    /\ \A j \in k..Len(steps) : steps[j].name \in {"save", "return"}

\* How the steps of an operation follow each other.
Planned(steps) ==
    /\ steps \in Seq(Steps)
    /\ \A i \in 1..Len(steps) :
          /\ steps[i].name = "return" => i = Len(steps)
          /\ steps[i].name \notin {"save", "return"} =>
                \A t \in Tables : \E k \in (i + 1)..Len(steps) : Saves(steps, k, t)
          /\ steps[i].name = "alloc" => i < Len(steps)
          /\ steps[i].name = "alloc" /\ steps[i].tolerated => steps[i + 1].name = "row"
          /\ steps[i].name = "row" => steps[i].table \in RowTables
          /\ steps[i].name = "row" /\ i > 1 => steps[i - 1].name = "alloc"
          /\ steps[i].tolerated => steps[i].name \in {"alloc", "row"}

\* When a wipe removes the directory, nothing is promised of what was in it.
RemovalPromisesNothing ==
    \A i \in 1..Len(todo) : todo[i].name = "remove" =>
        (acked = {} /\ mixed) \/ (i = 2 /\ todo[1].name = "reset")

Brains == [tables : [Tables -> Seq(Entry)], next : Nat]

Typed ==
    /\ brain \in Brains
    /\ disk \in [Tables -> Seq(Entry)]
    /\ there \in BOOLEAN /\ mixed \in BOOLEAN /\ torn \in BOOLEAN
    /\ op \in Nat /\ faults \in Nat /\ crashes \in Nat
    /\ unread \subseteq Tables
    /\ acked \subseteq [table : Tables, entry : Entry]

\* Entries are of operations begun, transactions are numbered from 1 and ascend, and the
\* brain goes on after its last one.
Numbered ==
    /\ \A t \in Tables : \A e \in ToSet(disk[t]) \union ToSet(brain.tables[t]) : e.op \in 1..op
    /\ \A e \in ToSet(disk["tx"]) \union ToSet(brain.tables["tx"]) : e.id # 0
    /\ Ascending(disk["tx"]) /\ Ascending(brain.tables["tx"])
    /\ brain # Closed => brain.next = NextId(brain.tables["tx"])
    /\ brain = Closed => todo = <<>>
    /\ todo # <<>> => op # 0

\* An operation will save every table in which the brain differs from the disk, and has saved
\* its transaction when it comes to its row.
SavesOwed ==
    /\ Planned(todo)
    /\ todo # <<>> => \A t \in Tables :
          disk[t] = brain.tables[t] \/ \E k \in 1..Len(todo) : Saves(todo, k, t)
    /\ At("row") /\ brain.tables["tx"] # <<>> /\ Last(brain.tables["tx"]).op = op =>
          disk["tx"] = brain.tables["tx"]
    /\ RemovalPromisesNothing

\* The rows of a table that carry an identifier find their transaction among txs.
RowsIn(tables, txs) ==
    \A t \in RowTables : \A e \in ToSet(tables[t]) : e.id # 0 => e \in ToSet(txs)

\* The rows in memory have their transactions on disk too, before they are saved, and no
\* save takes a transaction away.
Covered ==
    /\ ~torn => RowsIn(brain.tables, brain.tables["tx"])
    /\ ~mixed /\ ~torn =>
          /\ RowsIn(disk, disk["tx"])
          /\ RowsIn(brain.tables, disk["tx"])
          /\ brain # Closed => ToSet(disk["tx"]) \subseteq ToSet(brain.tables["tx"])

StoreInv == Typed /\ Numbered /\ SavesOwed /\ Covered /\ AcknowledgedIsKept

-----------------------------------------------------------------------------
(* Sequences of entries *)

LEMMA OrderTables ==
  /\ Tables = {"tx", "fact", "observation", "belief", "branch"}
  /\ "tx" \in Tables
  /\ RowTables = {"fact", "observation", "belief", "branch"}
  /\ Order \in Seq(Tables) /\ Len(Order) = 5
  /\ \A t \in Tables : \E i \in 1..5 : Order[i] = t
  <1>1. Order \in Seq({"tx", "fact", "observation", "belief", "branch"})
        /\ DOMAIN Order = 1..5 /\ Len(Order) = 5
        /\ Order[1] = "tx" /\ Order[2] = "fact" /\ Order[3] = "observation"
        /\ Order[4] = "belief" /\ Order[5] = "branch"
    BY DEF Order
  <1>2. Tables = {"tx", "fact", "observation", "belief", "branch"}
    BY <1>1 DEF Tables, ToSet
  <1>3. QED
    BY <1>1, <1>2 DEF RowTables

LEMMA AppendSet ==
  ASSUME NEW S, NEW s \in Seq(S), NEW e \in S
  PROVE  /\ Append(s, e) \in Seq(S) /\ Append(s, e) # <<>>
         /\ Len(Append(s, e)) = Len(s) + 1
         /\ Last(Append(s, e)) = e
         /\ ToSet(Append(s, e)) = ToSet(s) \union {e}
         /\ \A i \in 1..Len(s) : Append(s, e)[i] = s[i]
  <1>1. /\ Append(s, e) \in Seq(S) /\ Append(s, e) # <<>>
        /\ Len(Append(s, e)) = Len(s) + 1
        /\ \A i \in 1..Len(s) : Append(s, e)[i] = s[i]
        /\ Append(s, e)[Len(s) + 1] = e
    OBVIOUS
  <1>2. DOMAIN Append(s, e) = 1..(Len(s) + 1) /\ DOMAIN s = 1..Len(s) /\ Len(s) \in Nat
    BY <1>1
  <1>3. ToSet(Append(s, e)) = ToSet(s) \union {e}
    BY <1>1, <1>2 DEF ToSet
  <1>4. QED
    BY <1>1, <1>3 DEF Last

LEMMA LastIn ==
  ASSUME NEW S, NEW s \in Seq(S), s # <<>>
  PROVE  Last(s) \in ToSet(s) /\ Last(s) \in S /\ Len(s) \in Nat \ {0}
  BY DEF Last, ToSet

LEMMA ToSetOfSeq ==
  ASSUME NEW S, NEW s \in Seq(S)
  PROVE  ToSet(s) \subseteq S
  BY DEF ToSet

LEMMA ToSetOfEmpty == ToSet(<<>>) = {}
  BY DEF ToSet

\* Ascending transactions end with the greatest identifier, so NextId is a new one.
LEMMA NextIdIsNew ==
  ASSUME NEW txs \in Seq(Entry), Ascending(txs)
  PROVE  /\ NextId(txs) \in Nat \ {0}
         /\ \A e \in ToSet(txs) : e.id < NextId(txs)
  <1>1. CASE txs = <<>>
    BY <1>1, ToSetOfEmpty DEF NextId
  <1>2. CASE txs # <<>>
    <2>1. Last(txs) = txs[Len(txs)] /\ Len(txs) \in Nat \ {0} /\ DOMAIN txs = 1..Len(txs)
      BY <1>2 DEF Last
    <2>2. ASSUME NEW i \in 1..Len(txs)
          PROVE  txs[i].id \in Nat
      <3>1. txs[i] \in Entry
        OBVIOUS
      <3>2. QED
        BY <3>1 DEF Entry
    <2>3. ASSUME NEW i \in 1..Len(txs), i # Len(txs)
          PROVE  txs[i].id < txs[Len(txs)].id
      <3> DEFINE n == Len(txs)
      <3>1. n \in Nat /\ n # 0 /\ DOMAIN txs = 1..n /\ i \in 1..n /\ i # n
        BY <2>1, <2>3
      <3> HIDE DEF n
      <3>2. i \in DOMAIN txs /\ n \in DOMAIN txs /\ i < n
        BY <3>1
      <3>3. QED
        BY <3>2 DEF Ascending, n
    <2>4. ASSUME NEW i \in 1..Len(txs)
          PROVE  txs[i].id < Last(txs).id + 1
      <3> DEFINE last == Last(txs).id
                 this == txs[i].id
      <3>1. this \in Nat /\ last \in Nat
        BY <2>1, <2>2
      <3>2. this = last \/ this < last
        BY <2>1, <2>3
      <3> HIDE DEF last, this
      <3>3. this < last + 1
        BY <3>1, <3>2
      <3>4. QED
        BY <3>3 DEF last, this
    <2>5. NextId(txs) = Last(txs).id + 1
      BY <1>2 DEF NextId
    <2>6. QED
      BY <2>1, <2>2, <2>4, <2>5 DEF ToSet
  <1>3. QED
    BY <1>1, <1>2

LEMMA AppendAscends ==
  ASSUME NEW txs \in Seq(Entry), Ascending(txs), NEW e \in Entry, e.id = NextId(txs)
  PROVE  Ascending(Append(txs, e)) /\ NextId(Append(txs, e)) = e.id + 1
  <1>1. Append(txs, e) \in Seq(Entry) /\ Len(Append(txs, e)) = Len(txs) + 1
        /\ Last(Append(txs, e)) = e /\ Append(txs, e) # <<>>
        /\ \A i \in 1..Len(txs) : Append(txs, e)[i] = txs[i]
    BY AppendSet
  <1>2. Append(txs, e)[Len(txs) + 1] = e /\ Len(txs) \in Nat
    BY <1>1 DEF Last
  <1>3. \A i \in 1..Len(txs) : txs[i] \in ToSet(txs)
    BY DEF ToSet
  <1>4. \A i \in 1..Len(txs) : txs[i].id < e.id
    BY <1>3, NextIdIsNew
  <1>5. DOMAIN Append(txs, e) = 1..(Len(txs) + 1) /\ DOMAIN txs = 1..Len(txs)
    BY <1>1, <1>2
  <1>6. ASSUME NEW i \in DOMAIN Append(txs, e), NEW j \in DOMAIN Append(txs, e), i < j
        PROVE  Append(txs, e)[i].id < Append(txs, e)[j].id
    <2>1. CASE j = Len(txs) + 1
      BY <1>1, <1>2, <1>4, <1>5, <1>6, <2>1
    <2>2. CASE j # Len(txs) + 1
      <3>1. i \in 1..Len(txs) /\ j \in 1..Len(txs)
        BY <1>2, <1>5, <1>6, <2>2
      <3>2. QED
        BY <1>1, <1>5, <1>6, <3>1 DEF Ascending
    <2>3. QED
      BY <2>1, <2>2
  <1>7. QED
    BY <1>1, <1>6 DEF Ascending, NextId

-----------------------------------------------------------------------------
(* The steps of an operation *)

\* What is left of a plan when its first n steps are done is a plan.
LEMMA SuffixPlanned ==
  ASSUME NEW steps, Planned(steps), NEW rest \in Seq(Steps), NEW n \in Nat,
         Len(rest) = Len(steps) - n,
         \A i \in 1..Len(rest) : rest[i] = steps[i + n]
  PROVE  /\ Planned(rest)
         /\ \A t \in Tables : \A k \in 1..Len(steps) :
               k > n /\ Saves(steps, k, t) => k - n \in 1..Len(rest) /\ Saves(rest, k - n, t)
  <1>1. steps \in Seq(Steps) /\ Len(steps) \in Nat /\ Len(rest) \in Nat
    BY DEF Planned
  <1>2. ASSUME NEW t \in Tables, NEW k \in 1..Len(steps), k > n, Saves(steps, k, t)
        PROVE  k - n \in 1..Len(rest) /\ Saves(rest, k - n, t)
    <2>1. k - n \in 1..Len(rest) /\ rest[k - n] = steps[k]
      BY <1>1, <1>2
    <2>2. ASSUME NEW j \in (k - n)..Len(rest)
          PROVE  rest[j].name \in {"save", "return"}
      <3>1. j \in 1..Len(rest) /\ j + n \in k..Len(steps)
        BY <1>1, <1>2
      <3>2. QED
        BY <1>2, <3>1 DEF Saves
    <2>3. QED
      BY <1>2, <2>1, <2>2 DEF Saves
  <1>3. ASSUME NEW i \in 1..Len(rest)
        PROVE  /\ i + n \in 1..Len(steps) /\ rest[i] = steps[i + n]
               /\ rest[i].name = "return" => i = Len(rest)
               /\ rest[i].name \notin {"save", "return"} =>
                     \A t \in Tables : \E k \in (i + 1)..Len(rest) : Saves(rest, k, t)
               /\ rest[i].name = "alloc" => i < Len(rest)
               /\ rest[i].name = "alloc" /\ rest[i].tolerated => rest[i + 1].name = "row"
               /\ rest[i].name = "row" => rest[i].table \in RowTables
               /\ rest[i].name = "row" /\ i > 1 => rest[i - 1].name = "alloc"
               /\ rest[i].tolerated => rest[i].name \in {"alloc", "row"}
    <2>1. i + n \in 1..Len(steps) /\ rest[i] = steps[i + n]
      BY <1>1
    <2>2. rest[i].name = "return" => i = Len(rest)
      BY <1>1, <2>1 DEF Planned
    <2>3. ASSUME rest[i].name \notin {"save", "return"}, NEW t \in Tables
          PROVE  \E k \in (i + 1)..Len(rest) : Saves(rest, k, t)
      <3>1. PICK k \in (i + n + 1)..Len(steps) : Saves(steps, k, t)
        BY <2>1, <2>3 DEF Planned
      <3>2. k \in 1..Len(steps) /\ k > n /\ k - n \in (i + 1)..Len(rest)
        BY <1>1, <3>1
      <3>3. QED
        BY <1>2, <3>1, <3>2
    <2>4. rest[i].name = "alloc" => i < Len(rest)
      BY <1>1, <2>1 DEF Planned
    <2>5. rest[i].name = "alloc" /\ rest[i].tolerated => rest[i + 1].name = "row"
      <3>1. rest[i].name = "alloc" => i + 1 \in 1..Len(rest) /\ rest[i + 1] = steps[i + n + 1]
        BY <1>1, <2>4
      <3>2. QED
        BY <2>1, <3>1 DEF Planned
    <2>6. rest[i].name = "row" /\ i > 1 => rest[i - 1].name = "alloc"
      <3>1. SUFFICES ASSUME rest[i].name = "row", i > 1
                     PROVE  rest[i - 1].name = "alloc"
        OBVIOUS
      <3>2. i - 1 \in 1..Len(rest) /\ (i - 1) + n = (i + n) - 1 /\ i + n > 1
        BY <1>1, <3>1
      <3>3. steps[(i + n) - 1].name = "alloc"
        <4> DEFINE j == i + n
        <4>1. j \in 1..Len(steps) /\ steps[j].name = "row" /\ j > 1
          BY <2>1, <3>1, <3>2
        <4> HIDE DEF j
        <4>2. steps[j - 1].name = "alloc"
          BY <4>1 DEF Planned
        <4>3. QED
          BY <4>2 DEF j
      <3>4. rest[i - 1] = steps[(i - 1) + n]
        BY <3>2
      <3>5. QED
        BY <3>2, <3>3, <3>4
    <2>7. QED
      BY <2>1, <2>2, <2>3, <2>4, <2>5, <2>6 DEF Planned
  <1>4. Planned(rest)
    BY <1>3 DEF Planned
  <1>5. QED
    BY <1>2, <1>4

LEMMA Concatenation ==
  ASSUME NEW a \in Seq(Steps), NEW b \in Seq(Steps)
  PROVE  /\ a \o b \in Seq(Steps) /\ Len(a \o b) = Len(a) + Len(b)
         /\ \A i \in 1..Len(a) : (a \o b)[i] = a[i]
         /\ \A i \in 1..Len(b) : (a \o b)[Len(a) + i] = b[i]
  OBVIOUS

LEMMA SaveSteps ==
  /\ save \in Seq(Steps) /\ Len(save) = 5
  /\ \A i \in 1..5 : save[i].name = "save" /\ ~save[i].tolerated
  /\ \A t \in Tables : \E i \in 1..5 : save[i].table = t
  <1>1. DOMAIN Order = 1..5 /\ \A i \in 1..5 : Order[i] \in Tables
    BY OrderTables
  <1>2. \A i \in 1..5 : Step("save", Order[i]) \in Steps
    BY <1>1 DEF Step, Steps
  <1>3. save = [i \in 1..5 |-> Step("save", Order[i])]
    BY <1>1 DEF save
  <1>4. save \in Seq(Steps) /\ Len(save) = 5 /\ \A i \in 1..5 : save[i] = Step("save", Order[i])
    BY <1>2, <1>3
  <1>5. QED
    BY <1>4, OrderTables DEF Step

\* The steps of an operation before the tables are saved once more.
Body(steps) ==
    /\ steps \in Seq(Steps)
    /\ \A i \in 1..Len(steps) :
          /\ steps[i].name # "return"
          /\ steps[i].name = "alloc" /\ steps[i].tolerated =>
                i < Len(steps) /\ steps[i + 1].name = "row"
          /\ steps[i].name = "row" => steps[i].table \in RowTables
          /\ steps[i].name = "row" /\ i > 1 => steps[i - 1].name = "alloc"
          /\ steps[i].tolerated => steps[i].name \in {"alloc", "row"}
          /\ steps[i].name = "remove" => i = 2 /\ steps[1].name = "reset"

LEMMA SavesAfterBody ==
  ASSUME NEW steps, Body(steps)
  PROVE  Body(steps \o save)
  <1> DEFINE all == steps \o save
  <1>1. steps \in Seq(Steps) /\ save \in Seq(Steps) /\ Len(save) = 5 /\ Len(steps) \in Nat
    BY SaveSteps DEF Body
  <1>2. /\ all \in Seq(Steps) /\ Len(all) = Len(steps) + 5
        /\ \A i \in 1..Len(steps) : all[i] = steps[i]
        /\ \A i \in 1..5 : all[Len(steps) + i] = save[i]
    <2>1. /\ all \in Seq(Steps) /\ Len(all) = Len(steps) + Len(save)
          /\ \A i \in 1..Len(steps) : all[i] = steps[i]
          /\ \A i \in 1..Len(save) : all[Len(steps) + i] = save[i]
      BY <1>1, Concatenation
    <2>2. QED
      BY <1>1, <2>1
  <1>3. \A i \in 1..Len(all) : i \in 1..Len(steps) \/ (i > Len(steps) /\ i - Len(steps) \in 1..5)
    BY <1>1, <1>2
  <1>4. ASSUME NEW i \in 1..Len(all), i > Len(steps)
        PROVE  all[i].name = "save" /\ ~all[i].tolerated
    <2>1. i - Len(steps) \in 1..5 /\ Len(steps) + (i - Len(steps)) = i
      BY <1>1, <1>3, <1>4
    <2>2. all[i] = save[i - Len(steps)]
      BY <1>2, <2>1
    <2>3. QED
      BY <2>1, <2>2, SaveSteps
  <1> HIDE DEF all
  <1>5. ASSUME NEW i \in 1..Len(all)
        PROVE  /\ all[i].name # "return"
               /\ all[i].name = "alloc" /\ all[i].tolerated =>
                     i < Len(all) /\ all[i + 1].name = "row"
               /\ all[i].name = "row" => all[i].table \in RowTables
               /\ all[i].name = "row" /\ i > 1 => all[i - 1].name = "alloc"
               /\ all[i].tolerated => all[i].name \in {"alloc", "row"}
               /\ all[i].name = "remove" => i = 2 /\ all[1].name = "reset"
    <2>1. CASE i > Len(steps)
      BY <1>4, <2>1
    <2>2. CASE i \in 1..Len(steps)
      <3>1. all[i] = steps[i]
        BY <1>2, <2>2
      <3>2. i < Len(steps) => i + 1 \in 1..Len(steps) /\ all[i + 1] = steps[i + 1]
        BY <1>1, <1>2, <2>2
      <3>3. ASSUME i > 1
            PROVE  i - 1 \in 1..Len(steps) /\ all[i - 1] = steps[i - 1]
        <4>1. i - 1 \in 1..Len(steps)
          BY <1>1, <2>2, <3>3
        <4>2. QED
          BY <1>2, <4>1
      <3>4. 1 \in 1..Len(steps) /\ all[1] = steps[1] /\ i <= Len(steps) /\ Len(steps) < Len(all)
        BY <1>1, <1>2, <2>2
      <3>5. i < Len(all)
        BY <1>1, <2>2, <3>4
      <3>6. QED
        BY <2>2, <3>1, <3>2, <3>3, <3>4, <3>5 DEF Body
    <2>3. QED
      BY <1>3, <2>1, <2>2
  <1>6. Body(all)
    BY <1>2, <1>5 DEF Body
  <1>7. QED
    BY <1>6 DEF all

LEMMA StepFields ==
  \A name, t : LET step == Step(name, t) IN
     /\ step.name = name /\ step.table = t /\ step.tolerated = FALSE
     /\ t \in Tables /\ name \in {"alloc", "row", "save", "replace", "reset", "remove", "return"} =>
           step \in Steps /\ [step EXCEPT !.tolerated = TRUE] \in Steps
  BY DEF Step, Steps

LEMMA SingleStep ==
  ASSUME NEW step \in Steps
  PROVE  <<step>> \in Seq(Steps) /\ Len(<<step>>) = 1 /\ <<step>>[1] = step
  OBVIOUS

LEMMA TwoSteps ==
  ASSUME NEW first \in Steps, NEW second \in Steps
  PROVE  <<first, second>> \in Seq(Steps) /\ Len(<<first, second>>) = 2
  OBVIOUS

LEMMA StepsOfFunction ==
  ASSUME NEW n \in Nat, NEW f \in [1..n -> Steps]
  PROVE  f \in Seq(Steps) /\ Len(f) = n
  OBVIOUS

LEMMA StepsAreFunctions ==
  ASSUME NEW s \in Seq(Steps)
  PROVE  Len(s) \in Nat /\ s \in [1..Len(s) -> Steps] /\ DOMAIN s = 1..Len(s)
  OBVIOUS

LEMMA TransactionSteps ==
  ASSUME NEW t \in RowTables
  PROVE  /\ Transaction(t) \in Seq(Steps) /\ Len(Transaction(t)) = 2
         /\ Transaction(t)[1] = Step("alloc", "tx")
         /\ Transaction(t)[2] = Step("row", t)
  <1>1. Step("alloc", "tx") \in Steps /\ Step("row", t) \in Steps
    BY StepFields, OrderTables
  <1> DEFINE a == <<Step("alloc", "tx")>>
             b == <<Step("row", t)>>
  <1>2. a \in Seq(Steps) /\ Len(a) = 1 /\ a[1] = Step("alloc", "tx")
        /\ b \in Seq(Steps) /\ Len(b) = 1 /\ b[1] = Step("row", t)
    BY <1>1, SingleStep
  <1>3. Transaction(t) = a \o b
    BY DEF Transaction, alloc_tx
  <1> HIDE DEF a, b
  <1>4. /\ a \o b \in Seq(Steps) /\ Len(a \o b) = Len(a) + Len(b)
        /\ \A i \in 1..Len(a) : (a \o b)[i] = a[i]
        /\ \A i \in 1..Len(b) : (a \o b)[Len(a) + i] = b[i]
    BY <1>2, Concatenation
  <1>5. QED
    BY <1>2, <1>3, <1>4

LEMMA OperationBodies == \A steps \in Operations : Body(steps)
  <1>1. "fact" \in RowTables /\ "branch" \in RowTables /\ "tx" \in Tables /\ "branch" \in Tables
    BY OrderTables
  <1>2. ASSUME NEW t \in RowTables
        PROVE  Body(Transaction(t))
    <2> DEFINE s == Transaction(t)
    <2>1. s \in Seq(Steps) /\ Len(s) = 2
          /\ s[1].name = "alloc" /\ ~s[1].tolerated
          /\ s[2].name = "row" /\ ~s[2].tolerated /\ s[2].table = t
      BY TransactionSteps, StepFields
    <2> HIDE DEF s
    <2>2. \A i \in 1..Len(s) : i = 1 \/ (i = 2 /\ i - 1 = 1)
      BY <2>1
    <2>3. Body(s)
      BY <2>1, <2>2 DEF Body
    <2>4. QED
      BY <2>3 DEF s
  <1>3. ASSUME NEW name \in {"row", "replace", "alloc"}, NEW t \in Tables, name = "row" => t \in RowTables
        PROVE  Body(<<Step(name, t)>>)
    <2> DEFINE s == <<Step(name, t)>>
    <2>1. s \in Seq(Steps) /\ Len(s) = 1
          /\ s[1].name = name /\ ~s[1].tolerated /\ s[1].table = t
      <3> DEFINE a == Step(name, t)
      <3>1. a \in Steps /\ a.name = name /\ ~a.tolerated /\ a.table = t
        BY StepFields
      <3> HIDE DEF a
      <3>2. <<a>> \in Seq(Steps) /\ Len(<<a>>) = 1 /\ <<a>>[1] = a
        BY <3>1, SingleStep
      <3>3. QED
        BY <3>1, <3>2 DEF a
    <2> HIDE DEF s
    <2>2. \A i \in 1..Len(s) : i = 1
      BY <2>1
    <2>3. Body(s)
      BY <1>3, <2>1, <2>2 DEF Body
    <2>4. QED
      BY <2>3 DEF s
  <1>4. Body(merge_branch)
    <2> DEFINE a == Transaction("fact")
               b == <<Step("alloc", "tx")>>
               s == a \o b
    <2>1. /\ a \in Seq(Steps) /\ Len(a) = 2 /\ a[1] = Step("alloc", "tx") /\ a[2] = Step("row", "fact")
          /\ b \in Seq(Steps) /\ Len(b) = 1 /\ b[1] = Step("alloc", "tx")
      BY <1>1, TransactionSteps, SingleStep, StepFields
    <2>2. merge_branch = s
      BY DEF merge_branch, alloc_tx
    <2> HIDE DEF a, b
    <2>3. /\ s \in Seq(Steps) /\ Len(s) = Len(a) + Len(b)
          /\ \A i \in 1..Len(a) : s[i] = a[i]
          /\ \A i \in 1..Len(b) : s[Len(a) + i] = b[i]
      BY <2>1, Concatenation
    <2> HIDE DEF s
    <2>4. s \in Seq(Steps) /\ Len(s) = 3 /\ s[1] = Step("alloc", "tx")
          /\ s[2] = Step("row", "fact") /\ s[3] = Step("alloc", "tx")
      BY <2>1, <2>3
    <2>5. /\ s[1].name = "alloc" /\ ~s[1].tolerated
          /\ s[2].name = "row" /\ ~s[2].tolerated /\ s[2].table = "fact"
          /\ s[3].name = "alloc" /\ ~s[3].tolerated
      BY <2>4, StepFields
    <2>6. \A i \in 1..Len(s) : i = 1 \/ (i = 2 /\ i - 1 = 1) \/ i = 3
      BY <2>4
    <2>7. Body(s)
      BY <1>1, <2>4, <2>5, <2>6 DEF Body
    <2>8. QED
      BY <2>2, <2>7
  <1>5. Body(wipe)
    <2> DEFINE s == <<Step("reset", "tx"), Step("remove", "tx")>>
    <2>1. s \in Seq(Steps) /\ Len(s) = 2
      <3>1. Step("reset", "tx") \in Steps /\ Step("remove", "tx") \in Steps
        BY <1>1, StepFields
      <3>2. QED
        BY <3>1, TwoSteps
    <2>2. /\ s[1].name = "reset" /\ ~s[1].tolerated
          /\ s[2].name = "remove" /\ ~s[2].tolerated
      BY StepFields
    <2>3. wipe = s
      BY DEF wipe
    <2> HIDE DEF s
    <2>4. \A i \in 1..Len(s) : i = 1 \/ i = 2
      BY <2>1
    <2>5. Body(s)
      BY <2>1, <2>2, <2>4 DEF Body
    <2>6. QED
      BY <2>3, <2>5
  <1>6. Body(retract_all)
    <2> DEFINE a == Transaction("fact")
               plain == a \o a
               s == retract_all
    <2>1. /\ a \in Seq(Steps) /\ Len(a) = 2 /\ a[1] = Step("alloc", "tx") /\ a[2] = Step("row", "fact")
      BY <1>1, TransactionSteps
    <2>2. retract_all = Tolerated(plain)
      BY DEF retract_all
    <2> HIDE DEF a
    <2>3. /\ plain \in Seq(Steps) /\ Len(plain) = Len(a) + Len(a)
          /\ \A i \in 1..Len(a) : plain[i] = a[i]
          /\ \A i \in 1..Len(a) : plain[Len(a) + i] = a[i]
      BY <2>1, Concatenation
    <2> HIDE DEF plain
    <2>4. plain \in Seq(Steps) /\ Len(plain) = 4
          /\ plain[1] = Step("alloc", "tx") /\ plain[2] = Step("row", "fact")
          /\ plain[3] = Step("alloc", "tx") /\ plain[4] = Step("row", "fact")
      BY <2>1, <2>3
    <2>5. DOMAIN plain = 1..4 /\ \A i \in 1..4 : plain[i] \in Steps
      BY <2>4, StepsAreFunctions
    <2>6. \A step \in Steps :
             /\ [step EXCEPT !.tolerated = TRUE] \in Steps
             /\ [step EXCEPT !.tolerated = TRUE].name = step.name
             /\ [step EXCEPT !.tolerated = TRUE].table = step.table
      BY DEF Steps
    <2>7. s = [i \in 1..4 |-> [plain[i] EXCEPT !.tolerated = TRUE]]
      BY <2>2, <2>5 DEF Tolerated
    <2> HIDE DEF s
    <2>8. s \in Seq(Steps) /\ Len(s) = 4
          /\ \A i \in 1..4 : s[i].name = plain[i].name /\ s[i].table = plain[i].table
      <3>1. s \in [1..4 -> Steps]
        BY <2>5, <2>6, <2>7
      <3>2. s \in Seq(Steps) /\ Len(s) = 4
        BY <3>1, StepsOfFunction
      <3>3. QED
        BY <2>5, <2>6, <2>7, <3>2
    <2>9. /\ s[1].name = "alloc" /\ s[2].name = "row" /\ s[2].table = "fact"
          /\ s[3].name = "alloc" /\ s[4].name = "row" /\ s[4].table = "fact"
      BY <2>4, <2>8, StepFields
    <2>10. \A i \in 1..Len(s) : \/ i = 1 /\ i + 1 = 2
                                \/ i = 2 /\ i - 1 = 1
                                \/ i = 3 /\ i + 1 = 4
                                \/ i = 4 /\ i - 1 = 3
      BY <2>8
    <2>11. Body(s)
      BY <1>1, <2>8, <2>9, <2>10 DEF Body
    <2>12. QED
      BY <2>11 DEF s
  <1>7. Body(Unlogged)
    BY <1>1, <1>3 DEF Unlogged
  <1>8. Body(eval_assert)
    BY <1>1, <1>2, SavesAfterBody DEF eval_assert
  <1>9. Body(replace_state)
    BY <1>1, <1>3, SavesAfterBody DEF replace_state
  <1>10. QED
    BY <1>2, <1>4, <1>5, <1>6, <1>7, <1>8, <1>9 DEF Operations

LEMMA OperationsPlanned ==
  ASSUME NEW steps \in Operations, NEW plan, plan = steps \o save \o <<Step("return", "tx")>>
  PROVE  /\ Planned(plan)
         /\ plan # <<>>
         /\ \A t \in Tables : \E k \in 1..Len(plan) : Saves(plan, k, t)
         /\ \A i \in 1..Len(plan) : plan[i].name = "remove" => i = 2 /\ plan[1].name = "reset"
  <1> DEFINE body == steps \o save
             n == Len(body)
             done == <<Step("return", "tx")>>
  <1>1. Body(steps) /\ Body(body)
    BY OperationBodies, SavesAfterBody
  <1>2. done \in Seq(Steps) /\ Len(done) = 1 /\ done[1] = Step("return", "tx")
    BY OrderTables DEF Step, Steps
  <1>3. body \in Seq(Steps) /\ n \in Nat
    BY <1>1 DEF Body
  <1>4. /\ plan \in Seq(Steps) /\ Len(plan) = n + 1
        /\ \A i \in 1..n : plan[i] = body[i]
        /\ plan[n + 1] = Step("return", "tx")
    <2>1. plan = body \o done
      OBVIOUS
    <2>2. /\ body \o done \in Seq(Steps) /\ Len(body \o done) = Len(body) + Len(done)
          /\ \A i \in 1..Len(body) : (body \o done)[i] = body[i]
          /\ \A i \in 1..Len(done) : (body \o done)[Len(body) + i] = done[i]
      BY <1>2, <1>3, Concatenation
    <2>3. QED
      BY <1>2, <2>1, <2>2
  <1>5. /\ Len(steps) \in Nat /\ n = Len(steps) + 5
        /\ \A i \in 1..5 : body[Len(steps) + i] = save[i]
    <2>1. steps \in Seq(Steps) /\ save \in Seq(Steps) /\ Len(save) = 5
      BY <1>1, SaveSteps DEF Body
    <2>2. /\ Len(body) = Len(steps) + Len(save)
          /\ \A i \in 1..Len(save) : body[Len(steps) + i] = save[i]
      BY <2>1, Concatenation
    <2>3. QED
      BY <2>1, <2>2
  <1> DEFINE m == Len(steps)
  <1> HIDE DEF body, n, done, m
  <1>6. m \in Nat /\ n = m + 5 /\ n \in Nat
    BY <1>3, <1>5 DEF m
  <1>7. \A i \in 1..5 : m + i \in 1..n /\ plan[m + i] = save[i]
    BY <1>4, <1>5, <1>6 DEF m
  <1>8. ASSUME NEW j \in (m + 1)..(n + 1)
        PROVE  /\ plan[j].name \in {"save", "return"} /\ ~plan[j].tolerated
               /\ plan[j].name = "return" => j = n + 1
    <2>1. CASE j = n + 1
      BY <1>4, <2>1 DEF Step
    <2>2. CASE j # n + 1
      <3>1. j - m \in 1..5 /\ m + (j - m) = j
        BY <1>6, <2>2
      <3>2. plan[j] = save[j - m]
        BY <1>7, <3>1
      <3>3. QED
        BY <3>1, <3>2, SaveSteps
    <2>3. QED
      BY <2>1, <2>2
  <1>9. ASSUME NEW t \in Tables
        PROVE  \E k \in (m + 1)..n : Saves(plan, k, t)
    <2>1. PICK i \in 1..5 : save[i].table = t
      BY SaveSteps
    <2>2. m + i \in (m + 1)..n
      BY <1>6
    <2>3. plan[m + i] = save[i] /\ save[i].name = "save"
      BY <1>7, SaveSteps
    <2>4. \A j \in (m + i)..Len(plan) : plan[j].name \in {"save", "return"}
      BY <1>4, <1>6, <1>8
    <2>5. QED
      BY <2>1, <2>2, <2>3, <2>4 DEF Saves
  <1>10. \A i \in 1..Len(plan) : i \in 1..m \/ i \in (m + 1)..(n + 1)
    BY <1>4, <1>6
  <1>11. \A i \in 1..m : i \in 1..n /\ plan[i] = body[i]
    BY <1>4, <1>6
  <1>12. ASSUME NEW i \in 1..Len(plan)
         PROVE  /\ plan[i].name = "return" => i = Len(plan)
                /\ plan[i].name \notin {"save", "return"} =>
                      \A t \in Tables : \E k \in (i + 1)..Len(plan) : Saves(plan, k, t)
                /\ plan[i].name = "alloc" => i < Len(plan)
                /\ plan[i].name = "alloc" /\ plan[i].tolerated => plan[i + 1].name = "row"
                /\ plan[i].name = "row" => plan[i].table \in RowTables
                /\ plan[i].name = "row" /\ i > 1 => plan[i - 1].name = "alloc"
                /\ plan[i].tolerated => plan[i].name \in {"alloc", "row"}
                /\ plan[i].name = "remove" => i = 2 /\ plan[1].name = "reset"
    <2>1. CASE i \in (m + 1)..(n + 1)
      BY <1>4, <1>8, <2>1
    <2>2. CASE i \in 1..m
      <3>1. plan[i] = body[i] /\ i \in 1..n /\ i < n /\ i < Len(plan)
        BY <1>4, <1>6, <1>11, <2>2
      <3>3. ASSUME NEW t \in Tables
            PROVE  \E k \in (i + 1)..Len(plan) : Saves(plan, k, t)
        <4>1. PICK k \in (m + 1)..n : Saves(plan, k, t)
          BY <1>9
        <4>2. k \in (i + 1)..Len(plan)
          BY <1>4, <1>6, <2>2
        <4>3. QED
          BY <4>1, <4>2
      <3>4. i + 1 \in 1..n /\ plan[i + 1] = body[i + 1]
        BY <1>4, <1>6, <3>1
      <3>5. i > 1 => i - 1 \in 1..n /\ plan[i - 1] = body[i - 1]
        BY <1>4, <1>6, <3>1
      <3>6. 1 \in 1..n /\ plan[1] = body[1]
        BY <1>4, <1>6
      <3>7. /\ plan[i].name # "return"
            /\ plan[i].name = "row" => plan[i].table \in RowTables
            /\ plan[i].tolerated => plan[i].name \in {"alloc", "row"}
            /\ plan[i].name = "remove" => i = 2 /\ plan[1].name = "reset"
        <4>1. /\ body[i].name # "return"
              /\ body[i].name = "row" => body[i].table \in RowTables
              /\ body[i].tolerated => body[i].name \in {"alloc", "row"}
              /\ body[i].name = "remove" => i = 2 /\ body[1].name = "reset"
          BY <1>1, <3>1 DEF Body, n
        <4>2. QED
          BY <3>1, <3>6, <4>1
      <3>8. plan[i].name = "alloc" /\ plan[i].tolerated => plan[i + 1].name = "row"
        <4>1. plan[i].name = "alloc" /\ plan[i].tolerated => i < n /\ body[i + 1].name = "row"
          BY <1>1, <3>1 DEF Body, n
        <4>2. QED
          BY <3>4, <4>1
      <3>9. plan[i].name = "row" /\ i > 1 => plan[i - 1].name = "alloc"
        BY <1>1, <3>1, <3>5 DEF Body, n
      <3>10. QED
        BY <3>1, <3>3, <3>7, <3>8, <3>9
    <2>3. QED
      BY <1>10, <2>1, <2>2
  <1>13. Planned(plan)
    BY <1>4, <1>12 DEF Planned
  <1>14. \A t \in Tables : \E k \in 1..Len(plan) : Saves(plan, k, t)
    <2>1. \A k \in (m + 1)..n : k \in 1..Len(plan)
      BY <1>4, <1>6
    <2>2. QED
      BY <1>9, <2>1
  <1>15. plan # <<>>
    BY <1>4, <1>6
  <1>16. QED
    BY <1>12, <1>13, <1>14, <1>15

LEMMA TailSteps ==
  ASSUME NEW steps \in Seq(Steps), steps # <<>>
  PROVE  /\ Tail(steps) \in Seq(Steps) /\ Len(Tail(steps)) = Len(steps) - 1
         /\ \A i \in 1..Len(Tail(steps)) : Tail(steps)[i] = steps[i + 1]
         /\ Len(steps) \in Nat \ {0} /\ Head(steps) = steps[1] /\ 1 \in 1..Len(steps)
  OBVIOUS

LEMMA SkippedSteps ==
  ASSUME NEW steps \in Seq(Steps), Len(steps) > 1
  PROVE  /\ SubSeq(steps, 3, Len(steps)) \in Seq(Steps)
         /\ Len(SubSeq(steps, 3, Len(steps))) = Len(steps) - 2
         /\ \A i \in 1..Len(SubSeq(steps, 3, Len(steps))) : SubSeq(steps, 3, Len(steps))[i] = steps[i + 2]
  <1> DEFINE n == Len(steps)
             rest == SubSeq(steps, 3, n)
  <1>1. n \in Nat /\ n > 1 /\ \A i \in 3..n : steps[i] \in Steps
    OBVIOUS
  <1>2. /\ rest \in Seq(Steps)
        /\ Len(rest) = IF 3 <= n THEN n - 3 + 1 ELSE 0
        /\ \A i \in 1..(n - 3 + 1) : rest[i] = steps[3 + i - 1]
    BY <1>1, SubSeqProperties
  <1> HIDE DEF n, rest
  <1>3. Len(rest) = n - 2
    BY <1>1, <1>2
  <1>4. ASSUME NEW i \in 1..Len(rest)
        PROVE  rest[i] = steps[i + 2]
    <2>1. i \in 1..(n - 3 + 1) /\ 3 + i - 1 = i + 2
      BY <1>1, <1>3
    <2>2. QED
      BY <1>2, <2>1
  <1>5. QED
    BY <1>2, <1>3, <1>4 DEF n, rest

LEMMA NothingPlanned == Planned(<<>>)
  <1>1. <<>> \in Seq(Steps) /\ Len(<<>>) = 0
    OBVIOUS
  <1>2. QED
    BY <1>1 DEF Planned

\* A step done, an operation ended or a transaction skipped: what is left is a plan, and only
\* a save that was done is no longer among it.
LEMMA Progress ==
  ASSUME Planned(todo), todo # <<>>, faults \in Nat, Advance \/ Fail
  PROVE  /\ Planned(todo') /\ faults' \in Nat
         /\ Head(todo).name \notin {"save", "return"} =>
               (todo' # <<>> => \A t \in Tables : \E k \in 1..Len(todo') : Saves(todo', k, t))
         /\ todo' # <<>> =>
               \A t \in Tables : \A k \in 1..Len(todo) :
                  Saves(todo, k, t) /\ ~(Head(todo).name = "save" /\ Head(todo).table = t) =>
                     \E l \in 1..Len(todo') : Saves(todo', l, t)
         /\ Head(todo).name = "return" =>
               todo' = <<>> /\ \A t \in Tables : \A k \in 1..Len(todo) : ~Saves(todo, k, t)
         /\ At("row")' => At("alloc") /\ Advance
         /\ \A i \in 1..Len(todo') : \E j \in 2..Len(todo) : todo'[i] = todo[j]
         /\ todo[1] = Head(todo) /\ Head(todo) \in Steps
  <1> DEFINE n == IF Fail /\ Head(todo).name = "alloc" THEN 2 ELSE 1
  <1>1. /\ todo \in Seq(Steps) /\ Len(todo) \in Nat \ {0}
        /\ Head(todo) = todo[1] /\ 1 \in 1..Len(todo) /\ todo[1] \in Steps
    BY TailSteps DEF Planned
  <1>2. /\ n \in {1, 2} /\ n \in Nat
        /\ \A i \in 1..Len(todo) : todo[i].name = "return" => i = Len(todo)
    BY DEF Planned
  <1>3. faults' \in Nat
    BY DEF Advance, Fail
  <1>4. Fail /\ Head(todo).name = "alloc" /\ Head(todo).tolerated => Len(todo) > 1 /\ todo[2].name = "row"
    <2>1. todo[1].name = "alloc" => 1 < Len(todo)
      BY <1>1 DEF Planned
    <2>2. todo[1].name = "alloc" /\ todo[1].tolerated => todo[1 + 1].name = "row"
      BY <1>1 DEF Planned
    <2>3. QED
      BY <1>1, <2>1, <2>2
  <1>5. \/ todo' = <<>>
        \/ /\ todo' \in Seq(Steps) /\ Len(todo') = Len(todo) - n
           /\ \A i \in 1..Len(todo') : todo'[i] = todo[i + n]
           /\ n = 2 => todo[2].name = "row" /\ Head(todo).name = "alloc"
           /\ Head(todo).name = "alloc" /\ n = 1 => Advance
    <2>1. CASE Advance
      <3>1. ~Fail
        BY <2>1 DEF Advance, Fail
      <3>2. QED
        BY <1>1, <2>1, <3>1, TailSteps DEF Advance
    <2>2. CASE Fail
      <3>1. CASE ~Head(todo).tolerated
        BY <2>2, <3>1 DEF Fail
      <3>2. CASE Head(todo).tolerated /\ Head(todo).name = "alloc"
        BY <1>1, <1>4, <2>2, <3>2, SkippedSteps DEF Fail
      <3>3. CASE Head(todo).tolerated /\ Head(todo).name # "alloc"
        BY <1>1, <2>2, <3>3, TailSteps DEF Fail
      <3>4. QED
        BY <3>1, <3>2, <3>3
    <2>3. QED
      BY <2>1, <2>2
  <1> HIDE DEF n
  <1>6. CASE todo' = <<>>
    <2>1. Len(todo') = 0 /\ ~At("row")'
      BY <1>6 DEF At
    <2>2. Planned(todo')
      BY <1>6, NothingPlanned
    <2>3. Head(todo).name = "return" => Len(todo) = 1
      BY <1>1, <1>2
    <2>4. Head(todo).name = "return" => \A t \in Tables : \A k \in 1..Len(todo) : ~Saves(todo, k, t)
      BY <1>1, <2>3 DEF Saves
    <2>5. QED
      BY <1>1, <1>3, <1>6, <2>1, <2>2, <2>4
  <1>7. CASE todo' # <<>>
    <2>1. /\ todo' \in Seq(Steps) /\ Len(todo') = Len(todo) - n /\ Len(todo') \in Nat \ {0}
          /\ \A i \in 1..Len(todo') : todo'[i] = todo[i + n]
          /\ n = 2 => todo[2].name = "row" /\ Head(todo).name = "alloc"
          /\ Head(todo).name = "alloc" /\ n = 1 => Advance
      BY <1>5, <1>7
    <2>2. /\ Planned(todo')
          /\ \A t \in Tables : \A k \in 1..Len(todo) :
                k > n /\ Saves(todo, k, t) => k - n \in 1..Len(todo') /\ Saves(todo', k - n, t)
      BY <1>2, <2>1, SuffixPlanned
    <2>3. ASSUME NEW t \in Tables, NEW k \in 1..Len(todo), Saves(todo, k, t),
                 ~(Head(todo).name = "save" /\ Head(todo).table = t)
          PROVE  \E l \in 1..Len(todo') : Saves(todo', l, t)
      <3>1. k # 1
        BY <1>1, <2>3 DEF Saves
      <3>2. n = 2 => k # 2
        BY <2>1, <2>3 DEF Saves
      <3>3. k > n
        BY <1>1, <1>2, <3>1, <3>2
      <3>4. QED
        BY <2>2, <2>3, <3>3
    <2>4. ASSUME Head(todo).name \notin {"save", "return"}, NEW t \in Tables
          PROVE  \E k \in 1..Len(todo') : Saves(todo', k, t)
      <3>1. PICK k \in (1 + 1)..Len(todo) : Saves(todo, k, t)
        BY <1>1, <2>4 DEF Planned
      <3>2. k \in 1..Len(todo)
        BY <1>1
      <3>3. QED
        BY <2>3, <2>4, <3>1, <3>2
    <2>5. Head(todo).name # "return"
      <3>1. Head(todo).name = "return" => Len(todo) = 1
        BY <1>1, <1>2
      <3>2. QED
        BY <1>1, <1>2, <2>1, <3>1
    <2>6. \A i \in 1..Len(todo') : i + n \in 2..Len(todo)
      BY <1>1, <1>2, <2>1
    <2>7. At("row")' => At("alloc") /\ Advance
      <3>1. SUFFICES ASSUME At("row")'
                     PROVE  At("alloc") /\ Advance
        OBVIOUS
      <3>2. 1 \in 1..Len(todo') /\ Head(todo') = todo'[1]
        BY <2>1, TailSteps, <1>7
      <3>3. todo[1 + n].name = "row" /\ 1 + n \in 2..Len(todo)
        BY <2>1, <2>6, <3>1, <3>2 DEF At
      <3>4. 1 + n \in 1..Len(todo) /\ 1 + n > 1
        BY <1>1, <3>3
      <3>5. todo[(1 + n) - 1].name = "alloc"
        BY <3>3, <3>4 DEF Planned
      <3>6. n = 1
        BY <1>2, <2>1, <3>5
      <3>7. QED
        BY <1>1, <2>1, <3>5, <3>6 DEF At
    <2>8. QED
      BY <1>1, <1>3, <2>1, <2>2, <2>3, <2>4, <2>5, <2>6, <2>7
  <1>8. QED
    BY <1>6, <1>7

-----------------------------------------------------------------------------
(* Steps that add to the brain and save a table *)

LEMMA EmptyTables ==
  /\ Empty \in [Tables -> Seq(Entry)]
  /\ \A t \in Tables : Empty[t] = <<>> /\ ToSet(Empty[t]) = {}
  /\ Ascending(<<>>) /\ NextId(<<>>) = 1
  /\ Closed.tables = Empty /\ Closed.next = 0
  /\ Closed \in Brains
  BY ToSetOfEmpty DEF Empty, Closed, Ascending, NextId, Brains

LEMMA OpenBrainCounts ==
  ASSUME Typed, Numbered, brain # Closed
  PROVE  /\ brain.next \in Nat \ {0}
         /\ \A e \in ToSet(brain.tables["tx"]) : e.id < brain.next
  <1>1. brain.tables["tx"] \in Seq(Entry)
    BY OrderTables DEF Typed, Brains
  <1>2. QED
    BY <1>1, NextIdIsNew DEF Numbered

\* What transaction id leaves, of the operation under way.
EntryOf(id) == [id |-> id, op |-> op]

\* What a row of the running operation adds to a brain.
Appended(b, table, id, e, c) ==
    /\ e \in Entry /\ e.id = id /\ e.op = op
    /\ c \in Brains /\ c.next = b.next
    /\ c.tables[table] = Append(b.tables[table], e)
    /\ \A x : x \in ToSet(c.tables[table]) <=> x \in ToSet(b.tables[table]) \/ x = e
    /\ \A t \in Tables : t # table => c.tables[t] = b.tables[t]

LEMMA PushedTables ==
  ASSUME NEW b \in Brains, NEW table \in Tables,
         NEW id \in Nat, op \in Nat
  PROVE  Appended(b, table, id, EntryOf(id), Pushed(b, table, id))
  <1> DEFINE e == EntryOf(id)
  <1>1. e \in Entry /\ e.id = id /\ e.op = op
    BY DEF Entry, EntryOf
  <1>2. b.tables \in [Tables -> Seq(Entry)] /\ b.tables[table] \in Seq(Entry)
    BY DEF Brains
  <1>3. Append(b.tables[table], e) \in Seq(Entry)
        /\ ToSet(Append(b.tables[table], e)) = ToSet(b.tables[table]) \union {e}
    BY <1>1, <1>2, AppendSet
  <1> DEFINE tables == [b.tables EXCEPT ![table] = Append(@, e)]
  <1>4. Pushed(b, table, id) = [b EXCEPT !.tables = tables]
    BY DEF Pushed, EntryOf
  <1>5. tables \in [Tables -> Seq(Entry)] /\ tables[table] = Append(b.tables[table], e)
        /\ \A t \in Tables : t # table => tables[t] = b.tables[t]
    BY <1>2, <1>3
  <1> HIDE DEF tables
  <1>6. Pushed(b, table, id) \in Brains
        /\ Pushed(b, table, id).next = b.next
        /\ Pushed(b, table, id).tables = tables
    BY <1>4, <1>5 DEF Brains
  <1> DEFINE c == Pushed(b, table, id)
  <1> HIDE DEF c, e
  <1>7. c \in Brains /\ c.next = b.next /\ c.tables = tables
    BY <1>6 DEF c
  <1>8. \A x : x \in ToSet(c.tables[table]) <=> x \in ToSet(b.tables[table]) \/ x = e
    BY <1>3, <1>5, <1>7
  <1>9. Appended(b, table, id, e, c)
    BY <1>1, <1>5, <1>7, <1>8 DEF Appended
  <1>10. QED
    BY <1>9 DEF c, e

LEMMA SavedTable ==
  ASSUME NEW table \in Tables, NEW b \in Brains,
         disk \in [Tables -> Seq(Entry)], faults \in Nat,
         Saving(table, b)
  PROVE  /\ Advance \/ Fail
         /\ disk' \in [Tables -> Seq(Entry)]
         /\ \A t \in Tables : t # table => disk'[t] = disk[t]
         /\ disk'[table] = disk[table] \/ disk'[table] = b.tables[table]
         /\ Advance => disk'[table] = b.tables[table]
  <1>1. ~(Advance /\ Fail)
    BY DEF Advance, Fail
  <1>2. b.tables[table] \in Seq(Entry)
    BY DEF Brains
  <1>3. \/ disk' = [disk EXCEPT ![table] = b.tables[table]] /\ (Advance \/ Fail)
        \/ disk' = disk /\ Fail
    BY DEF Saving
  <1>4. QED
    BY <1>1, <1>2, <1>3

\* Whatever only adds to the brain, and saves of it what it saves, keeps what was acknowledged.
LEMMA AddingKeepsAcknowledged ==
  ASSUME StoreInv, brain # Closed,
         \A t \in Tables : ToSet(brain.tables[t]) \subseteq ToSet(brain'.tables[t]),
         \A t \in Tables : disk'[t] = disk[t] \/ disk'[t] = brain'.tables[t],
         acked' = acked, unread' = unread
  PROVE  AcknowledgedIsKept'
  <1>1. SUFFICES ASSUME NEW a \in acked, a.table \notin unread
                 PROVE  a.entry \in ToSet(disk'[a.table]) /\ a.entry \in ToSet(brain'.tables[a.table])
    BY DEF AcknowledgedIsKept
  <1>2. a.table \in Tables
    BY DEF StoreInv, Typed
  <1>3. a.entry \in ToSet(disk[a.table]) /\ a.entry \in ToSet(brain.tables[a.table])
    BY <1>1 DEF StoreInv, AcknowledgedIsKept
  <1>4. QED
    BY <1>2, <1>3

\* It keeps rows beside their transactions if its own row has one on disk.
LEMMA AddingKeepsCovered ==
  ASSUME StoreInv, brain # Closed,
         \A t \in Tables : ToSet(brain.tables[t]) \subseteq ToSet(brain'.tables[t]),
         \A t \in Tables : disk'[t] = disk[t] \/ disk'[t] = brain'.tables[t],
         \A t \in RowTables : \A e \in ToSet(brain'.tables[t]) :
            e.id # 0 /\ e \notin ToSet(brain.tables[t]) =>
               e \in ToSet(brain'.tables["tx"]) /\ e \in ToSet(disk'["tx"]),
         mixed' = mixed, torn' = torn
  PROVE  Covered'
  <1>1. RowTables \subseteq Tables /\ "tx" \in Tables
    BY OrderTables DEF RowTables
  <1>2. ASSUME ~torn
        PROVE  RowsIn(brain'.tables, brain'.tables["tx"])
    BY <1>1, <1>2 DEF StoreInv, Covered, RowsIn
  <1>3. ASSUME ~torn, ~mixed
        PROVE  /\ RowsIn(disk', disk'["tx"])
               /\ RowsIn(brain'.tables, disk'["tx"])
               /\ ToSet(disk'["tx"]) \subseteq ToSet(brain'.tables["tx"])
    <2>1. /\ RowsIn(disk, disk["tx"]) /\ RowsIn(brain.tables, disk["tx"])
          /\ ToSet(disk["tx"]) \subseteq ToSet(brain.tables["tx"])
      BY <1>3 DEF StoreInv, Covered
    <2>2. /\ ToSet(disk["tx"]) \subseteq ToSet(disk'["tx"])
          /\ ToSet(disk'["tx"]) \subseteq ToSet(brain'.tables["tx"])
      BY <1>1, <2>1
    <2>3. RowsIn(brain'.tables, disk'["tx"])
      BY <1>1, <2>1, <2>2 DEF RowsIn
    <2>4. RowsIn(disk', disk'["tx"])
      BY <1>1, <2>1, <2>2, <2>3 DEF RowsIn
    <2>5. QED
      BY <2>2, <2>3, <2>4
  <1>4. QED
    BY <1>2, <1>3 DEF Covered

\* What a step that adds to the brain leaves to do, and the clauses that need no more than that.
LEMMA OwedAfterWork ==
  ASSUME StoreInv, todo # <<>>, Advance \/ Fail,
         Head(todo).name \in {"alloc", "row", "save", "replace", "remove"} \/ (acked' = {} /\ mixed'),
         (acked' = acked /\ mixed' = mixed) \/ (acked' = {} /\ mixed'),
         Head(todo).name # "return",
         Head(todo).name = "save" => \A t \in Tables :
            /\ brain'.tables[t] = brain.tables[t]
            /\ t # Head(todo).table => disk'[t] = disk[t]
            /\ t = Head(todo).table /\ todo' # <<>> => disk'[t] = brain'.tables[t],
         At("alloc") /\ Advance => disk'["tx"] = brain'.tables["tx"]
  PROVE  SavesOwed' /\ faults' \in Nat
  <1>1. Planned(todo) /\ faults \in Nat /\ RemovalPromisesNothing
    BY DEF StoreInv, SavesOwed, Typed
  <1>2. /\ Planned(todo') /\ faults' \in Nat
        /\ Head(todo).name \notin {"save", "return"} =>
              (todo' # <<>> => \A t \in Tables : \E k \in 1..Len(todo') : Saves(todo', k, t))
        /\ todo' # <<>> =>
              \A t \in Tables : \A k \in 1..Len(todo) :
                 Saves(todo, k, t) /\ ~(Head(todo).name = "save" /\ Head(todo).table = t) =>
                    \E l \in 1..Len(todo') : Saves(todo', l, t)
        /\ At("row")' => At("alloc") /\ Advance
        /\ \A i \in 1..Len(todo') : \E j \in 2..Len(todo) : todo'[i] = todo[j]
        /\ todo[1] = Head(todo)
    BY <1>1, Progress
  <1>3. ASSUME todo' # <<>>, NEW t \in Tables
        PROVE  disk'[t] = brain'.tables[t] \/ \E k \in 1..Len(todo') : Saves(todo', k, t)
    <2>1. CASE Head(todo).name # "save"
      BY <1>2, <1>3, <2>1
    <2>2. CASE Head(todo).name = "save"
      <3>1. disk[t] = brain.tables[t] \/ \E k \in 1..Len(todo) : Saves(todo, k, t)
        BY DEF StoreInv, SavesOwed
      <3>2. QED
        BY <1>2, <1>3, <2>2, <3>1
    <2>3. QED
      BY <2>1, <2>2
  <1>4. ASSUME NEW i \in 1..Len(todo'), todo'[i].name = "remove"
        PROVE  acked' = {} /\ mixed'
    <2>1. PICK j \in 2..Len(todo) : todo'[i] = todo[j]
      BY <1>2
    <2>2. todo \in Seq(Steps) /\ j \in 1..Len(todo)
      BY <1>1 DEF Planned
    <2>3. (acked = {} /\ mixed) \/ todo[1].name = "reset"
      BY <1>1, <1>4, <2>1, <2>2 DEF RemovalPromisesNothing
    <2>4. QED
      BY <1>2, <2>3
  <1>5. QED
    BY <1>2, <1>3, <1>4 DEF SavesOwed, RemovalPromisesNothing

LEMMA AllocKeeps == ASSUME StoreInv, Alloc PROVE StoreInv'
  <1> DEFINE e == EntryOf(brain.next)
             b == Pushed(brain, "tx", brain.next)
  <1>1. Typed /\ Numbered /\ todo # <<>> /\ brain # Closed /\ op \in Nat \ {0} /\ faults \in Nat
        /\ At("alloc") /\ Head(todo).name = "alloc"
    BY DEF StoreInv, Alloc, At, Numbered, Typed
  <1>2. "tx" \in Tables /\ brain \in Brains
        /\ disk \in [Tables -> Seq(Entry)] /\ brain.next \in Nat \ {0}
        /\ brain.tables["tx"] \in Seq(Entry) /\ brain.next = NextId(brain.tables["tx"])
        /\ Ascending(brain.tables["tx"])
    BY <1>1, OrderTables, OpenBrainCounts DEF Typed, Numbered, Brains
  <1>3. /\ e \in Entry /\ e.id = brain.next /\ e.op = op
        /\ b \in Brains /\ b.next = brain.next
        /\ b.tables["tx"] = Append(brain.tables["tx"], e)
        /\ \A x : x \in ToSet(b.tables["tx"]) <=> x \in ToSet(brain.tables["tx"]) \/ x = e
        /\ \A t \in Tables : t # "tx" => b.tables[t] = brain.tables[t]
    <2>1. op \in Nat /\ brain.next \in Nat /\ "tx" \in Tables /\ brain \in Brains
      BY <1>1, <1>2
    <2>2. Appended(brain, "tx", brain.next, e, b)
      BY <2>1, PushedTables
    <2> HIDE DEF e, b
    <2>3. QED
      BY <2>2 DEF Appended
  <1> HIDE DEF b, e
  <1>4. /\ brain' \in Brains
        /\ brain'.next = brain.next + 1 /\ brain'.tables = b.tables
    <2>1. brain' = [b EXCEPT !.next = @ + 1]
      BY DEF Alloc, b
    <2>2. b.next \in Nat /\ b \in Brains
      BY <1>2, <1>3
    <2>3. QED
      BY <1>3, <2>1, <2>2 DEF Brains
  <1>5. Ascending(brain'.tables["tx"]) /\ NextId(brain'.tables["tx"]) = brain'.next
    BY <1>2, <1>3, <1>4, AppendAscends
  <1>6. /\ Saving("tx", brain')
        /\ there' = there /\ op' = op /\ acked' = acked /\ mixed' = mixed /\ torn' = torn
        /\ unread' = unread /\ crashes' = crashes
    BY DEF Alloc
  <1>7. /\ Advance \/ Fail
        /\ disk' \in [Tables -> Seq(Entry)]
        /\ \A t \in Tables : t # "tx" => disk'[t] = disk[t]
        /\ disk'["tx"] = disk["tx"] \/ disk'["tx"] = brain'.tables["tx"]
        /\ Advance => disk'["tx"] = brain'.tables["tx"]
    BY <1>1, <1>2, <1>4, <1>6, SavedTable
  <1>8. brain' # Closed
    BY <1>2, <1>4, EmptyTables
  <1>9. SavesOwed' /\ faults' \in Nat
    BY <1>1, <1>6, <1>7, OwedAfterWork
  <1>10. Typed'
    BY <1>1, <1>4, <1>6, <1>7, <1>9 DEF Typed
  <1>11. \A t \in Tables : ToSet(brain.tables[t]) \subseteq ToSet(brain'.tables[t])
    BY <1>3, <1>4
  <1>12. \A t \in Tables : disk'[t] = disk[t] \/ disk'[t] = brain'.tables[t]
    BY <1>7
  <1>13. Numbered'
    <2>1. ASSUME NEW t \in Tables, NEW x \in ToSet(disk'[t]) \union ToSet(brain'.tables[t])
          PROVE  x.op \in 1..op
      <3>1. x \in ToSet(disk[t]) \/ x \in ToSet(brain'.tables[t])
        BY <1>12
      <3>2. x \in ToSet(brain'.tables[t]) => x \in ToSet(brain.tables[t]) \/ x = e
        BY <1>3, <1>4
      <3>3. QED
        BY <1>1, <1>3, <3>1, <3>2 DEF Numbered
    <2>2. ASSUME NEW x \in ToSet(disk'["tx"]) \union ToSet(brain'.tables["tx"])
          PROVE  x.id # 0
      <3>1. x \in ToSet(disk["tx"]) \/ x \in ToSet(brain'.tables["tx"])
        BY <1>7
      <3>2. x \in ToSet(brain'.tables["tx"]) => x \in ToSet(brain.tables["tx"]) \/ x = e
        BY <1>3, <1>4
      <3>3. QED
        BY <1>1, <1>2, <1>3, <3>1, <3>2 DEF Numbered
    <2>3. Ascending(disk'["tx"])
      BY <1>1, <1>2, <1>5, <1>12 DEF Numbered
    <2>4. QED
      BY <1>1, <1>5, <1>6, <1>8, <2>1, <2>2, <2>3 DEF Numbered
  <1>14. \A t \in RowTables : brain'.tables[t] = brain.tables[t]
    BY <1>3, <1>4, OrderTables
  <1>15. Covered'
    BY <1>1, <1>6, <1>11, <1>12, <1>14, AddingKeepsCovered
  <1>16. AcknowledgedIsKept'
    BY <1>1, <1>6, <1>11, <1>12, AddingKeepsAcknowledged
  <1>17. QED
    BY <1>9, <1>10, <1>13, <1>15, <1>16 DEF StoreInv

LEMMA RowKeeps == ASSUME StoreInv, Row PROVE StoreInv'
  <1> DEFINE table == Head(todo).table
             txs == brain.tables["tx"]
             id == IF txs # <<>> /\ Last(txs).op = op THEN brain.next - 1 ELSE 0
             e == EntryOf(id)
  <1>1. Typed /\ Numbered /\ todo # <<>> /\ brain # Closed /\ op \in Nat \ {0} /\ faults \in Nat
        /\ At("row") /\ Head(todo).name = "row"
    BY DEF StoreInv, Row, At, Numbered, Typed
  <1>2. table \in RowTables /\ table \in Tables /\ table # "tx" /\ "tx" \in Tables
    <2>1. Planned(todo) /\ 1 \in 1..Len(todo) /\ todo[1] = Head(todo)
      BY <1>1, TailSteps DEF StoreInv, SavesOwed, Planned
    <2>2. QED
      BY <1>1, <2>1, OrderTables DEF Planned, RowTables
  <1>3. brain \in Brains
        /\ disk \in [Tables -> Seq(Entry)] /\ brain.next \in Nat \ {0}
        /\ txs \in Seq(Entry) /\ brain.next = NextId(txs)
    BY <1>1, <1>2, OpenBrainCounts DEF Typed, Numbered, Brains
  <1>4. id \in Nat /\ (id # 0 => txs # <<>> /\ Last(txs).op = op /\ id = Last(txs).id)
    <2>1. CASE txs # <<>> /\ Last(txs).op = op
      <3>1. Last(txs) \in Entry
        BY <1>3, <2>1, LastIn
      <3>2. Last(txs).id \in Nat /\ brain.next = Last(txs).id + 1
        BY <1>3, <2>1, <3>1 DEF NextId, Entry
      <3>3. QED
        BY <2>1, <3>2
    <2>2. CASE ~(txs # <<>> /\ Last(txs).op = op)
      BY <2>2
    <2>3. QED
      BY <2>1, <2>2
  <1>5. brain' = Pushed(brain, table, id) /\ Saving(table, brain')
        /\ there' = there /\ op' = op /\ acked' = acked /\ mixed' = mixed /\ torn' = torn
        /\ unread' = unread /\ crashes' = crashes
    BY DEF Row
  <1> HIDE DEF id
  <1>6. /\ e \in Entry /\ e.id = id /\ e.op = op
        /\ brain' \in Brains /\ brain'.next = brain.next
        /\ brain'.tables[table] = Append(brain.tables[table], e)
        /\ \A x : x \in ToSet(brain'.tables[table]) <=> x \in ToSet(brain.tables[table]) \/ x = e
        /\ \A t \in Tables : t # table => brain'.tables[t] = brain.tables[t]
    <2>1. op \in Nat /\ id \in Nat /\ table \in Tables /\ brain \in Brains
      BY <1>1, <1>2, <1>3, <1>4
    <2> DEFINE b == Pushed(brain, table, id)
    <2>2. Appended(brain, table, id, e, b)
      BY <2>1, PushedTables
    <2>3. brain' = b
      BY <1>5
    <2> HIDE DEF b, e
    <2>4. Appended(brain, table, id, e, brain')
      BY <2>2, <2>3
    <2>5. QED
      BY <2>4 DEF Appended
  <1>7. id # 0 => e \in ToSet(txs) /\ disk["tx"] = txs
    <2>1. SUFFICES ASSUME id # 0
                   PROVE  e \in ToSet(txs) /\ disk["tx"] = txs
      OBVIOUS
    <2>2. Last(txs) \in Entry /\ Last(txs) \in ToSet(txs)
      BY <1>3, <1>4, <2>1, LastIn
    <2>3. e = Last(txs)
      BY <1>4, <1>6, <2>1, <2>2 DEF Entry
    <2>4. QED
      BY <1>1, <1>4, <2>1, <2>2, <2>3 DEF StoreInv, SavesOwed
  <1> HIDE DEF e, table
  <1>8. /\ Advance \/ Fail
        /\ disk' \in [Tables -> Seq(Entry)]
        /\ \A t \in Tables : t # table => disk'[t] = disk[t]
        /\ disk'[table] = disk[table] \/ disk'[table] = brain'.tables[table]
    BY <1>1, <1>2, <1>3, <1>5, <1>6, SavedTable
  <1>9. brain' # Closed
    BY <1>3, <1>6, EmptyTables
  <1>10. SavesOwed' /\ faults' \in Nat
    BY <1>1, <1>5, <1>8, OwedAfterWork DEF At
  <1>11. Typed'
    BY <1>1, <1>5, <1>6, <1>8, <1>10 DEF Typed
  <1>12. \A t \in Tables : ToSet(brain.tables[t]) \subseteq ToSet(brain'.tables[t])
    BY <1>6
  <1>13. \A t \in Tables : disk'[t] = disk[t] \/ disk'[t] = brain'.tables[t]
    BY <1>8
  <1>14. brain'.tables["tx"] = txs /\ disk'["tx"] = disk["tx"]
    BY <1>2, <1>6, <1>8
  <1>15. Numbered'
    <2>1. ASSUME NEW t \in Tables, NEW x \in ToSet(disk'[t]) \union ToSet(brain'.tables[t])
          PROVE  x.op \in 1..op
      <3>1. x \in ToSet(disk[t]) \/ x \in ToSet(brain.tables[t]) \/ x = e
        BY <1>6, <1>13
      <3>2. QED
        BY <1>1, <1>6, <3>1 DEF Numbered
    <2>2. QED
      BY <1>1, <1>5, <1>6, <1>9, <1>14, <2>1 DEF Numbered
  <1>16. Covered'
    <2>1. ASSUME NEW t \in RowTables, NEW x \in ToSet(brain'.tables[t]),
                 x.id # 0, x \notin ToSet(brain.tables[t])
          PROVE  x \in ToSet(brain'.tables["tx"]) /\ x \in ToSet(disk'["tx"])
      <3>1. t \in Tables
        BY DEF RowTables
      <3>2. x = e
        BY <1>6, <2>1, <3>1
      <3>3. QED
        BY <1>6, <1>7, <1>14, <2>1, <3>2
    <2>2. QED
      BY <1>1, <1>5, <1>12, <1>13, <2>1, AddingKeepsCovered
  <1>17. AcknowledgedIsKept'
    BY <1>1, <1>5, <1>12, <1>13, AddingKeepsAcknowledged
  <1>18. QED
    BY <1>10, <1>11, <1>15, <1>16, <1>17 DEF StoreInv

LEMMA SaveKeeps == ASSUME StoreInv, Save PROVE StoreInv'
  <1> DEFINE table == Head(todo).table
  <1>1. Typed /\ Numbered /\ todo # <<>> /\ brain # Closed /\ faults \in Nat
        /\ At("save") /\ Head(todo).name = "save"
    BY DEF StoreInv, Save, At, Numbered, Typed
  <1>2. table \in Tables /\ "tx" \in Tables
    <2>1. todo \in Seq(Steps) /\ Head(todo) \in Steps
      BY <1>1, TailSteps DEF StoreInv, SavesOwed, Planned
    <2>2. QED
      BY <2>1, OrderTables DEF Steps
  <1>3. brain' = brain /\ Saving(table, brain)
        /\ there' = there /\ op' = op /\ acked' = acked /\ mixed' = mixed /\ torn' = torn
        /\ unread' = unread /\ crashes' = crashes
    BY DEF Save
  <1>4. brain \in Brains /\ disk \in [Tables -> Seq(Entry)]
    BY <1>1 DEF Typed
  <1>5. /\ Advance \/ Fail
        /\ disk' \in [Tables -> Seq(Entry)]
        /\ \A t \in Tables : t # table => disk'[t] = disk[t]
        /\ disk'[table] = disk[table] \/ disk'[table] = brain.tables[table]
        /\ Advance => disk'[table] = brain.tables[table]
    BY <1>1, <1>2, <1>3, <1>4, SavedTable
  <1>6. todo' # <<>> => Advance
    <2>1. Planned(todo) /\ 1 \in 1..Len(todo) /\ todo[1] = Head(todo)
      BY <1>1, TailSteps DEF StoreInv, SavesOwed, Planned
    <2>2. ~Head(todo).tolerated \/ Head(todo).name \in {"alloc", "row"}
      <3>1. todo[1].tolerated => todo[1].name \in {"alloc", "row"}
        BY <2>1 DEF Planned
      <3>2. QED
        BY <2>1, <3>1
    <2>3. Fail => todo' = <<>>
      BY <1>1, <2>2 DEF Fail
    <2>4. QED
      BY <1>5, <2>3
  <1>7. \A t \in Tables :
           /\ brain'.tables[t] = brain.tables[t]
           /\ t # table => disk'[t] = disk[t]
           /\ t = table /\ todo' # <<>> => disk'[t] = brain'.tables[t]
    BY <1>3, <1>5, <1>6
  <1>8. SavesOwed' /\ faults' \in Nat
    BY <1>1, <1>3, <1>5, <1>7, OwedAfterWork DEF At
  <1>9. Typed'
    BY <1>1, <1>3, <1>5, <1>8 DEF Typed
  <1>10. \A t \in Tables : disk'[t] = disk[t] \/ disk'[t] = brain'.tables[t]
    BY <1>3, <1>5
  <1>11. Numbered'
    BY <1>1, <1>2, <1>3, <1>10 DEF Numbered
  <1>12. Covered'
    BY <1>1, <1>3, <1>10, AddingKeepsCovered
  <1>13. AcknowledgedIsKept'
    BY <1>1, <1>3, <1>10, AddingKeepsAcknowledged
  <1>14. QED
    BY <1>8, <1>9, <1>11, <1>12, <1>13 DEF StoreInv

-----------------------------------------------------------------------------
(* The brain exchanged, the directory removed, the answer *)

LEMMA BrainOfTables ==
  ASSUME NEW tables \in [Tables -> Seq(Entry)], Ascending(tables["tx"])
  PROVE  /\ BrainOf(tables) \in Brains /\ BrainOf(tables).tables = tables
         /\ BrainOf(tables).next = NextId(tables["tx"]) /\ BrainOf(tables) # Closed
  <1>1. tables["tx"] \in Seq(Entry)
    BY OrderTables
  <1>2. NextId(tables["tx"]) \in Nat \ {0}
    BY <1>1, NextIdIsNew
  <1>3. QED
    BY <1>2, EmptyTables DEF BrainOf, Brains

\* A brain exchanged for tables in which rows have their transactions.
LEMMA ExchangeKeeps ==
  ASSUME StoreInv, todo # <<>>, Head(todo).name \in {"replace", "reset"},
         NEW tables \in [Tables -> Seq(Entry)], Exchanged(tables),
         Ascending(tables["tx"]), RowsIn(tables, tables["tx"]),
         \A t \in Tables : \A e \in ToSet(tables[t]) : e.op = op /\ e.id # 0
  PROVE  StoreInv'
  <1>1. Typed /\ Numbered /\ op \in Nat \ {0}
    BY DEF StoreInv, Numbered, Typed
  <1>2. /\ brain' \in Brains /\ brain'.tables = tables
        /\ brain'.next = NextId(tables["tx"]) /\ brain' # Closed
    BY BrainOfTables DEF Exchanged
  <1>3. /\ Advance /\ acked' = {} /\ mixed' = TRUE /\ torn' = FALSE /\ unread' = {}
        /\ disk' = disk /\ there' = there /\ op' = op /\ crashes' = crashes
    BY DEF Exchanged
  <1>4. SavesOwed' /\ faults' \in Nat
    BY <1>3, OwedAfterWork DEF At
  <1>5. Typed'
    BY <1>1, <1>2, <1>3, <1>4 DEF Typed
  <1>6. "tx" \in Tables
    BY OrderTables
  <1>7. Numbered'
    <2>1. ASSUME NEW t \in Tables, NEW x \in ToSet(disk[t]) \union ToSet(tables[t])
          PROVE  x.op \in 1..op
      BY <1>1, <2>1 DEF Numbered
    <2>2. \A x \in ToSet(disk["tx"]) \union ToSet(tables["tx"]) : x.id # 0
      BY <1>1, <1>6 DEF Numbered
    <2>3. QED
      BY <1>1, <1>2, <1>3, <2>1, <2>2 DEF Numbered
  <1>8. Covered' /\ AcknowledgedIsKept'
    BY <1>2, <1>3 DEF Covered, AcknowledgedIsKept
  <1>9. QED
    BY <1>4, <1>5, <1>7, <1>8 DEF StoreInv

LEMMA ReplaceKeeps == ASSUME StoreInv, Replace PROVE StoreInv'
  <1>1. PICK n \in 0..MaxPayload :
           Exchanged([Empty EXCEPT !["tx"] = Payload(n), !["fact"] = Payload(n)])
    BY DEF Replace
  <1> DEFINE p == Payload(n)
             tables == [Empty EXCEPT !["tx"] = p, !["fact"] = p]
  <1>2. op \in Nat /\ n \in Nat /\ todo # <<>> /\ Head(todo).name = "replace"
    BY StoreAssumption DEF StoreInv, Typed, Replace, At
  <1>3. DOMAIN p = 1..n /\ \A i \in 1..n : p[i] = EntryOf(i)
    BY DEF Payload, EntryOf
  <1>4. \A i \in 1..n : EntryOf(i) \in Entry /\ EntryOf(i).id = i /\ EntryOf(i).op = op
    BY <1>2 DEF EntryOf, Entry
  <1>5. p \in Seq(Entry)
    <2>1. p = [i \in 1..n |-> EntryOf(i)]
      BY DEF Payload, EntryOf
    <2>2. QED
      BY <1>2, <1>4, <2>1
  <1>6. \A i \in 1..n : p[i].id = i /\ p[i].op = op
    BY <1>3, <1>4
  <1>7. Ascending(p)
    BY <1>3, <1>6 DEF Ascending
  <1>8. \A e \in ToSet(p) : e.id # 0 /\ e.op = op
    <2>1. \A i \in 1..n : i # 0
      BY <1>2
    <2>2. QED
      BY <1>3, <1>6, <2>1 DEF ToSet
  <1> HIDE DEF p
  <1>9. /\ tables \in [Tables -> Seq(Entry)] /\ tables["tx"] = p
        /\ \A t \in Tables : tables[t] = p \/ tables[t] = <<>>
    BY <1>5, EmptyTables, OrderTables
  <1>10. Exchanged(tables)
    BY <1>1 DEF p
  <1> HIDE DEF tables
  <1>11. RowsIn(tables, tables["tx"])
    BY <1>9, ToSetOfEmpty DEF RowsIn, RowTables
  <1>12. \A t \in Tables : \A e \in ToSet(tables[t]) : e.op = op /\ e.id # 0
    BY <1>8, <1>9, ToSetOfEmpty
  <1>13. QED
    BY <1>2, <1>7, <1>9, <1>10, <1>11, <1>12, ExchangeKeeps

LEMMA ResetKeeps == ASSUME StoreInv, Reset PROVE StoreInv'
  <1>1. Exchanged(Empty) /\ todo # <<>> /\ Head(todo).name = "reset"
    BY DEF Reset, At
  <1>2. /\ Empty \in [Tables -> Seq(Entry)] /\ Ascending(Empty["tx"])
        /\ \A t \in Tables : ToSet(Empty[t]) = {}
    BY EmptyTables, OrderTables
  <1>3. RowsIn(Empty, Empty["tx"])
    BY <1>2 DEF RowsIn, RowTables
  <1>4. \A t \in Tables : \A e \in ToSet(Empty[t]) : e.op = op /\ e.id # 0
    BY <1>2
  <1>5. QED
    BY <1>1, <1>2, <1>3, <1>4, ExchangeKeeps

LEMMA RemoveExomKeeps == ASSUME StoreInv, RemoveExom PROVE StoreInv'
  <1>1. Typed /\ Numbered /\ At("remove") /\ todo # <<>> /\ Head(todo).name = "remove"
    BY DEF StoreInv, RemoveExom, At
  <1>2. acked = {} /\ mixed
    <2>1. 1 \in 1..Len(todo) /\ todo[1] = Head(todo)
      BY <1>1, TailSteps DEF StoreInv, SavesOwed, Planned
    <2>2. QED
      BY <1>1, <2>1 DEF StoreInv, SavesOwed, RemovalPromisesNothing
  <1>3. PICK gone \in SUBSET Tables :
           /\ disk' = [t \in Tables |-> IF t \in gone THEN <<>> ELSE disk[t]]
           /\ Advance \/ Fail
    BY DEF RemoveExom
  <1>4. /\ there' \in BOOLEAN /\ brain' = brain /\ op' = op /\ acked' = acked /\ mixed' = mixed
        /\ torn' = torn /\ unread' = unread /\ crashes' = crashes
    BY DEF RemoveExom
  <1>5. SavesOwed' /\ faults' \in Nat
    BY <1>1, <1>3, <1>4, OwedAfterWork DEF At
  <1>6. disk' \in [Tables -> Seq(Entry)] /\ \A t \in Tables : disk'[t] = disk[t] \/ disk'[t] = <<>>
    BY <1>1, <1>3, EmptyTables DEF Typed
  <1>7. Typed'
    BY <1>1, <1>4, <1>5, <1>6 DEF Typed
  <1>8. disk'["tx"] = disk["tx"] \/ disk'["tx"] = <<>>
    BY <1>6, OrderTables
  <1>9. Numbered'
    BY <1>1, <1>4, <1>6, <1>8, EmptyTables, ToSetOfEmpty DEF Numbered
  <1>10. Covered'
    BY <1>2, <1>4 DEF StoreInv, Covered
  <1>11. AcknowledgedIsKept'
    BY <1>2, <1>4 DEF AcknowledgedIsKept
  <1>12. QED
    BY <1>5, <1>7, <1>9, <1>10, <1>11 DEF StoreInv

LEMMA ReturnKeeps == ASSUME StoreInv, Return PROVE StoreInv'
  <1>1. Typed /\ Numbered /\ Planned(todo) /\ faults \in Nat /\ Advance
        /\ todo # <<>> /\ Head(todo).name = "return"
    BY DEF StoreInv, SavesOwed, Typed, Return, At
  <1>2. /\ todo' = <<>> /\ faults' \in Nat
        /\ \A t \in Tables : \A k \in 1..Len(todo) : ~Saves(todo, k, t)
    BY <1>1, Progress
  <1>3. \A t \in Tables : disk[t] = brain.tables[t]
    BY <1>1, <1>2 DEF StoreInv, SavesOwed
  <1>4. /\ brain' = brain /\ disk' = disk /\ there' = there /\ op' = op /\ torn' = torn
        /\ unread' = unread /\ crashes' = crashes /\ mixed' = FALSE
        /\ acked' = acked \union Left(brain)
    BY DEF Return
  <1>5. \A a \in Left(brain) :
           a \in [table : Tables, entry : Entry] /\ a.entry \in ToSet(brain.tables[a.table])
    <2>1. SUFFICES ASSUME NEW t \in Tables, NEW e \in ToSet(brain.tables[t])
                   PROVE  e \in Entry
      BY DEF Left
    <2>2. brain.tables[t] \in Seq(Entry)
      BY <1>1 DEF Typed, Brains
    <2>3. QED
      BY <2>2, ToSetOfSeq
  <1>6. Typed'
    BY <1>1, <1>2, <1>4, <1>5 DEF Typed
  <1>7. Numbered'
    BY <1>1, <1>2, <1>4 DEF Numbered
  <1>8. SavesOwed'
    <2>1. Len(todo') = 0 /\ ~At("row")'
      BY <1>2 DEF At
    <2>2. QED
      BY <1>2, <2>1, NothingPlanned DEF SavesOwed, RemovalPromisesNothing
  <1>9. Covered'
    <2>1. RowTables \subseteq Tables /\ "tx" \in Tables
      BY OrderTables DEF RowTables
    <2>2. ~torn => RowsIn(brain.tables, brain.tables["tx"])
      BY DEF StoreInv, Covered
    <2>3. disk["tx"] = brain.tables["tx"]
      BY <1>3, <2>1
    <2>4. ~torn => RowsIn(disk, disk["tx"]) /\ RowsIn(brain.tables, disk["tx"])
      BY <1>3, <2>1, <2>2, <2>3 DEF RowsIn
    <2>5. QED
      BY <1>4, <2>2, <2>3, <2>4 DEF Covered
  <1>10. AcknowledgedIsKept'
    <2>1. SUFFICES ASSUME NEW a \in acked \union Left(brain), a.table \notin unread
                   PROVE  /\ a.entry \in ToSet(disk[a.table])
                          /\ brain # Closed => a.entry \in ToSet(brain.tables[a.table])
      BY <1>4 DEF AcknowledgedIsKept
    <2>2. CASE a \in acked
      BY <2>1, <2>2 DEF StoreInv, AcknowledgedIsKept
    <2>3. CASE a \in Left(brain)
      BY <1>3, <1>5, <2>3
    <2>4. QED
      BY <2>2, <2>3
  <1>11. QED
    BY <1>6, <1>7, <1>8, <1>9, <1>10 DEF StoreInv

-----------------------------------------------------------------------------
(* The brain goes and comes *)

LEMMA BeginKeeps == ASSUME StoreInv, Begin PROVE StoreInv'
  <1>1. Typed /\ Numbered /\ brain # Closed /\ op \in Nat
    BY DEF StoreInv, Begin, Typed
  <1>2. PICK steps \in Operations : todo' = steps \o save \o <<Step("return", "tx")>>
    BY DEF Begin
  <1>3. /\ Planned(todo') /\ todo' # <<>>
        /\ \A t \in Tables : \E k \in 1..Len(todo') : Saves(todo', k, t)
        /\ \A i \in 1..Len(todo') : todo'[i].name = "remove" => i = 2 /\ todo'[1].name = "reset"
    BY <1>2, OperationsPlanned
  <1>4. /\ op' = op + 1 /\ brain' = brain /\ disk' = disk /\ there' = there /\ acked' = acked
        /\ mixed' = mixed /\ torn' = torn /\ unread' = unread /\ crashes' = crashes /\ faults' = faults
    BY DEF Begin
  <1>5. Typed'
    BY <1>1, <1>4 DEF Typed
  <1>6. Numbered'
    <2>1. \A i \in 1..op : i \in 1..(op + 1)
      BY <1>1
    <2>2. op + 1 # 0
      BY <1>1
    <2>3. QED
      BY <1>1, <1>4, <2>1, <2>2 DEF Numbered
  <1>7. SavesOwed'
    <2>1. brain.tables["tx"] # <<>> => Last(brain.tables["tx"]).op # op + 1
      <3>1. SUFFICES ASSUME brain.tables["tx"] # <<>>
                     PROVE  Last(brain.tables["tx"]).op # op + 1
        OBVIOUS
      <3>2. brain.tables["tx"] \in Seq(Entry) /\ "tx" \in Tables
        BY <1>1, OrderTables DEF Typed, Brains
      <3>3. Last(brain.tables["tx"]) \in ToSet(brain.tables["tx"])
        BY <3>1, <3>2, LastIn
      <3>4. Last(brain.tables["tx"]).op \in 1..op
        BY <1>1, <3>2, <3>3 DEF Numbered
      <3>5. QED
        BY <1>1, <3>4
    <2>2. QED
      BY <1>3, <1>4, <2>1 DEF SavesOwed, RemovalPromisesNothing
  <1>8. Covered' /\ AcknowledgedIsKept'
    BY <1>4 DEF StoreInv, Covered, AcknowledgedIsKept
  <1>9. QED
    BY <1>5, <1>6, <1>7, <1>8 DEF StoreInv

\* The brain leaves memory between operations, or in the middle of one.
LEMMA ClosingKeeps ==
  ASSUME StoreInv, brain' = Closed, todo' = <<>>, crashes' \in Nat,
         disk' = disk, there' = there, op' = op, acked' = acked, mixed' = mixed, torn' = torn,
         unread' = unread, faults' = faults
  PROVE  StoreInv'
  <1>1. Typed /\ Numbered /\ "tx" \in Tables
    BY OrderTables DEF StoreInv
  <1>2. /\ brain'.tables = Empty /\ brain' \in Brains
        /\ Empty["tx"] = <<>> /\ \A t \in Tables : ToSet(Empty[t]) = {}
        /\ Ascending(<<>>)
    BY <1>1, EmptyTables
  <1>3. Typed'
    BY <1>1, <1>2 DEF Typed
  <1>4. Numbered'
    BY <1>1, <1>2 DEF Numbered
  <1>5. SavesOwed'
    <2>1. Len(todo') = 0 /\ ~At("row")'
      BY DEF At
    <2>2. QED
      BY <2>1, NothingPlanned DEF SavesOwed, RemovalPromisesNothing
  <1>6. RowsIn(brain'.tables, brain'.tables["tx"]) /\ RowsIn(brain'.tables, disk["tx"])
    BY <1>2 DEF RowsIn, RowTables
  <1>7. Covered'
    BY <1>6 DEF StoreInv, Covered
  <1>8. AcknowledgedIsKept'
    BY DEF StoreInv, AcknowledgedIsKept
  <1>9. QED
    BY <1>3, <1>4, <1>5, <1>7, <1>8 DEF StoreInv

LEMMA OpenKeeps == ASSUME StoreInv, Open PROVE StoreInv'
  <1>1. Typed /\ Numbered /\ brain = Closed /\ todo = <<>> /\ "tx" \in Tables
    BY OrderTables DEF StoreInv, Open, Numbered
  <1>2. PICK lost \in SUBSET {t \in Tables : disk[t] # <<>>} :
           /\ faults' = faults + (IF lost = {} THEN 0 ELSE 1)
           /\ brain' = BrainOf(Loaded(lost))
           /\ unread' = unread \union lost
           /\ torn' = (torn \/ mixed \/ "tx" \in lost)
    BY DEF Open
  <1>3. /\ mixed' = FALSE /\ disk' = disk /\ there' = there /\ todo' = todo /\ op' = op
        /\ acked' = acked /\ crashes' = crashes
    BY DEF Open
  <1> DEFINE tables == Loaded(lost)
  <1>4. /\ tables \in [Tables -> Seq(Entry)]
        /\ \A t \in Tables : IF t \in lost THEN tables[t] = <<>> ELSE tables[t] = disk[t]
    BY <1>1, EmptyTables DEF Loaded, Typed
  <1> HIDE DEF tables
  <1>5. Ascending(tables["tx"])
    BY <1>1, <1>4, EmptyTables DEF Numbered
  <1>6. /\ brain' \in Brains /\ brain'.tables = tables
        /\ brain'.next = NextId(tables["tx"]) /\ brain' # Closed
    BY <1>2, <1>4, <1>5, BrainOfTables DEF tables
  <1>7. \A t \in Tables : ToSet(tables[t]) \subseteq ToSet(disk[t])
    BY <1>4, ToSetOfEmpty
  <1>8. Typed'
    <2>1. faults' \in Nat /\ unread' \subseteq Tables /\ torn' \in BOOLEAN
      BY <1>1, <1>2 DEF Typed
    <2>2. QED
      BY <1>1, <1>3, <1>6, <2>1 DEF Typed
  <1>9. Numbered'
    <2>1. ASSUME NEW t \in Tables, NEW x \in ToSet(disk[t]) \union ToSet(tables[t])
          PROVE  x.op \in 1..op
      BY <1>1, <1>7 DEF Numbered
    <2>2. \A x \in ToSet(disk["tx"]) \union ToSet(tables["tx"]) : x.id # 0
      BY <1>1, <1>7 DEF Numbered
    <2>3. QED
      BY <1>1, <1>3, <1>5, <1>6, <2>1, <2>2 DEF Numbered
  <1>10. SavesOwed'
    <2>1. Len(todo') = 0 /\ ~At("row")' /\ todo' = <<>>
      BY <1>1, <1>3 DEF At
    <2>2. QED
      BY <2>1, NothingPlanned DEF SavesOwed, RemovalPromisesNothing
  <1>11. Covered'
    <2>1. SUFFICES ASSUME ~torn'
                   PROVE  /\ RowsIn(tables, tables["tx"]) /\ RowsIn(disk, disk["tx"])
                          /\ RowsIn(tables, disk["tx"]) /\ ToSet(disk["tx"]) \subseteq ToSet(tables["tx"])
      BY <1>3, <1>6 DEF Covered
    <2>2. ~torn /\ ~mixed /\ "tx" \notin lost
      BY <1>2, <2>1
    <2>3. tables["tx"] = disk["tx"] /\ RowsIn(disk, disk["tx"])
      BY <1>1, <1>4, <2>2 DEF StoreInv, Covered
    <2>4. RowsIn(tables, disk["tx"])
      BY <1>7, <2>3 DEF RowsIn, RowTables
    <2>5. QED
      BY <2>3, <2>4
  <1>12. AcknowledgedIsKept'
    <2>1. SUFFICES ASSUME NEW a \in acked, a.table \notin unread, a.table \notin lost
                   PROVE  a.entry \in ToSet(disk[a.table]) /\ a.entry \in ToSet(tables[a.table])
      BY <1>2, <1>3, <1>6 DEF AcknowledgedIsKept
    <2>2. a.table \in Tables /\ a.entry \in ToSet(disk[a.table])
      BY <1>1, <2>1 DEF StoreInv, AcknowledgedIsKept, Typed
    <2>3. QED
      BY <1>4, <2>1, <2>2
  <1>13. QED
    BY <1>8, <1>9, <1>10, <1>11, <1>12 DEF StoreInv

-----------------------------------------------------------------------------
(* The theorems *)

LEMMA InitStore == Init => StoreInv
  <1> SUFFICES ASSUME Init PROVE StoreInv
    OBVIOUS
  <1>1. /\ brain = BrainOf(Empty) /\ disk = Empty /\ there = TRUE /\ todo = <<>> /\ op = 0
        /\ acked = {} /\ mixed = FALSE /\ torn = FALSE /\ unread = {} /\ crashes = 0 /\ faults = 0
    BY DEF Init
  <1>2. /\ Empty \in [Tables -> Seq(Entry)] /\ Empty["tx"] = <<>> /\ Ascending(<<>>)
        /\ \A t \in Tables : ToSet(Empty[t]) = {}
        /\ "tx" \in Tables /\ ToSet(<<>>) = {}
    BY EmptyTables, OrderTables, ToSetOfEmpty
  <1>3. /\ brain \in Brains /\ brain.tables = Empty /\ brain # Closed
        /\ brain.next = NextId(brain.tables["tx"])
    BY <1>1, <1>2, BrainOfTables
  <1>4. Typed
    BY <1>1, <1>2, <1>3 DEF Typed
  <1>5. Numbered
    BY <1>1, <1>2, <1>3 DEF Numbered
  <1>6. SavesOwed
    <2>1. Len(todo) = 0 /\ ~At("row")
      BY <1>1 DEF At
    <2>2. QED
      BY <1>1, <2>1, NothingPlanned DEF SavesOwed, RemovalPromisesNothing
  <1>7. \A txs : RowsIn(Empty, txs)
    BY <1>2 DEF RowsIn, RowTables
  <1>8. Covered
    BY <1>1, <1>2, <1>3, <1>7 DEF Covered
  <1>9. AcknowledgedIsKept
    BY <1>1 DEF AcknowledgedIsKept
  <1>10. QED
    BY <1>4, <1>5, <1>6, <1>8, <1>9 DEF StoreInv

LEMMA NextStore == StoreInv /\ [Next]_vars => StoreInv'
  <1> SUFFICES ASSUME StoreInv, [Next]_vars PROVE StoreInv'
    OBVIOUS
  <1>1. CASE Begin
    BY <1>1, BeginKeeps
  <1>2. CASE Alloc
    BY <1>2, AllocKeeps
  <1>3. CASE Row
    BY <1>3, RowKeeps
  <1>4. CASE Save
    BY <1>4, SaveKeeps
  <1>5. CASE Replace
    BY <1>5, ReplaceKeeps
  <1>6. CASE Reset
    BY <1>6, ResetKeeps
  <1>7. CASE RemoveExom
    BY <1>7, RemoveExomKeeps
  <1>8. CASE Return
    BY <1>8, ReturnKeeps
  <1>9. CASE Evict
    <2>1. crashes \in Nat
      BY DEF StoreInv, Typed
    <2>2. QED
      BY <1>9, <2>1, ClosingKeeps DEF Evict
  <1>10. CASE Crash
    <2>1. crashes + 1 \in Nat
      BY DEF StoreInv, Typed
    <2>2. QED
      BY <1>10, <2>1, ClosingKeeps DEF Crash
  <1>11. CASE Open
    BY <1>11, OpenKeeps
  <1>12. CASE UNCHANGED vars
    BY <1>12 DEF vars, StoreInv, Typed, Numbered, SavesOwed, RemovalPromisesNothing, At,
                Covered, AcknowledgedIsKept
  <1>13. QED
    BY <1>1, <1>2, <1>3, <1>4, <1>5, <1>6, <1>7, <1>8, <1>9, <1>10, <1>11, <1>12 DEF Next

LEMMA StoreInvariant == Spec => []StoreInv
  BY InitStore, NextStore, PTL DEF Spec

\* Tables hold entries of operations begun, and a brain numbers its transactions from 1.
THEOREM StoreTyped == Spec => []TypeOK
  <1>1. StoreInv => TypeOK
    <2> SUFFICES ASSUME StoreInv PROVE TypeOK
      OBVIOUS
    <2>1. Typed /\ Numbered /\ "tx" \in Tables /\ op \in Nat
      BY OrderTables DEF StoreInv, Typed
    <2>2. \A t \in Tables : disk[t] \in Seq(Entry) /\ brain.tables[t] \in Seq(Entry)
      BY <2>1 DEF Typed, Brains
    <2>3. ASSUME NEW t \in Tables, NEW e \in ToSet(disk[t]) \union ToSet(brain.tables[t])
          PROVE  e \in Entry /\ e.op \in 1..op
      <3>1. ToSet(disk[t]) \subseteq Entry /\ ToSet(brain.tables[t]) \subseteq Entry
        BY <2>2, ToSetOfSeq
      <3>2. QED
        BY <2>1, <3>1 DEF Numbered
    <2>4. ASSUME NEW e \in ToSet(brain.tables["tx"])
          PROVE  e.id \in 1..(brain.next - 1)
      <3>1. brain # Closed
        BY <2>1, EmptyTables
      <3>2. e \in Entry /\ e.id # 0 /\ e.id \in Nat
        BY <2>1, <2>3 DEF Numbered, Entry
      <3>3. brain.next \in Nat \ {0} /\ e.id < brain.next
        BY <2>1, <3>1, OpenBrainCounts
      <3>4. QED
        BY <3>2, <3>3
    <2>5. brain # Closed => brain.next \in Nat \ {0}
      BY <2>1, OpenBrainCounts
    <2>6. QED
      BY <2>1, <2>3, <2>4, <2>5 DEF TypeOK, Typed
  <1>2. QED
    BY <1>1, StoreInvariant, PTL

\* What an operation that returned Ok left is on disk, and in the brain when it is open, through
\* every later operation, error, eviction, stop and open, until an import or a wipe replaces it:
\* all but what was in a table that once failed to load.
THEOREM AcknowledgedKept == Spec => []AcknowledgedIsKept
  <1>1. StoreInv => AcknowledgedIsKept
    BY DEF StoreInv
  <1>2. QED
    BY <1>1, StoreInvariant, PTL

\* A row on disk or in memory carries the identifier of the transaction of its own operation,
\* and no identifier is given out twice, whatever fails or stops between the save of a
\* transaction and that of its row.
THEOREM EffectsTraced == Spec => []EffectsHaveTheirTransaction
  <1>1. StoreInv => EffectsHaveTheirTransaction
    BY DEF StoreInv, Numbered, Covered, EffectsHaveTheirTransaction, OwnTransactions, RowsIn
  <1>2. QED
    BY <1>1, StoreInvariant, PTL

=============================================================================
