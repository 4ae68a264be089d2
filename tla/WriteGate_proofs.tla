-------------------------- MODULE WriteGate_proofs --------------------------
(***************************************************************************)
(* The brain in the cache and the tables on disk never part but in their   *)
(* branch rows, a closed exom refuses what is not about its marker, and    *)
(* the gate's claim reaches the mutation behind it: for every number of    *)
(* users, branches, requests and restarts.                                 *)
(*                                                                         *)
(* RequestOK says what steps may follow each other in a request and what   *)
(* it holds between them; Alone, that nothing runs beside a request that   *)
(* found no other; ClaimCarried, what such a request knows of the rows.    *)
(***************************************************************************)
EXTENDS WriteGate, SequenceTheorems, TLAPS

\* The mutations behind the gate that add transactions
Writes == {"assert", "retract", "create", "merge", "retract_all"}

GatedSteps == {"claim", "store", "evict", "wipe", "mirror_read", "mirror_write"} \union Writes

Follows(before, after) ==
    /\ after = "publish_mode" => before = "read_mode"
    /\ after = "set_mode" => before = "publish_mode"
    /\ after = "mirror_write" => before = "mirror_read"
    /\ after = "evict" => before \in {"claim", "store"}
    /\ after \in Writes => before \in {"evict", "guard_write"}
    /\ before = "precheck" => after = "claim"

\* How the steps of a request follow each other.
Chain(todo) ==
    /\ todo \in Seq(Steps)
    /\ \A i \in 1..Len(todo) :
          /\ todo[i] = "store" => i = 1
          /\ todo[i] = "precheck" => i < Len(todo)
          /\ i > 1 => Follows(todo[i - 1], todo[i])
          /\ \A j \in 1..(i - 1) : todo[j] = "precheck" => todo[i] \in GatedSteps

\* What a request holds fits the step that will use it.
HoldsFor(r, step) ==
    /\ step = "store" => r.held \in Rows
    /\ step \in {"publish_mode", "set_mode", "mirror_write"} => r.held \in Meta

RequestOK(r) ==
    /\ r \in Request
    /\ Chain(r.todo)
    /\ r.todo # <<>> => HoldsFor(r, Head(r.todo))
    /\ r.gated => \A i \in 1..Len(r.todo) : r.todo[i] \in GatedSteps

\* Nothing runs beside a request that is alone.
Alone == \A p \in Slots : req[p].alone => Busy(p) /\ \A q \in Slots : q # p => Idle(q)

ClaimedFor(r, m, d) ==
    \/ Owned(d.rows, r.branch, r.user)
    \/ r.branch = Main /\ m.mode = "co-edit"

\* What a request that is alone knows of exom.json, the tables and the cache: the branch table
\* it stores is the one on disk with its own change, and behind the gate its branch is claimed
\* and the brain in memory gone.
ClaimCarried(r, m, d, c) ==
    /\ Head(r.todo) = "store" =>
          \/ /\ r.held = [d.rows EXCEPT ![r.branch].owner = r.user]
             /\ d.rows[r.branch].owner = Nobody
          \/ /\ r.held = Pushed(d.rows, r.branch)
             /\ ~Live(d.rows, r.branch)
             /\ ~r.gated
    /\ r.gated /\ Head(r.todo) \in {"evict"} \union Writes => ClaimedFor(r, m, d)
    /\ r.gated /\ Head(r.todo) \in Writes => c = Absent

GateInv ==
    /\ TypeOK
    /\ CachedLogIsDisk
    /\ \A p \in Slots : RequestOK(req[p])
    /\ Alone
    /\ \A p \in Slots : req[p].alone => ClaimCarried(req[p], meta, disk, cache)

-----------------------------------------------------------------------------
(* The steps of a request *)

LEMMA StepsAreFunctions ==
  ASSUME NEW s \in Seq(Steps)
  PROVE  Len(s) \in Nat /\ s \in [1..Len(s) -> Steps] /\ DOMAIN s = 1..Len(s)
  OBVIOUS

LEMMA NoSteps == Chain(<<>>)
  <1>1. <<>> \in Seq(Steps) /\ Len(<<>>) = 0
    OBVIOUS
  <1>2. QED
    BY <1>1 DEF Chain

LEMMA JoinedChains ==
  ASSUME NEW a, NEW b, Chain(a), Chain(b), a # <<>>, b # <<>>,
         b[1] # "store", Follows(a[Len(a)], b[1]),
         (\E j \in 1..Len(a) : a[j] = "precheck") => \A i \in 1..Len(b) : b[i] \in GatedSteps,
         a[Len(a)] # "precheck"
  PROVE  /\ Chain(a \o b) /\ a \o b # <<>>
         /\ Len(a \o b) = Len(a) + Len(b)
         /\ \A i \in 1..Len(a) : (a \o b)[i] = a[i]
         /\ \A i \in 1..Len(b) : (a \o b)[Len(a) + i] = b[i]
  <1> DEFINE c == a \o b
             m == Len(a)
             n == Len(b)
  <1>1. a \in Seq(Steps) /\ b \in Seq(Steps)
    BY DEF Chain
  <1>2. m \in Nat \ {0} /\ n \in Nat \ {0}
    BY <1>1
  <1>3. c \in Seq(Steps) /\ Len(c) = m + n
        /\ (\A i \in 1..m : c[i] = a[i]) /\ (\A i \in 1..n : c[m + i] = b[i])
    BY <1>1
  <1>4. \A i \in 1..m : /\ a[i] = "store" => i = 1
                        /\ a[i] = "precheck" => i < m
                        /\ i > 1 => Follows(a[i - 1], a[i])
                        /\ \A j \in 1..(i - 1) : a[j] = "precheck" => a[i] \in GatedSteps
    BY DEF Chain
  <1>5. \A i \in 1..n : /\ b[i] = "store" => i = 1
                        /\ b[i] = "precheck" => i < n
                        /\ i > 1 => Follows(b[i - 1], b[i])
                        /\ \A j \in 1..(i - 1) : b[j] = "precheck" => b[i] \in GatedSteps
    BY DEF Chain
  <1>6. b[1] # "store" /\ Follows(a[m], b[1]) /\ a[m] # "precheck"
        /\ ((\E j \in 1..m : a[j] = "precheck") => \A i \in 1..n : b[i] \in GatedSteps)
    OBVIOUS
  <1> HIDE DEF c, m, n
  <1>7. ASSUME NEW i \in 1..(m + n)
        PROVE  /\ c[i] = "store" => i = 1
               /\ c[i] = "precheck" => i < m + n
               /\ i > 1 => Follows(c[i - 1], c[i])
               /\ \A j \in 1..(i - 1) : c[j] = "precheck" => c[i] \in GatedSteps
    <2>1. CASE i \in 1..m
      <3>1. c[i] = a[i] /\ i < m + n
        BY <1>2, <1>3, <2>1
      <3>2. i > 1 => c[i - 1] = a[i - 1]
        BY <1>2, <1>3, <2>1
      <3>3. \A j \in 1..(i - 1) : c[j] = a[j]
        BY <1>2, <1>3, <2>1
      <3>4. QED
        BY <1>4, <2>1, <3>1, <3>2, <3>3
    <2>2. CASE i \notin 1..m
      <3> DEFINE k == i - m
      <3>1. k \in 1..n /\ i = m + k /\ k \in Nat /\ i > 1
        BY <1>2, <2>2
      <3> HIDE DEF k
      <3>2. c[i] = b[k]
        BY <1>3, <3>1
      <3>3. b[k] # "store"
        BY <1>5, <1>6, <3>1
      <3>4. b[k] = "precheck" => i < m + n
        BY <1>2, <1>5, <3>1
      <3>5. Follows(c[i - 1], c[i])
        <4>1. CASE k = 1
          <5>1. i - 1 = m /\ m \in 1..m
            BY <1>2, <3>1, <4>1
          <5>2. QED
            BY <1>3, <1>6, <3>2, <4>1, <5>1
        <4>2. CASE k # 1
          <5>1. i - 1 = m + (k - 1) /\ k - 1 \in 1..n /\ k > 1
            BY <1>2, <3>1, <4>2
          <5>2. c[i - 1] = b[k - 1]
            BY <1>3, <5>1
          <5>3. QED
            BY <1>5, <3>1, <3>2, <5>1, <5>2
        <4>3. QED
          BY <4>1, <4>2
      <3>6. ASSUME NEW j \in 1..(i - 1), c[j] = "precheck"
            PROVE  c[i] \in GatedSteps
        <4>1. CASE j \in 1..m
          BY <1>3, <1>6, <3>1, <3>2, <3>6, <4>1
        <4>2. CASE j \notin 1..m
          <5>1. j - m \in 1..n /\ j = m + (j - m) /\ j - m \in 1..(k - 1)
            BY <1>2, <3>1, <4>2
          <5>2. c[j] = b[j - m]
            BY <1>3, <5>1
          <5>3. QED
            BY <1>5, <3>1, <3>2, <3>6, <5>1, <5>2
        <4>3. QED
          BY <4>1, <4>2
      <3>7. QED
        BY <3>1, <3>2, <3>3, <3>4, <3>5, <3>6
    <2>3. QED
      BY <2>1, <2>2
  <1>8. Chain(c)
    BY <1>3, <1>7 DEF Chain
  <1>9. c # <<>>
    BY <1>2, <1>3
  <1>10. QED
    BY <1>3, <1>8, <1>9 DEF c, m, n

\* Steps a may go on with steps b; what is said of the whole.
Joins(a, b, m, n) ==
    /\ m \in Nat \ {0} /\ n \in Nat \ {0} /\ Len(a) = m /\ Len(b) = n
    /\ Chain(a) /\ Chain(b) /\ b[1] # "store" /\ Follows(a[m], b[1])
    /\ \A i \in 1..n : b[i] \in GatedSteps \/ \A j \in 1..m : a[j] # "precheck"
    /\ a[m] # "precheck"

Joined(a, b, c, m, n) ==
    /\ Chain(c) /\ c # <<>> /\ Len(c) = m + n
    /\ c[1] = a[1] /\ c[m + n] = b[n]

LEMMA JoinedEnds ==
  ASSUME NEW a, NEW b, NEW m, NEW n, Joins(a, b, m, n)
  PROVE  Joined(a, b, a \o b, m, n)
  <1>0. /\ m \in Nat \ {0} /\ n \in Nat \ {0} /\ Len(a) = m /\ Len(b) = n
        /\ Chain(a) /\ Chain(b) /\ b[1] # "store" /\ Follows(a[m], b[1])
        /\ \A i \in 1..n : b[i] \in GatedSteps \/ \A j \in 1..m : a[j] # "precheck"
        /\ a[m] # "precheck"
    BY DEF Joins
  <1>1. a # <<>> /\ b # <<>>
    BY <1>0 DEF Chain
  <1>2. (\E j \in 1..Len(a) : a[j] = "precheck") => \A i \in 1..Len(b) : b[i] \in GatedSteps
    BY <1>0
  <1>3. /\ Chain(a \o b) /\ a \o b # <<>>
        /\ Len(a \o b) = Len(a) + Len(b)
        /\ \A i \in 1..Len(a) : (a \o b)[i] = a[i]
        /\ \A i \in 1..Len(b) : (a \o b)[Len(a) + i] = b[i]
    BY <1>0, <1>1, <1>2, JoinedChains
  <1> DEFINE c == a \o b
  <1>4. /\ \A i \in 1..m : c[i] = a[i]
        /\ \A i \in 1..n : c[m + i] = b[i]
    BY <1>0, <1>3
  <1> HIDE DEF c
  <1>5. 1 \in 1..m /\ n \in 1..n
    BY <1>0
  <1>6. c[1] = a[1] /\ c[m + n] = b[n]
    BY <1>4, <1>5
  <1>7. QED
    BY <1>0, <1>3, <1>6 DEF c, Joined

LEMMA SingleChain ==
  ASSUME NEW step \in Steps, step # "precheck"
  PROVE  /\ Chain(<<step>>) /\ <<step>> # <<>> /\ Len(<<step>>) = 1 /\ <<step>>[1] = step
  <1>1. <<step>> \in Seq(Steps) /\ Len(<<step>>) = 1 /\ <<step>>[1] = step
    OBVIOUS
  <1>2. QED
    BY <1>1 DEF Chain

LEMMA StepTuples ==
  /\ \A a, b \in Steps : <<a, b>> \in Seq(Steps) /\ Len(<<a, b>>) = 2
  /\ \A a, b, c \in Steps : <<a, b, c>> \in Seq(Steps) /\ Len(<<a, b, c>>) = 3
  OBVIOUS

LEMMA GateChain ==
  /\ Chain(Gate) /\ Gate # <<>> /\ Len(Gate) = 3
  /\ Gate[1] = "precheck" /\ Gate[2] = "claim" /\ Gate[3] = "evict"
  <1> DEFINE s == Gate
  <1>1. /\ s \in Seq(Steps) /\ Len(s) = 3
        /\ s[1] = "precheck" /\ s[2] = "claim" /\ s[3] = "evict"
    <2> DEFINE a == "precheck"
               b == "claim"
               c == "evict"
    <2>1. a \in Steps /\ b \in Steps /\ c \in Steps
      BY DEF Steps
    <2>2. s = <<a, b, c>> /\ s[1] = a /\ s[2] = b /\ s[3] = c
      BY DEF Gate
    <2>3. <<a, b, c>> \in Seq(Steps) /\ Len(<<a, b, c>>) = 3
      <3> HIDE DEF a, b, c
      <3>1. QED
        BY <2>1, StepTuples
    <2>4. QED
      BY <2>2, <2>3
  <1> HIDE DEF s
  <1>2. \A i \in 1..Len(s) : \/ i = 1
                             \/ i = 2 /\ i - 1 = 1
                             \/ i = 3 /\ i - 1 = 2
    BY <1>1
  <1>3. \A i \in 1..Len(s) : i > 1 => Follows(s[i - 1], s[i])
    BY <1>1, <1>2 DEF Follows, Writes
  <1>4. \A i \in 1..Len(s) : i > 1 => s[i] \in GatedSteps
    BY <1>1, <1>2 DEF GatedSteps
  <1>5. \A i \in 1..Len(s) : s[i] # "store" /\ (s[i] = "precheck" => i < Len(s))
    BY <1>1, <1>2
  <1>6. \A i \in 1..Len(s) : \A j \in 1..(i - 1) : s[i] \in GatedSteps
    BY <1>1, <1>4
  <1>7. Chain(s)
    BY <1>1, <1>3, <1>5, <1>6 DEF Chain
  <1>8. QED
    BY <1>1, <1>7 DEF s

LEMMA MirrorChain ==
  /\ Chain(Mirror) /\ Mirror # <<>> /\ Len(Mirror) = 2
  /\ Mirror[1] = "mirror_read" /\ Mirror[2] = "mirror_write"
  <1> DEFINE s == Mirror
  <1>1. /\ s \in Seq(Steps) /\ Len(s) = 2
        /\ s[1] = "mirror_read" /\ s[2] = "mirror_write"
    <2> DEFINE a == "mirror_read"
               b == "mirror_write"
    <2>1. a \in Steps /\ b \in Steps
      BY DEF Steps
    <2>2. s = <<a, b>> /\ s[1] = a /\ s[2] = b
      BY DEF Mirror
    <2>3. <<a, b>> \in Seq(Steps) /\ Len(<<a, b>>) = 2
      <3> HIDE DEF a, b
      <3>1. QED
        BY <2>1, StepTuples
    <2>4. QED
      BY <2>2, <2>3
  <1> HIDE DEF s
  <1>2. \A i \in 1..Len(s) : \/ i = 1
                             \/ i = 2 /\ i - 1 = 1
    BY <1>1
  <1>3. Chain(s)
    BY <1>1, <1>2 DEF Chain, Follows, Writes
  <1>4. QED
    BY <1>1, <1>3 DEF s

LEMMA TwoStepChain ==
  ASSUME NEW a \in Steps, NEW b \in Steps, a # "precheck", b \notin {"precheck", "store"}, Follows(a, b)
  PROVE  Chain(<<a, b>>) /\ <<a, b>> # <<>> /\ <<a, b>>[1] = a
  <1> DEFINE s == <<a, b>>
  <1>1. s \in Seq(Steps) /\ Len(s) = 2 /\ s[1] = a /\ s[2] = b
    BY StepTuples
  <1> HIDE DEF s
  <1>2. \A i \in 1..Len(s) : i = 1 \/ (i = 2 /\ i - 1 = 1)
    BY <1>1
  <1>3. \A i \in 1..Len(s) : s[i] # "precheck"
    BY <1>1, <1>2
  <1>4. \A i \in 1..Len(s) : \A j \in 1..(i - 1) : j \in 1..Len(s)
    BY <1>1
  <1>5. Chain(s) /\ s # <<>>
    BY <1>1, <1>2, <1>3, <1>4 DEF Chain
  <1>6. QED
    BY <1>1, <1>5 DEF s

LEMMA ThreeStepChain ==
  ASSUME NEW a \in Steps, NEW b \in Steps, NEW c \in Steps, a # "precheck",
         b \notin {"precheck", "store"}, c \notin {"precheck", "store"}, Follows(a, b), Follows(b, c)
  PROVE  Chain(<<a, b, c>>) /\ <<a, b, c>> # <<>> /\ <<a, b, c>>[1] = a
  <1> DEFINE s == <<a, b, c>>
  <1>1. s \in Seq(Steps) /\ Len(s) = 3 /\ s[1] = a /\ s[2] = b /\ s[3] = c
    BY StepTuples
  <1> HIDE DEF s
  <1>2. \A i \in 1..Len(s) : i = 1 \/ (i = 2 /\ i - 1 = 1) \/ (i = 3 /\ i - 1 = 2)
    BY <1>1
  <1>3. \A i \in 1..Len(s) : s[i] # "precheck"
    BY <1>1, <1>2
  <1>4. \A i \in 1..Len(s) : \A j \in 1..(i - 1) : j \in 1..Len(s)
    BY <1>1
  <1>5. Chain(s) /\ s # <<>>
    BY <1>1, <1>2, <1>3, <1>4 DEF Chain
  <1>6. QED
    BY <1>1, <1>5 DEF s

\* The steps a handler may begin with: it holds nothing yet.
Opening(todo) ==
    /\ Chain(todo) /\ todo # <<>>
    /\ todo[1] \notin {"store", "publish_mode", "set_mode", "mirror_write"}

\* The gate, alone or behind a guard, and what may come after it.
LEMMA GatedChains ==
  ASSUME NEW step \in Writes \union {"wipe"}, NEW guard \in {"guard_write", "guard_owner"}
  PROVE  /\ Opening(Gate \o <<step>>) /\ Opening(<<guard>> \o Gate \o <<step>>)
         /\ step = "assert" => /\ Opening(Gate \o <<step>> \o Mirror)
                               /\ Opening(<<guard>> \o Gate \o <<step>> \o Mirror)
                               /\ Opening(<<step>> \o Mirror)
  <1> DEFINE w == <<step>>
             g == <<guard>>
             gate == Gate
             mirror == Mirror
             a == gate \o w
             b == g \o gate
             c == b \o w
             d == a \o mirror
             e == c \o mirror
             f == w \o mirror
  <1>1. step \in Steps /\ guard \in Steps /\ step # "precheck" /\ guard # "precheck"
        /\ step \in GatedSteps /\ step \notin {"store", "publish_mode", "set_mode", "mirror_write"}
    BY DEF Steps, Writes, GatedSteps
  <1>2. /\ Chain(w) /\ w # <<>> /\ Len(w) = 1 /\ w[1] = step
        /\ Chain(g) /\ g # <<>> /\ Len(g) = 1 /\ g[1] = guard
    BY <1>1, SingleChain
  <1>3. /\ Chain(gate) /\ gate # <<>> /\ Len(gate) = 3
        /\ gate[1] = "precheck" /\ gate[2] = "claim" /\ gate[3] = "evict"
        /\ \A i \in 1..3 : i = 1 \/ i = 2 \/ i = 3
    BY GateChain
  <1>4. /\ Chain(mirror) /\ mirror # <<>> /\ Len(mirror) = 2
        /\ mirror[1] = "mirror_read" /\ mirror[2] = "mirror_write"
        /\ \A i \in 1..2 : i = 1 \/ i = 2
    BY MirrorChain
  <1> HIDE DEF w, g, gate, mirror
  <1>5. /\ Follows("evict", step) /\ Follows(guard, "precheck") /\ Follows(step, "mirror_read")
    BY DEF Follows, Writes
  <1>6. \A i \in 1..Len(w) : w[i] \in GatedSteps
    BY <1>1, <1>2
  <1>7. \A i \in 1..Len(mirror) : mirror[i] \in GatedSteps
    BY <1>4 DEF GatedSteps
  <1>8. /\ Chain(a) /\ a # <<>> /\ Len(a) = 3 + 1
        /\ a[1] = "precheck" /\ a[3 + 1] = step
    <2>1. /\ Chain(gate) /\ Chain(w) /\ Len(gate) = 3 /\ Len(w) = 1
          /\ w[1] # "store" /\ Follows(gate[3], w[1]) /\ gate[3] # "precheck"
          /\ 3 \in Nat \ {0} /\ 1 \in Nat \ {0}
      BY <1>1, <1>2, <1>3, <1>5
    <2>2. \A i \in 1..1 : w[i] \in GatedSteps \/ \A j \in 1..3 : gate[j] # "precheck"
      BY <1>1, <1>2, <1>3, <1>5, <1>6, <1>7
    <2>3. Joins(gate, w, 3, 1)
      BY <2>1, <2>2 DEF Joins
    <2>4. Joined(gate, w, a, 3, 1)
      BY <2>3, JoinedEnds DEF a
    <2>5. QED
      BY <2>4, <1>1, <1>2, <1>3, <1>5 DEF Joined
  <1>9. /\ Chain(b) /\ b # <<>> /\ Len(b) = 1 + 3
        /\ b[1] = guard /\ b[1 + 3] = "evict"
    <2>1. /\ Chain(g) /\ Chain(gate) /\ Len(g) = 1 /\ Len(gate) = 3
          /\ gate[1] # "store" /\ Follows(g[1], gate[1]) /\ g[1] # "precheck"
          /\ 1 \in Nat \ {0} /\ 3 \in Nat \ {0}
      BY <1>1, <1>2, <1>3, <1>5
    <2>2. \A i \in 1..3 : gate[i] \in GatedSteps \/ \A j \in 1..1 : g[j] # "precheck"
      BY <1>1, <1>2, <1>3, <1>5, <1>6, <1>7
    <2>3. Joins(g, gate, 1, 3)
      BY <2>1, <2>2 DEF Joins
    <2>4. Joined(g, gate, b, 1, 3)
      BY <2>3, JoinedEnds DEF b
    <2>5. QED
      BY <2>4, <1>1, <1>2, <1>3, <1>5 DEF Joined
  <1> HIDE DEF a, b
  <1>10. /\ Chain(c) /\ c # <<>> /\ Len(c) = 4 + 1
        /\ c[1] = guard /\ c[4 + 1] = step
    <2>1. /\ Chain(b) /\ Chain(w) /\ Len(b) = 4 /\ Len(w) = 1
          /\ w[1] # "store" /\ Follows(b[4], w[1]) /\ b[4] # "precheck"
          /\ 4 \in Nat \ {0} /\ 1 \in Nat \ {0}
      BY <1>1, <1>2, <1>5, <1>9
    <2>2. \A i \in 1..1 : w[i] \in GatedSteps \/ \A j \in 1..4 : b[j] # "precheck"
      BY <1>1, <1>2, <1>5, <1>9, <1>6, <1>7
    <2>3. Joins(b, w, 4, 1)
      BY <2>1, <2>2 DEF Joins
    <2>4. Joined(b, w, c, 4, 1)
      BY <2>3, JoinedEnds DEF c
    <2>5. QED
      BY <2>4, <1>1, <1>2, <1>5, <1>9 DEF Joined
  <1> HIDE DEF c
  <1>11. /\ Chain(d) /\ d # <<>> /\ Len(d) = 4 + 2
        /\ d[1] = "precheck" /\ d[4 + 2] = "mirror_write"
    <2>1. /\ Chain(a) /\ Chain(mirror) /\ Len(a) = 4 /\ Len(mirror) = 2
          /\ mirror[1] # "store" /\ Follows(a[4], mirror[1]) /\ a[4] # "precheck"
          /\ 4 \in Nat \ {0} /\ 2 \in Nat \ {0}
      BY <1>1, <1>4, <1>5, <1>8
    <2>2. \A i \in 1..2 : mirror[i] \in GatedSteps \/ \A j \in 1..4 : a[j] # "precheck"
      BY <1>1, <1>4, <1>5, <1>8, <1>6, <1>7
    <2>3. Joins(a, mirror, 4, 2)
      BY <2>1, <2>2 DEF Joins
    <2>4. Joined(a, mirror, d, 4, 2)
      BY <2>3, JoinedEnds DEF d
    <2>5. QED
      BY <2>4, <1>1, <1>4, <1>5, <1>8 DEF Joined
  <1>12. /\ Chain(e) /\ e # <<>> /\ Len(e) = 5 + 2
        /\ e[1] = guard /\ e[5 + 2] = "mirror_write"
    <2>1. /\ Chain(c) /\ Chain(mirror) /\ Len(c) = 5 /\ Len(mirror) = 2
          /\ mirror[1] # "store" /\ Follows(c[5], mirror[1]) /\ c[5] # "precheck"
          /\ 5 \in Nat \ {0} /\ 2 \in Nat \ {0}
      BY <1>1, <1>4, <1>5, <1>10
    <2>2. \A i \in 1..2 : mirror[i] \in GatedSteps \/ \A j \in 1..5 : c[j] # "precheck"
      BY <1>1, <1>4, <1>5, <1>10, <1>6, <1>7
    <2>3. Joins(c, mirror, 5, 2)
      BY <2>1, <2>2 DEF Joins
    <2>4. Joined(c, mirror, e, 5, 2)
      BY <2>3, JoinedEnds DEF e
    <2>5. QED
      BY <2>4, <1>1, <1>4, <1>5, <1>10 DEF Joined
  <1>13. /\ Chain(f) /\ f # <<>> /\ Len(f) = 1 + 2
        /\ f[1] = step /\ f[1 + 2] = "mirror_write"
    <2>1. /\ Chain(w) /\ Chain(mirror) /\ Len(w) = 1 /\ Len(mirror) = 2
          /\ mirror[1] # "store" /\ Follows(w[1], mirror[1]) /\ w[1] # "precheck"
          /\ 1 \in Nat \ {0} /\ 2 \in Nat \ {0}
      BY <1>1, <1>2, <1>4, <1>5
    <2>2. \A i \in 1..2 : mirror[i] \in GatedSteps \/ \A j \in 1..1 : w[j] # "precheck"
      BY <1>1, <1>2, <1>4, <1>5, <1>6, <1>7
    <2>3. Joins(w, mirror, 1, 2)
      BY <2>1, <2>2 DEF Joins
    <2>4. Joined(w, mirror, f, 1, 2)
      BY <2>3, JoinedEnds DEF f
    <2>5. QED
      BY <2>4, <1>1, <1>2, <1>4, <1>5 DEF Joined
  <1> HIDE DEF d, e, f
  <1>14. Opening(a) /\ Opening(c) /\ Opening(d) /\ Opening(e) /\ Opening(f)
    BY <1>1, <1>8, <1>10, <1>11, <1>12, <1>13 DEF Opening
  <1>15. QED
    BY <1>14 DEF a, b, c, d, e, f, w, g, gate, mirror

LEMMA CalledRequest ==
  ASSUME NEW todo, Opening(todo), NEW branches \in SUBSET Branches, NEW preds \in SUBSET Preds,
         NEW r \in Calls(todo, branches, preds)
  PROVE  RequestOK(r) /\ r.todo # <<>> /\ ~r.gated /\ Head(r.todo) # "store"
  <1>1. todo \in Seq(Steps) /\ Head(todo) = todo[1]
    BY DEF Opening, Chain
  <1>2. /\ r.todo = todo /\ r.held = Nobody /\ r.gated = FALSE /\ r \in Request
    BY <1>1 DEF Calls, Request
  <1>3. QED
    BY <1>1, <1>2 DEF RequestOK, Opening, HoldsFor

LEMMA HandlersOK == \A r \in Handlers : RequestOK(r) /\ r.todo # <<>> /\ ~r.gated /\ Head(r.todo) # "store"
  <1> DEFINE Fine(r) == RequestOK(r) /\ r.todo # <<>> /\ ~r.gated /\ Head(r.todo) # "store"
             FineCalls(todo) ==
                 \A branches \in SUBSET Branches : \A preds \in SUBSET Preds :
                    \A r \in Calls(todo, branches, preds) : Fine(r)
  <1>1. \A todo : Opening(todo) => FineCalls(todo)
    BY CalledRequest
  <1>2. /\ Branches \in SUBSET Branches /\ {Main} \in SUBSET Branches
        /\ Preds \in SUBSET Preds /\ {"fact"} \in SUBSET Preds
        /\ {"fact", "session/closed_at"} \in SUBSET Preds /\ {"session/closed_at"} \in SUBSET Preds
    BY GateAssumption DEF Preds
  <1> HIDE DEF Fine, FineCalls
  <1>3. \A todo : Opening(todo) =>
           \A branches \in {Branches, {Main}} :
              \A preds \in {Preds, {"fact"}, {"fact", "session/closed_at"}, {"session/closed_at"}} :
                 \A r \in Calls(todo, branches, preds) : Fine(r)
    BY <1>1, <1>2 DEF FineCalls
  <1>4. /\ \A step \in {"assert", "retract", "create", "merge", "retract_all", "wipe"} :
              \A guard \in {"guard_write", "guard_owner"} :
                 Opening(Gate \o <<step>>) /\ Opening(<<guard>> \o Gate \o <<step>>)
        /\ Opening(Gate \o <<"assert">> \o Mirror)
        /\ Opening(<<"guard_write">> \o Gate \o <<"assert">> \o Mirror)
        /\ Opening(<<"assert">> \o Mirror)
    BY GatedChains DEF Writes
  <1>20. /\ "guard_write" \in Steps /\ "orchestrator" \in Steps /\ "branch_on_disk" \in Steps
         /\ "read_mode" \in Steps /\ "publish_mode" \in Steps /\ "set_mode" \in Steps
         /\ "join" \in Steps /\ "claim" \in Steps /\ "evict" \in Steps
    BY DEF Steps
  <1>5. Opening(<<"create">>)
    BY SingleChain DEF Opening, Steps
  <1>6. \A step \in {"archive", "merge", "eval_assert", "eval_retract", "eval_rule", "import"} :
           Opening(<<"guard_write", step>>)
    <2>1. TAKE step \in {"archive", "merge", "eval_assert", "eval_retract", "eval_rule", "import"}
    <2>2. Follows("guard_write", step)
      BY DEF Follows, Writes
    <2>3. "guard_write" \in Steps /\ step \in Steps
      BY DEF Steps
    <2>4. QED
      BY <2>2, <2>3, TwoStepChain DEF Opening
  <1>7. Opening(<<"guard_write", "orchestrator", "branch_on_disk">>)
    <2>1. Follows("guard_write", "orchestrator") /\ Follows("orchestrator", "branch_on_disk")
      BY DEF Follows, Writes
    <2>2. QED
      BY <1>20, <2>1, ThreeStepChain DEF Opening
  <1>8. Opening(<<"read_mode", "publish_mode", "set_mode">>)
    <2>1. Follows("read_mode", "publish_mode") /\ Follows("publish_mode", "set_mode")
      BY DEF Follows, Writes
    <2>2. QED
      BY <1>20, <2>1, ThreeStepChain DEF Opening
  <1>9. Opening(<<"guard_write", "join", "claim">>)
    <2>1. Follows("guard_write", "join") /\ Follows("join", "claim")
      BY DEF Follows, Writes
    <2>2. QED
      BY <1>20, <2>1, ThreeStepChain DEF Opening
  <1>10. Opening(<<"join", "claim", "evict">>)
    <2>1. Follows("join", "claim") /\ Follows("claim", "evict")
      BY DEF Follows, Writes
    <2>2. QED
      BY <1>20, <2>1, ThreeStepChain DEF Opening
  <1>11. \A r \in api_assert_fact \union tool_assert_fact \union tool_retract_fact : Fine(r)
    BY <1>3, <1>4 DEF api_assert_fact, tool_assert_fact, tool_retract_fact
  <1>12. \A r \in tool_observe \union tool_believe \union tool_revoke_belief : Fine(r)
    BY <1>3, <1>4 DEF tool_observe, tool_believe, tool_revoke_belief
  <1>13. \A r \in api_create_branch \union tool_create_branch \union api_branch_create : Fine(r)
    BY <1>3, <1>4, <1>5, <1>7 DEF api_create_branch, tool_create_branch, api_branch_create
  <1>14. \A r \in api_delete_branch_handler \union tool_archive_branch
                  \union api_merge_branch_handler \union tool_merge_branch : Fine(r)
    BY <1>3, <1>4, <1>6 DEF api_delete_branch_handler, tool_archive_branch,
                            api_merge_branch_handler, tool_merge_branch
  <1>15. \A r \in api_eval : Fine(r)
    BY <1>3, <1>6 DEF api_eval
  <1>16. \A r \in api_import_json \union api_retract_all \union api_wipe : Fine(r)
    BY <1>3, <1>4, <1>6 DEF api_import_json, api_retract_all, api_wipe
  <1>17. \A r \in api_exom_mode \union tool_exom_mode \union api_session_join
                  \union tool_session_join \union tool_session_close : Fine(r)
    BY <1>3, <1>4, <1>8, <1>9, <1>10 DEF api_exom_mode, tool_exom_mode, api_session_join,
                                         tool_session_join, tool_session_close
  <1>18. \A r \in Handlers : Fine(r)
    BY <1>11, <1>12, <1>13, <1>14, <1>15, <1>16, <1>17 DEF Handlers
  <1>19. QED
    BY <1>18 DEF Fine

-----------------------------------------------------------------------------
(* A request goes on *)

\* What is left of a request's steps once it has taken one of them.
LEMMA RestOfChain ==
  ASSUME NEW todo, Chain(todo), todo # <<>>
  PROVE  /\ Chain(Tail(todo)) /\ Len(Tail(todo)) = Len(todo) - 1
         /\ \A i \in 1..Len(Tail(todo)) : Tail(todo)[i] = todo[i + 1] /\ i + 1 \in 1..Len(todo)
         /\ Head(todo) = todo[1]
         /\ Tail(todo) # <<>> => /\ Head(Tail(todo)) # "store"
                                 /\ Follows(Head(todo), Head(Tail(todo)))
                                 /\ Head(Tail(todo)) = todo[2] /\ Head(Tail(todo)) = Tail(todo)[1]
         /\ Head(todo) = "precheck" => /\ Tail(todo) # <<>>
                                       /\ \A i \in 1..Len(Tail(todo)) : Tail(todo)[i] \in GatedSteps
  <1> DEFINE t == Tail(todo)
             n == Len(todo)
  <1>1. todo \in Seq(Steps)
    BY DEF Chain
  <1>2. n \in Nat \ {0} /\ t \in Seq(Steps) /\ Len(t) = n - 1 /\ Head(todo) = todo[1]
        /\ \A i \in 1..(n - 1) : t[i] = todo[i + 1]
    BY <1>1
  <1>3. \A i \in 1..n : /\ todo[i] = "store" => i = 1
                        /\ todo[i] = "precheck" => i < n
                        /\ i > 1 => Follows(todo[i - 1], todo[i])
                        /\ \A j \in 1..(i - 1) : todo[j] = "precheck" => todo[i] \in GatedSteps
    BY DEF Chain
  <1>4. t # <<>> => Len(t) \in Nat \ {0} /\ Head(t) = t[1]
    BY <1>2
  <1> HIDE DEF t, n
  <1>5. t = <<>> => Len(t) = 0
    OBVIOUS
  <1>6. \A i \in 1..(n - 1) : /\ i + 1 \in 1..n /\ i + 1 # 1 /\ i + 1 > 1 /\ (i + 1) - 1 = i
                              /\ 1 \in 1..((i + 1) - 1)
                              /\ i > 1 => i - 1 \in 1..(n - 1) /\ (i - 1) + 1 = i
                              /\ \A j \in 1..(i - 1) : j \in 1..(n - 1) /\ j + 1 \in 1..((i + 1) - 1)
                              /\ i + 1 < n => i < n - 1
    BY <1>2
  <1>7. \A i \in 1..(n - 1) : /\ t[i] = todo[i + 1]
                              /\ t[i] # "store"
                              /\ t[i] = "precheck" => i < n - 1
                              /\ Follows(todo[i], t[i])
                              /\ todo[1] = "precheck" => t[i] \in GatedSteps
    BY <1>2, <1>3, <1>6
  <1>8. \A i \in 1..(n - 1) : i > 1 => Follows(t[i - 1], t[i])
    BY <1>6, <1>7
  <1>9. \A i \in 1..(n - 1) : \A j \in 1..(i - 1) : t[j] = "precheck" => t[i] \in GatedSteps
    <2>1. TAKE i \in 1..(n - 1)
    <2>2. TAKE j \in 1..(i - 1)
    <2>3. t[j] = todo[j + 1] /\ t[i] = todo[i + 1] /\ j + 1 \in 1..((i + 1) - 1) /\ i + 1 \in 1..n
      BY <1>6, <1>7
    <2>4. QED
      BY <1>3, <2>3
  <1>10. Chain(t)
    BY <1>2, <1>7, <1>8, <1>9 DEF Chain
  <1>11. t # <<>> => 1 \in 1..(n - 1)
    BY <1>2, <1>4
  <1>12. t # <<>> => /\ Head(t) # "store" /\ Follows(todo[1], Head(t)) /\ Head(t) = todo[2] /\ Head(t) = t[1]
    BY <1>4, <1>7, <1>11
  <1>13. todo[1] = "precheck" => t # <<>>
    BY <1>2, <1>3, <1>5
  <1>14. QED
    BY <1>2, <1>6, <1>7, <1>10, <1>12, <1>13 DEF t, n

\* A request that goes on may hold something else, which a step that needs exom.json gets as
\* such, and once it is through precheck_write it is behind the gate.
LEMMA RestOK ==
  ASSUME NEW r, RequestOK(r), r.todo # <<>>,
         NEW h \in Rows \union Meta \union {Nobody}, NEW g \in BOOLEAN,
         Head(r.todo) \in {"read_mode", "publish_mode", "mirror_read"} => h \in Meta,
         g => r.gated \/ Head(r.todo) = "precheck",
         NEW m, m = [r EXCEPT !.todo = Tail(@), !.held = h, !.gated = g]
  PROVE  /\ RequestOK(m)
         /\ m.todo # <<>> => Head(m.todo) # "store" /\ Follows(Head(r.todo), Head(m.todo))
  <1>1. /\ r \in Request /\ Chain(r.todo)
        /\ r.gated => \A i \in 1..Len(r.todo) : r.todo[i] \in GatedSteps
    BY DEF RequestOK
  <1> DEFINE todo == r.todo
             t == Tail(todo)
  <1>2. /\ Chain(t) /\ Len(t) = Len(todo) - 1
        /\ \A i \in 1..Len(t) : t[i] = todo[i + 1] /\ i + 1 \in 1..Len(todo)
        /\ t # <<>> => Head(t) # "store" /\ Follows(Head(todo), Head(t))
        /\ Head(todo) = "precheck" => \A i \in 1..Len(t) : t[i] \in GatedSteps
    BY <1>1, RestOfChain
  <1>3. t \in Seq(Steps)
    BY <1>2 DEF Chain
  <1> HIDE DEF t
  <1>4. m \in Request /\ m.todo = t /\ m.held = h /\ m.gated = g
    BY <1>1, <1>3 DEF Request, t
  <1>5. g => \A i \in 1..Len(t) : t[i] \in GatedSteps
    BY <1>1, <1>2
  <1>6. t # <<>> => HoldsFor(m, Head(t))
    BY <1>2, <1>4 DEF HoldsFor, Follows
  <1>7. QED
    BY <1>2, <1>4, <1>5, <1>6 DEF RequestOK

\* claim_branch and create_branch store the table they hold before they go on.
LEMMA HoldingOK ==
  ASSUME NEW r, RequestOK(r), r.todo # <<>>, NEW rows \in Rows,
         Head(r.todo) \in {"claim", "branch_on_disk"},
         NEW m, m = [r EXCEPT !.held = rows, !.todo = <<"store">> \o Tail(@)]
  PROVE  RequestOK(m) /\ m.todo # <<>> /\ Head(m.todo) = "store"
  <1>1. /\ r \in Request /\ Chain(r.todo)
        /\ r.gated => \A i \in 1..Len(r.todo) : r.todo[i] \in GatedSteps
    BY DEF RequestOK
  <1> DEFINE todo == r.todo
             t == Tail(todo)
             o == <<"store">>
             s == o \o t
  <1>2. /\ Chain(t) /\ Len(t) = Len(todo) - 1
        /\ \A i \in 1..Len(t) : t[i] = todo[i + 1] /\ i + 1 \in 1..Len(todo)
        /\ t # <<>> => Head(t) # "store" /\ Follows(Head(todo), Head(t)) /\ Head(t) = t[1]
    BY <1>1, RestOfChain
  <1>3. t \in Seq(Steps) /\ "store" \in Steps
    BY <1>2 DEF Chain, Steps
  <1>4. Chain(o) /\ o # <<>> /\ Len(o) = 1 /\ o[1] = "store"
    BY <1>3, SingleChain
  <1>5. o \in Seq(Steps) /\ \A x : o \o <<>> = o
    BY <1>3
  <1> HIDE DEF t, o
  <1>6. t # <<>> => Follows(o[1], t[1]) /\ t[1] # "store"
    BY <1>1, <1>2, <1>4 DEF Follows, Writes
  <1>7. Chain(s) /\ s # <<>> /\ Len(s) = 1 + Len(t) /\ s[1] = "store"
        /\ \A i \in 1..Len(t) : s[1 + i] = t[i]
    <2>1. CASE t = <<>>
      <3>1. s = o /\ Len(t) = 0
        BY <1>5, <2>1
      <3>2. QED
        BY <1>4, <3>1
    <2>2. CASE t # <<>>
      <3>1. /\ t[1] # "store" /\ Follows(o[Len(o)], t[1]) /\ o[Len(o)] # "precheck"
            /\ ((\E j \in 1..Len(o) : o[j] = "precheck") => \A i \in 1..Len(t) : t[i] \in GatedSteps)
            /\ Chain(o) /\ Chain(t) /\ o # <<>> /\ t # <<>>
        BY <1>2, <1>4, <1>6, <2>2
      <3>2. /\ Chain(o \o t) /\ o \o t # <<>>
            /\ Len(o \o t) = Len(o) + Len(t)
            /\ \A i \in 1..Len(o) : (o \o t)[i] = o[i]
            /\ \A i \in 1..Len(t) : (o \o t)[Len(o) + i] = t[i]
        BY ONLY <3>1, JoinedChains
      <3>3. QED
        BY <1>4, <3>2
    <2>3. QED
      BY <2>1, <2>2
  <1>8. s \in Seq(Steps)
    BY <1>7 DEF Chain
  <1>9. Len(t) \in Nat
    BY <1>3
  <1> HIDE DEF s
  <1>10. m \in Request /\ m.todo = s /\ m.held = rows /\ m.gated = r.gated
    BY <1>1, <1>8 DEF Request, s, t, o
  <1>11. m.gated => \A i \in 1..Len(s) : s[i] \in GatedSteps
    <2>1. "store" \in GatedSteps
      BY DEF GatedSteps
    <2>2. \A i \in 1..Len(s) : i = 1 \/ (i - 1 \in 1..Len(t) /\ 1 + (i - 1) = i)
      BY <1>7, <1>9
    <2>3. r.gated => \A i \in 1..Len(t) : t[i] \in GatedSteps
      BY <1>1, <1>2
    <2>4. ASSUME m.gated, NEW i \in 1..Len(s)
          PROVE  s[i] \in GatedSteps
      <3>1. CASE i = 1
        BY <1>7, <2>1, <3>1
      <3>2. CASE i - 1 \in 1..Len(t) /\ 1 + (i - 1) = i
        <4>1. s[i] = t[i - 1]
          BY <1>7, <3>2
        <4>2. QED
          BY <1>10, <2>3, <2>4, <3>2, <4>1
      <3>3. QED
        BY <2>2, <3>1, <3>2
    <2>5. QED
      BY <2>4
  <1>12. Head(s) = "store"
    BY <1>7, <1>8
  <1>13. QED
    BY <1>7, <1>10, <1>11, <1>12 DEF RequestOK, HoldsFor

-----------------------------------------------------------------------------
(* A step keeps the invariant *)

Unchanged == UNCHANGED <<begun, crashes>>

\* What exom.json, the tables and the cache hold.
StateOK ==
    /\ meta \in Meta
    /\ disk \in Brain
    /\ cache = Absent \/ cache \in [brain : Brain, mode : Modes]
    /\ CachedLogIsDisk

LEMMA TypesAgain ==
  ASSUME TypeOK, NEW p \in Slots
  PROVE  /\ meta \in Meta /\ disk \in Brain /\ disk.rows \in Rows /\ meta.mode \in Modes
         /\ req[p] \in Request /\ req[p].user \in Users /\ req[p].branch \in Branches
         /\ req[p].held \in Rows \union Meta \union {Nobody}
         /\ req[p].gated \in BOOLEAN /\ req[p].alone \in BOOLEAN
         /\ req[p].todo \in Seq(Steps)
  BY DEF TypeOK, Request, Brain, Meta

LEMMA NothingOK == RequestOK(Nothing) /\ ~Nothing.alone /\ Nothing.todo = <<>>
  <1>1. Nothing.todo = <<>> /\ ~Nothing.gated /\ ~Nothing.alone
    BY DEF Nothing
  <1>2. <<>> \in Seq(Steps)
    OBVIOUS
  <1>3. Nothing \in Request
    BY <1>2, GateAssumption DEF Nothing, Request, Preds
  <1>4. QED
    BY <1>1, <1>3, NoSteps DEF RequestOK

\* Whatever a step of p does, the requests beside it stay as they are.
LEMMA StepKeeps ==
  ASSUME GateInv, NEW p \in Slots, Busy(p), NEW r, Goes(p, r), RequestOK(r),
         r.alone => req[p].alone,
         r.alone /\ r.todo # <<>> => ClaimCarried(r, meta', disk', cache'),
         StateOK', Unchanged
  PROVE  GateInv'
  <1> DEFINE m == IF r.todo = <<>> THEN Nothing ELSE r
  <1>1. /\ TypeOK /\ (\A q \in Slots : RequestOK(req[q])) /\ Alone
        /\ \A q \in Slots : req[q].alone => ClaimCarried(req[q], meta, disk, cache)
    BY DEF GateInv
  <1>2. RequestOK(Nothing) /\ ~Nothing.alone
    BY NothingOK
  <1>3. RequestOK(m) /\ m \in Request
    BY <1>2 DEF RequestOK
  <1>4. m.alone => m = r /\ r.todo # <<>> /\ req[p].alone
    BY <1>2
  <1>5. req \in [Slots -> Request] /\ req' = [req EXCEPT ![p] = m]
    BY <1>1 DEF TypeOK, Goes
  <1> HIDE DEF m
  <1>6. /\ req' \in [Slots -> Request] /\ req'[p] = m
        /\ \A q \in Slots : q # p => req'[q] = req[q]
    BY <1>3, <1>5
  <1>7. TypeOK'
    BY <1>1, <1>6 DEF TypeOK, StateOK, Unchanged
  <1>8. \A q \in Slots : RequestOK(req'[q])
    BY <1>1, <1>3, <1>6
  <1>9. \A q \in Slots : q # p => ~req'[q].alone
    BY <1>1, <1>6 DEF Alone, Busy
  <1>10. ASSUME NEW q \in Slots, req'[q].alone
         PROVE  /\ q = p /\ req'[q] = r
                /\ r.todo # <<>> /\ ClaimCarried(r, meta', disk', cache')
                /\ \A o \in Slots : o # p => req'[o].todo = <<>>
    <2>1. q = p /\ m = r /\ r.todo # <<>> /\ req[p].alone
      BY <1>4, <1>6, <1>9, <1>10
    <2>2. \A o \in Slots : o # p => Idle(o)
      BY <1>1, <2>1 DEF Alone
    <2>3. QED
      BY <1>6, <1>10, <2>1, <2>2 DEF Idle
  <1>11. Alone'
    BY <1>10 DEF Alone, Busy, Idle
  <1>12. \A q \in Slots : req'[q].alone => ClaimCarried(req'[q], meta', disk', cache')
    BY <1>10
  <1>13. QED
    BY <1>7, <1>8, <1>11, <1>12 DEF GateInv, StateOK

LEMMA Refusing ==
  ASSUME GateInv, NEW p \in Slots, Busy(p), Refuse(p), StateOK', Unchanged
  PROVE  GateInv'
  BY StepKeeps, NothingOK DEF Refuse

LEMMA GoingOn ==
  ASSUME GateInv, NEW p \in Slots, NEW step, At(p, step),
         NEW h \in Rows \union Meta \union {Nobody}, NEW g \in BOOLEAN,
         step \in {"read_mode", "publish_mode", "mirror_read"} => h \in Meta,
         g => req[p].gated \/ step = "precheck",
         Goes(p, [req[p] EXCEPT !.todo = Tail(@), !.held = h, !.gated = g]),
         req[p].alone /\ g /\ step \in {"claim", "store", "evict"} => ClaimedFor(req[p], meta', disk'),
         step = "evict" => cache' = Absent,
         StateOK', Unchanged
  PROVE  GateInv'
  <1> DEFINE r == [req[p] EXCEPT !.todo = Tail(@), !.held = h, !.gated = g]
             o == req[p]
  <1>1. RequestOK(o) /\ Busy(p) /\ o.todo # <<>> /\ Head(o.todo) = step /\ o \in Request
        /\ (o.gated => \A i \in 1..Len(o.todo) : o.todo[i] \in GatedSteps)
        /\ o.todo \in Seq(Steps)
    BY DEF GateInv, At, Busy, Idle, RequestOK, Chain
  <1>2. RequestOK(r) /\ (r.todo # <<>> => Head(r.todo) # "store" /\ Follows(step, Head(r.todo)))
    BY <1>1, RestOK
  <1>3. r.user = o.user /\ r.branch = o.branch /\ r.alone = o.alone /\ r.gated = g
    BY <1>1 DEF Request
  <1>4. o.gated => step \in GatedSteps
    BY <1>1
  <1>5. Goes(p, r)
    OBVIOUS
  <1> HIDE DEF r
  <1>6. ASSUME r.alone, r.todo # <<>>
        PROVE  ClaimCarried(r, meta', disk', cache')
    <2>1. Head(r.todo) # "store" /\ Follows(step, Head(r.todo))
      BY <1>2, <1>6
    <2>2. ASSUME r.gated, Head(r.todo) \in {"evict"} \union Writes
          PROVE  step \in {"claim", "store", "evict"} /\ (Head(r.todo) \in Writes => step = "evict")
      <3>1. step # "guard_write"
        BY <1>3, <1>4, <2>2 DEF GatedSteps, Writes
      <3>2. QED
        BY <2>1, <2>2, <3>1 DEF Follows, Writes
    <2>3. r.gated /\ Head(r.todo) \in {"evict"} \union Writes => ClaimedFor(r, meta', disk')
      BY <1>3, <1>6, <2>2 DEF ClaimedFor, Owned
    <2>4. r.gated /\ Head(r.todo) \in Writes => cache' = Absent
      BY <2>2
    <2>5. QED
      BY <2>1, <2>3, <2>4 DEF ClaimCarried
  <1>7. QED
    BY <1>1, <1>2, <1>3, <1>5, <1>6, StepKeeps

LEMMA Advancing ==
  ASSUME GateInv, NEW p \in Slots, NEW step, At(p, step), Advance(p),
         step \notin {"read_mode", "mirror_read"},
         req[p].alone /\ req[p].gated /\ step \in {"claim", "store", "evict"} =>
            ClaimedFor(req[p], meta', disk'),
         step = "evict" => cache' = Absent,
         StateOK', Unchanged
  PROVE  GateInv'
  <1>1. req[p] \in Request /\ RequestOK(req[p]) /\ TypeOK
        /\ req[p].todo # <<>> /\ Head(req[p].todo) = step
    BY DEF GateInv, RequestOK, At, Busy, Idle
  <1>2. req[p].held \in Rows \union Meta \union {Nobody} /\ req[p].gated \in BOOLEAN
        /\ req[p].todo \in Seq(Steps)
    BY <1>1, TypesAgain
  <1>3. step = "publish_mode" => req[p].held \in Meta
    BY <1>1 DEF RequestOK, HoldsFor
  <1>4. Rest(p) = [req[p] EXCEPT !.todo = Tail(@), !.held = req[p].held, !.gated = req[p].gated]
    BY <1>1 DEF Rest, Request
  <1>5. Goes(p, [req[p] EXCEPT !.todo = Tail(@), !.held = req[p].held, !.gated = req[p].gated])
    BY <1>4 DEF Advance
  <1>6. step \in {"read_mode", "publish_mode", "mirror_read"} => req[p].held \in Meta
    BY <1>3
  <1>7. QED
    BY <1>2, <1>5, <1>6, GoingOn

-----------------------------------------------------------------------------
(* Branch rows *)

LEMMA NoRowsOK == NoRows \in Rows /\ EmptyBrain \in Brain
  <1>1. NoRows \in Rows
    BY DEF NoRows, Rows, Row, Unclaimed
  <1>2. <<>> \in Seq(Tx) /\ {} \in SUBSET Branches
    OBVIOUS
  <1>3. QED
    BY <1>1, <1>2 DEF EmptyBrain, Brain

LEMMA PushedOK ==
  ASSUME NEW rows \in Rows, NEW b \in Branches
  PROVE  /\ Pushed(rows, b) \in Rows
         /\ \A c \in Branches : c # b => Pushed(rows, b)[c] = rows[c]
  BY DEF Pushed, Rows, Row, Unclaimed

LEMMA ClaimedRowsOK ==
  ASSUME NEW rows \in Rows, NEW b \in Branches, NEW u \in Users \union {Nobody},
         NEW new, new = [rows EXCEPT ![b].owner = u]
  PROVE  new \in Rows /\ new[b].owner = u /\ \A c \in Branches : c # b => new[c] = rows[c]
  <1>1. rows[b] \in Row /\ rows \in [Branches -> Row]
    BY DEF Rows
  <1>2. [rows[b] EXCEPT !.owner = u] \in Row /\ [rows[b] EXCEPT !.owner = u].owner = u
    BY <1>1 DEF Row
  <1>3. new = [rows EXCEPT ![b] = [rows[b] EXCEPT !.owner = u]]
    BY <1>1
  <1>4. QED
    BY <1>1, <1>2, <1>3 DEF Rows

\* The table is away only while another request runs.
LEMMA RowsReadOK ==
  ASSUME GateInv, NEW p \in Slots, NEW rows \in RowsRead(p)
  PROVE  rows \in Rows /\ (req[p].alone => rows = disk.rows)
  <1>1. TypeOK /\ Alone
    BY DEF GateInv
  <1>2. disk.rows \in Rows
    BY <1>1, TypesAgain
  <1>3. rows = disk.rows \/ (rows = NoRows /\ \E q \in Slots \ {p} : Swapping(q))
    BY DEF RowsRead
  <1>4. req[p].alone => \A q \in Slots \ {p} : ~Busy(q)
    BY <1>1 DEF Alone, Busy
  <1>5. \A q \in Slots : Swapping(q) => Busy(q)
    BY DEF Swapping, At
  <1>6. QED
    BY <1>2, <1>3, <1>4, <1>5, NoRowsOK

-----------------------------------------------------------------------------
(* Steps that change no state of the exom *)

LEMMA StateAgain ==
  ASSUME GateInv, UNCHANGED <<meta, disk, cache>>
  PROVE  StateOK /\ StateOK' /\ UNCHANGED meta /\ UNCHANGED disk /\ UNCHANGED cache
  BY DEF GateInv, TypeOK, StateOK, CachedLogIsDisk

LEMMA Guarding ==
  ASSUME GateInv, NEW p \in Slots, Busy(p), Unchanged,
         GuardWrite(p) \/ GuardOwner(p) \/ Join(p) \/ Orchestrator(p)
  PROVE  GateInv'
  <1>1. StateOK'
    BY StateAgain DEF GuardWrite, GuardOwner, Join, Orchestrator
  <1>2. \E step \in {"guard_write", "guard_owner", "join", "orchestrator"} : At(p, step) /\ (Advance(p) \/ Refuse(p))
    BY DEF GuardWrite, GuardOwner, Join, Orchestrator, Pass
  <1>3. QED
    BY <1>1, <1>2, Refusing, Advancing

LEMMA Prechecking ==
  ASSUME GateInv, NEW p \in Slots, Unchanged, Precheck(p)
  PROVE  GateInv'
  <1> DEFINE o == req[p]
             passed == [Rest(p) EXCEPT !.gated = TRUE]
             skipped == [passed EXCEPT !.todo = Tail(@)]
  <1>1. /\ At(p, "precheck") /\ UNCHANGED <<meta, disk, cache>>
        /\ \/ Refuse(p)
           \/ o.branch = Main /\ meta.mode = "co-edit" /\ Goes(p, skipped)
           \/ Goes(p, passed)
    BY DEF Precheck
  <1>2. StateOK' /\ UNCHANGED meta /\ UNCHANGED disk /\ UNCHANGED cache
    BY <1>1, StateAgain
  <1>3. RequestOK(o) /\ Busy(p) /\ o.todo # <<>> /\ Head(o.todo) = "precheck" /\ o \in Request
        /\ o.held \in Rows \union Meta \union {Nobody}
    BY <1>1 DEF GateInv, At, Busy, Idle, RequestOK, Request
  <1>4. passed = [o EXCEPT !.todo = Tail(@), !.held = o.held, !.gated = TRUE]
    BY <1>3 DEF Rest, Request
  <1>5. CASE Refuse(p)
    BY <1>2, <1>3, <1>5, Refusing
  <1>6. CASE Goes(p, passed)
    <2>1. Goes(p, [o EXCEPT !.todo = Tail(@), !.held = o.held, !.gated = TRUE])
      BY <1>4, <1>6
    <2>2. QED
      BY <1>1, <1>2, <1>3, <2>1, GoingOn
  <1>7. CASE o.branch = Main /\ meta.mode = "co-edit" /\ Goes(p, skipped)
    <2>1. RequestOK(passed)
      BY <1>3, <1>4, RestOK
    <2>2. passed \in Request /\ passed.todo = Tail(o.todo) /\ passed.held = o.held /\ passed.gated
          /\ passed.user = o.user /\ passed.branch = o.branch /\ passed.alone = o.alone
      BY <1>3, <2>1 DEF Rest, Request, RequestOK
    <2>3. /\ Tail(o.todo) # <<>> /\ Follows("precheck", Head(Tail(o.todo)))
      BY <1>3, RestOfChain DEF RequestOK
    <2>4. Head(passed.todo) = "claim" /\ passed.todo # <<>>
      BY <2>2, <2>3 DEF Follows
    <2> HIDE DEF passed
    <2>5. skipped = [passed EXCEPT !.todo = Tail(@), !.held = passed.held, !.gated = TRUE]
      BY <2>2 DEF Request
    <2>6. passed.held \in Rows \union Meta \union {Nobody}
      BY <1>3, <2>2
    <2>7. RequestOK(skipped) /\ (skipped.todo # <<>> => Head(skipped.todo) # "store" /\ Follows("claim", Head(skipped.todo)))
      <3>1. Head(passed.todo) \notin {"read_mode", "publish_mode", "mirror_read"} /\ TRUE \in BOOLEAN
        BY <2>4
      <3>2. /\ RequestOK(skipped)
            /\ skipped.todo # <<>> =>
                  Head(skipped.todo) # "store" /\ Follows(Head(passed.todo), Head(skipped.todo))
        BY <2>1, <2>2, <2>4, <2>5, <2>6, <3>1, RestOK
      <3>3. QED
        BY <2>4, <3>2
    <2>8. skipped.branch = o.branch /\ skipped.alone = o.alone /\ skipped.gated
      BY <2>2 DEF Request
    <2> HIDE DEF skipped
    <2>9. skipped.todo # <<>> => ClaimCarried(skipped, meta', disk', cache')
      <3>1. ClaimedFor(skipped, meta', disk')
        BY <1>2, <1>7, <2>8 DEF ClaimedFor
      <3>2. skipped.todo # <<>> => Head(skipped.todo) \notin Writes
        BY <2>7 DEF Follows, Writes
      <3>3. QED
        BY <2>7, <3>1, <3>2 DEF ClaimCarried
    <2>10. QED
      BY <1>2, <1>3, <1>7, <2>7, <2>8, <2>9, StepKeeps
  <1>8. QED
    BY <1>1, <1>5, <1>6, <1>7

LEMMA Beginning ==
  ASSUME GateInv, NEW p \in Slots, NEW step, At(p, step)
  PROVE  /\ RequestOK(req[p]) /\ Busy(p) /\ req[p].todo # <<>> /\ Head(req[p].todo) = step
         /\ req[p] \in Request /\ HoldsFor(req[p], step)
         /\ req[p].alone => ClaimCarried(req[p], meta, disk, cache)
         /\ req[p].gated => step \in GatedSteps
  <1>1. RequestOK(req[p]) /\ req[p].todo # <<>> /\ Head(req[p].todo) = step /\ Busy(p)
        /\ (req[p].alone => ClaimCarried(req[p], meta, disk, cache))
    BY DEF GateInv, At, Busy, Idle
  <1>2. Head(req[p].todo) = req[p].todo[1] /\ 1 \in 1..Len(req[p].todo)
    <2> DEFINE todo == req[p].todo
    <2>1. todo \in Seq(Steps) /\ todo # <<>>
      BY <1>1 DEF RequestOK, Chain
    <2> HIDE DEF todo
    <2>2. Head(todo) = todo[1] /\ Len(todo) \in Nat \ {0}
      BY <2>1
    <2>3. QED
      BY <2>2 DEF todo
  <1>3. QED
    BY <1>1, <1>2 DEF RequestOK

\* The branch table that is stored goes on with what the request held.
LEMMA HoldingRows ==
  ASSUME GateInv, NEW p \in Slots, NEW step \in {"claim", "branch_on_disk"}, At(p, step),
         NEW rows \in Rows, Holding(p, rows), StateOK', Unchanged, UNCHANGED disk,
         req[p].alone =>
            \/ /\ rows = [disk.rows EXCEPT ![req[p].branch].owner = req[p].user]
               /\ disk.rows[req[p].branch].owner = Nobody
            \/ /\ rows = Pushed(disk.rows, req[p].branch)
               /\ ~Live(disk.rows, req[p].branch)
               /\ ~req[p].gated
  PROVE  GateInv'
  <1> DEFINE o == req[p]
             m == [o EXCEPT !.held = rows, !.todo = <<"store">> \o Tail(@)]
  <1>1. /\ RequestOK(o) /\ Busy(p) /\ o.todo # <<>> /\ Head(o.todo) = step /\ o \in Request
    BY Beginning
  <1>2. RequestOK(m) /\ m.todo # <<>> /\ Head(m.todo) = "store"
    BY <1>1, HoldingOK
  <1>3. m.held = rows /\ m.user = o.user /\ m.branch = o.branch /\ m.alone = o.alone /\ m.gated = o.gated
    BY <1>1 DEF Request
  <1>4. Goes(p, m)
    BY DEF Holding
  <1> HIDE DEF m
  <1>5. m.alone => ClaimCarried(m, meta', disk', cache')
    BY <1>2, <1>3 DEF ClaimCarried, Writes
  <1>6. QED
    BY <1>1, <1>2, <1>3, <1>4, <1>5, StepKeeps

LEMMA Claiming ==
  ASSUME GateInv, NEW p \in Slots, Unchanged, Claim(p)
  PROVE  GateInv'
  <1> DEFINE o == req[p]
             b == o.branch
  <1>1. At(p, "claim") /\ UNCHANGED <<meta, disk, cache>>
    BY DEF Claim
  <1>2. StateOK' /\ UNCHANGED meta /\ UNCHANGED disk /\ UNCHANGED cache
    BY <1>1, StateAgain
  <1>3. o.user \in Users /\ b \in Branches /\ Busy(p)
    BY <1>1, TypesAgain DEF GateInv, At
  <1>4. PICK rows \in RowsRead(p) :
              IF ~Live(rows, b) THEN Refuse(p)
              ELSE IF rows[b].owner = o.user THEN Advance(p)
              ELSE IF Claimable(rows[b]) THEN Holding(p, [rows EXCEPT ![b].owner = o.user])
              ELSE Refuse(p)
    BY DEF Claim
  <1>5. rows \in Rows /\ (o.alone => rows = disk.rows)
    BY RowsReadOK
  <1>6. CASE Refuse(p)
    BY <1>2, <1>3, <1>6, Refusing
  <1>7. CASE rows[b].owner = o.user /\ Advance(p)
    <2>1. o.alone => ClaimedFor(o, meta', disk')
      BY <1>2, <1>5, <1>7 DEF ClaimedFor, Owned
    <2>2. QED
      BY <1>1, <1>2, <1>7, <2>1, Advancing
  <1>8. CASE Claimable(rows[b]) /\ Holding(p, [rows EXCEPT ![b].owner = o.user])
    <2> DEFINE new == [rows EXCEPT ![b].owner = o.user]
    <2>1. new \in Rows
      BY <1>3, <1>5, ClaimedRowsOK
    <2>2. o.alone => new = [disk.rows EXCEPT ![b].owner = o.user] /\ disk.rows[b].owner = Nobody
      BY <1>5, <1>8 DEF Claimable
    <2>3. Holding(p, new)
      BY <1>8
    <2> HIDE DEF new
    <2>4. QED
      BY <1>1, <1>2, <2>1, <2>2, <2>3, HoldingRows
  <1>9. QED
    BY <1>4, <1>6, <1>7, <1>8

LEMMA Branching ==
  ASSUME GateInv, NEW p \in Slots, Unchanged, BranchOnDisk(p)
  PROVE  GateInv'
  <1> DEFINE o == req[p]
             b == o.branch
  <1>1. At(p, "branch_on_disk") /\ UNCHANGED <<meta, disk, cache>>
    BY DEF BranchOnDisk
  <1>2. StateOK' /\ UNCHANGED meta /\ UNCHANGED disk /\ UNCHANGED cache
    BY <1>1, StateAgain
  <1>3. b \in Branches
    BY <1>1, TypesAgain DEF GateInv
  <1>4. PICK rows \in RowsRead(p) :
              IF Live(rows, b) THEN Advance(p) ELSE Holding(p, Pushed(rows, b))
    BY DEF BranchOnDisk
  <1>5. rows \in Rows /\ (o.alone => rows = disk.rows)
    BY RowsReadOK
  <1>6. CASE Advance(p)
    BY <1>1, <1>2, <1>6, Advancing
  <1>7. CASE ~Live(rows, b) /\ Holding(p, Pushed(rows, b))
    <2> DEFINE new == Pushed(rows, b)
    <2>1. new \in Rows
      BY <1>3, <1>5, PushedOK
    <2>2. ~o.gated
      BY <1>1, Beginning DEF GatedSteps, Writes
    <2>3. o.alone => new = Pushed(disk.rows, b) /\ ~Live(disk.rows, b) /\ ~o.gated
      BY <1>5, <1>7, <2>2
    <2>4. Holding(p, new)
      BY <1>7
    <2> HIDE DEF new
    <2>5. QED
      BY <1>1, <1>2, <2>1, <2>3, <2>4, HoldingRows
  <1>8. QED
    BY <1>4, <1>6, <1>7

\* Storing the rows changes no transaction and no close marker.
LEMMA StoredRows ==
  ASSUME GateInv, NEW rows \in Rows, disk' = [disk EXCEPT !.rows = rows],
         UNCHANGED <<meta, cache>>
  PROVE  StateOK' /\ disk'.rows = rows /\ disk'.log = disk.log /\ disk'.closed = disk.closed
  <1>1. TypeOK /\ CachedLogIsDisk /\ disk \in Brain
    BY DEF GateInv, TypeOK
  <1>2. disk' \in Brain /\ disk'.rows = rows /\ disk'.log = disk.log /\ disk'.closed = disk.closed
    BY <1>1 DEF Brain
  <1>3. CachedLogIsDisk'
    BY <1>1, <1>2 DEF CachedLogIsDisk
  <1>4. QED
    BY <1>1, <1>2, <1>3 DEF StateOK, TypeOK

LEMMA Storing ==
  ASSUME GateInv, NEW p \in Slots, Unchanged, Store(p)
  PROVE  GateInv'
  <1> DEFINE o == req[p]
  <1>1. At(p, "store") /\ disk' = [disk EXCEPT !.rows = o.held] /\ UNCHANGED <<meta, cache>>
        /\ Goes(p, [Rest(p) EXCEPT !.held = Nobody])
    BY DEF Store
  <1>2. /\ o \in Request /\ o.held \in Rows /\ o.gated \in BOOLEAN
        /\ o.branch \in Branches /\ o.user \in Users
        /\ o.alone => ClaimCarried(o, meta, disk, cache)
        /\ Head(o.todo) = "store"
    BY <1>1, Beginning DEF HoldsFor, Request
  <1>3. StateOK' /\ disk'.rows = o.held
    BY <1>1, <1>2, StoredRows
  <1>4. Goes(p, [o EXCEPT !.todo = Tail(@), !.held = Nobody, !.gated = o.gated])
    <2>1. [Rest(p) EXCEPT !.held = Nobody] = [o EXCEPT !.todo = Tail(@), !.held = Nobody, !.gated = o.gated]
      BY <1>2 DEF Rest, Request
    <2>2. QED
      BY <1>1, <2>1
  <1>5. o.alone /\ o.gated => ClaimedFor(o, meta', disk')
    <2>1. disk.rows \in Rows
      BY TypesAgain DEF GateInv
    <2>2. o.alone /\ o.gated => o.held = [disk.rows EXCEPT ![o.branch].owner = o.user]
      BY <1>2 DEF ClaimCarried
    <2>3. o.alone /\ o.gated => o.held[o.branch].owner = o.user
      <3>1. o.user \in Users \union {Nobody}
        BY <1>2
      <3>2. QED
        BY <1>2, <2>1, <2>2, <3>1, ClaimedRowsOK
    <2>4. QED
      BY <1>3, <2>3 DEF ClaimedFor, Owned
  <1> HIDE DEF o
  <1>6. Nobody \in Rows \union Meta \union {Nobody}
    OBVIOUS
  <1>7. QED
    BY <1>1, <1>2, <1>3, <1>4, <1>5, <1>6, GoingOn DEF o

LEMMA Evicting ==
  ASSUME GateInv, NEW p \in Slots, Unchanged, Evict(p)
  PROVE  GateInv'
  <1>1. At(p, "evict") /\ cache' = Absent /\ Advance(p) /\ UNCHANGED meta /\ UNCHANGED disk
    BY DEF Evict
  <1>2. StateOK'
    BY <1>1 DEF GateInv, TypeOK, StateOK, CachedLogIsDisk
  <1>3. req[p].alone /\ req[p].gated => ClaimedFor(req[p], meta', disk')
    BY <1>1, Beginning DEF ClaimCarried, ClaimedFor
  <1>4. QED
    BY <1>1, <1>2, <1>3, Advancing

LEMMA ReadingMeta ==
  ASSUME GateInv, NEW p \in Slots, Unchanged, ReadMode(p) \/ MirrorRead(p)
  PROVE  GateInv'
  <1>1. UNCHANGED <<meta, disk, cache>>
    BY DEF ReadMode, MirrorRead
  <1>2. StateOK' /\ meta \in Meta
    BY <1>1, StateAgain DEF StateOK
  <1>3. /\ [meta EXCEPT !.mode = Other(@)] \in Meta
        /\ Mirrored(meta, req[p].pred) \in Meta
    BY <1>2 DEF Meta, Modes, Other, Mirrored
  <1>4. PICK step \in {"read_mode", "mirror_read"} :
           At(p, step) /\ (Refuse(p) \/ \E h \in Meta : Goes(p, [Rest(p) EXCEPT !.held = h]))
    BY <1>3 DEF ReadMode, MirrorRead
  <1>5. Busy(p) /\ req[p] \in Request /\ req[p].gated \in BOOLEAN
    BY <1>4, Beginning DEF Request
  <1>6. CASE Refuse(p)
    BY <1>2, <1>5, <1>6, Refusing
  <1>7. ASSUME NEW h \in Meta, Goes(p, [Rest(p) EXCEPT !.held = h])
        PROVE  GateInv'
    <2>1. [Rest(p) EXCEPT !.held = h] = [req[p] EXCEPT !.todo = Tail(@), !.held = h, !.gated = req[p].gated]
      BY <1>5 DEF Rest, Request
    <2>2. Goes(p, [req[p] EXCEPT !.todo = Tail(@), !.held = h, !.gated = req[p].gated])
      BY <1>7, <2>1
    <2>3. QED
      BY <1>2, <1>4, <1>5, <2>2, GoingOn
  <1>8. QED
    BY <1>4, <1>6, <1>7

LEMMA WritingMeta ==
  ASSUME GateInv, NEW p \in Slots, Unchanged, PublishMode(p) \/ MirrorWrite(p)
  PROVE  GateInv'
  <1>1. PICK step \in {"publish_mode", "mirror_write"} :
           At(p, step) /\ meta' = req[p].held /\ Advance(p) /\ UNCHANGED <<disk, cache>>
    BY DEF PublishMode, MirrorWrite
  <1>2. meta' \in Meta
    BY <1>1, Beginning DEF HoldsFor
  <1>3. StateOK'
    BY <1>1, <1>2 DEF GateInv, TypeOK, StateOK, CachedLogIsDisk
  <1>4. QED
    BY <1>1, <1>3, Advancing

-----------------------------------------------------------------------------
(* Mutations *)

Results3 == [ok : BOOLEAN, brain : Brain, saved : BOOLEAN]

\* A log that is longer than before begins where a closed exom lets it begin.
Grows(old, new) ==
    new.log = old.log \/ new.log = <<>> \/
        /\ Len(new.log) > Len(old.log)
        /\ old.closed # {} => new.log[Len(old.log) + 1].marker

KeepsClaims(old, new) ==
    \A b \in Branches : new.rows[b].owner = old.rows[b].owner \/ ~Live(old.rows, b)

\* The claim on the branch of a transaction stays.
WritesItsBranch(r, old, new) ==
    new.log = old.log \/ new.rows[r.branch].owner = old.rows[r.branch].owner

Mutated(r, old, result) == result \in Results3 /\ Grows(old, result.brain)

Gentle(r, old, result) ==
    /\ Mutated(r, old, result)
    /\ KeepsClaims(old, result.brain)
    /\ WritesItsBranch(r, old, result.brain)

LEMMA OutcomesOK ==
  ASSUME NEW brain \in Brain
  PROVE  Ok(brain) \in Results3 /\ Ok(brain).brain = brain /\ Err(brain) \in Results3 /\ Err(brain).brain = brain
  BY DEF Ok, Err, Results3

Committed(old, new, marker) ==
    /\ new \in Brain /\ new.rows = old.rows /\ new.closed = old.closed
    /\ Len(old.log) \in Nat /\ Len(new.log) = Len(old.log) + 1
    /\ new.log[Len(old.log) + 1].marker = marker

LEMMA CommitOK ==
  ASSUME NEW brain \in Brain, NEW u \in Users, NEW b \in Branches, NEW marker \in BOOLEAN
  PROVE  Committed(brain, Commit(brain, u, b, marker), marker)
  <1> DEFINE log == brain.log
             n == Len(log)
             tx == [user |-> u, branch |-> b, marker |-> marker]
             new == Commit(brain, u, b, marker)
  <1>1. log \in Seq(Tx) /\ tx \in Tx /\ tx.marker = marker
    BY DEF Brain, Tx
  <1> HIDE DEF log, tx
  <1>2. /\ Append(log, tx) \in Seq(Tx) /\ Len(Append(log, tx)) = n + 1 /\ n \in Nat
        /\ Append(log, tx)[n + 1] = tx
    BY <1>1
  <1> HIDE DEF n
  <1>3. /\ new \in Brain /\ new.rows = brain.rows /\ new.closed = brain.closed
        /\ new.log = Append(log, tx)
    BY <1>2 DEF Commit, Brain, log, tx
  <1>4. QED
    BY <1>1, <1>2, <1>3 DEF n, log, Committed

LEMMA UnmarkedOK ==
  ASSUME NEW brain \in Brain, NEW u \in Users, NEW b \in Branches
  PROVE  Commit(brain, u, b, FALSE) \in Brain /\ Commit(brain, u, b, FALSE).rows = brain.rows
  <1>1. FALSE \in BOOLEAN
    OBVIOUS
  <1>2. Committed(brain, Commit(brain, u, b, FALSE), FALSE)
    BY <1>1, CommitOK
  <1>3. QED
    BY <1>2 DEF Committed

\* One transaction: what is not about the marker needs an open exom.
LEMMA OneTransaction ==
  ASSUME NEW old \in Brain, NEW u \in Users, NEW b \in Branches, NEW marker \in BOOLEAN,
         NEW new \in Brain, new.log = Commit(old, u, b, marker).log,
         marker \/ old.closed = {}
  PROVE  Grows(old, new)
  <1> DEFINE c == Commit(old, u, b, marker)
             n == Len(old.log)
  <1>1. Len(c.log) = n + 1 /\ n \in Nat /\ c.log[n + 1].marker = marker
    BY CommitOK DEF Committed
  <1> HIDE DEF c, n
  <1>2. new.log = c.log
    BY DEF c
  <1>3. Len(new.log) > n /\ (old.closed # {} => new.log[n + 1].marker)
    BY <1>1, <1>2
  <1>4. QED
    BY <1>3 DEF Grows, n

LEMMA ClosingOK ==
  ASSUME NEW brain \in Brain, NEW u \in Users, NEW b \in Branches
  PROVE  /\ Closing(brain, u, b) \in Brain /\ Closing(brain, u, b).rows = brain.rows
         /\ Closing(brain, u, b).log = Commit(brain, u, b, TRUE).log
         /\ Reopening(brain, u, b) \in Brain /\ Reopening(brain, u, b).rows = brain.rows
         /\ Reopening(brain, u, b).log = Commit(brain, u, b, TRUE).log
         /\ Closing(brain, u, b).closed \in SUBSET Branches
         /\ Reopening(brain, u, b).closed \in SUBSET Branches
  <1> DEFINE c == Commit(brain, u, b, TRUE)
  <1>1. c \in Brain /\ c.rows = brain.rows
    <2>1. TRUE \in BOOLEAN
      OBVIOUS
    <2>2. Committed(brain, c, TRUE)
      BY <2>1, CommitOK
    <2>3. QED
      BY <2>2 DEF Committed
  <1> HIDE DEF c
  <1>2. Closing(brain, u, b) = [c EXCEPT !.closed = @ \union {b}] /\ Reopening(brain, u, b) = [c EXCEPT !.closed = @ \ {b}]
    BY DEF Closing, Reopening, c
  <1>3. c.closed \in SUBSET Branches /\ c.closed \union {b} \in SUBSET Branches /\ c.closed \ {b} \in SUBSET Branches
    BY <1>1 DEF Brain
  <1>4. \A closed \in SUBSET Branches :
           LET new == [c EXCEPT !.closed = closed]
           IN  new \in Brain /\ new.rows = c.rows /\ new.log = c.log /\ new.closed = closed
    BY <1>1 DEF Brain
  <1>5. Closing(brain, u, b) = [c EXCEPT !.closed = c.closed \union {b}] /\ Reopening(brain, u, b) = [c EXCEPT !.closed = c.closed \ {b}]
    BY <1>2
  <1> DEFINE p == Closing(brain, u, b)
             q == Reopening(brain, u, b)
  <1>6. p \in Brain /\ p.rows = c.rows /\ p.log = c.log /\ p.closed \in SUBSET Branches
    BY <1>3, <1>4, <1>5
  <1>7. q \in Brain /\ q.rows = c.rows /\ q.log = c.log /\ q.closed \in SUBSET Branches
    BY <1>3, <1>4, <1>5
  <1> HIDE DEF p, q
  <1>8. QED
    BY <1>1, <1>6, <1>7 DEF c, p, q

LEMMA SameBrain ==
  ASSUME NEW r, NEW brain \in Brain
  PROVE  Gentle(r, brain, Ok(brain)) /\ Gentle(r, brain, Err(brain))
  BY OutcomesOK DEF Gentle, Mutated, Grows, KeepsClaims, WritesItsBranch

\* Transactions that leave the rows alone
LEMMA SameRows ==
  ASSUME NEW r, NEW old \in Brain, NEW new \in Brain, new.rows = old.rows, Grows(old, new)
  PROVE  Gentle(r, old, Ok(new)) /\ Gentle(r, old, Err(new))
  BY OutcomesOK DEF Gentle, Mutated, KeepsClaims, WritesItsBranch

LEMMA AssertingOK ==
  ASSUME NEW r \in Request, NEW brain \in Brain, NEW result \in Asserting(r, brain)
  PROVE  Gentle(r, brain, result) /\ result.brain.rows = brain.rows
  <1>1. r.user \in Users /\ r.branch \in Branches
    BY DEF Request
  <1> DEFINE marker == r.pred = "session/closed_at"
  <1>2. CASE ~Admits(brain, r.branch, marker)
    <2>1. result = Err(brain)
      BY <1>2 DEF Asserting
    <2>2. QED
      BY <2>1, SameBrain, OutcomesOK
  <1>3. CASE Admits(brain, r.branch, marker) /\ marker
    <2>1. result = Ok(Closing(brain, r.user, r.branch))
      BY <1>3 DEF Asserting
    <2>2. /\ Closing(brain, r.user, r.branch) \in Brain /\ Closing(brain, r.user, r.branch).rows = brain.rows
          /\ Closing(brain, r.user, r.branch).log = Commit(brain, r.user, r.branch, TRUE).log
      BY <1>1, ClosingOK
    <2>3. Grows(brain, Closing(brain, r.user, r.branch))
      BY <1>1, <2>2, OneTransaction
    <2>4. QED
      BY <2>1, <2>2, <2>3, SameRows, OutcomesOK
  <1>4. CASE Admits(brain, r.branch, marker) /\ ~marker
    <2>1. result = Ok(Commit(brain, r.user, r.branch, FALSE)) /\ brain.closed = {}
      BY <1>4 DEF Asserting, Admits
    <2>2. Commit(brain, r.user, r.branch, FALSE) \in Brain /\ Commit(brain, r.user, r.branch, FALSE).rows = brain.rows
      BY <1>1, UnmarkedOK
    <2>3. Grows(brain, Commit(brain, r.user, r.branch, FALSE))
      BY <1>1, <2>1, <2>2, OneTransaction
    <2>4. QED
      BY <2>1, <2>2, <2>3, SameRows, OutcomesOK
  <1>5. QED
    BY <1>2, <1>3, <1>4

LEMMA RetractingOK ==
  ASSUME NEW r \in Request, NEW brain \in Brain, NEW result \in Retracting(r, brain)
  PROVE  Gentle(r, brain, result)
  <1>1. r.user \in Users /\ r.branch \in Branches
    BY DEF Request
  <1> DEFINE fact == Commit(brain, r.user, r.branch, FALSE)
             open == Reopening(brain, r.user, r.branch)
  <1>2. \/ result = Err(brain)
        \/ result = Ok(fact) /\ brain.closed = {}
        \/ result = Ok(open)
    BY DEF Retracting, Admits
  <1>3. fact \in Brain /\ fact.rows = brain.rows
    BY <1>1, UnmarkedOK
  <1>4. open \in Brain /\ open.rows = brain.rows /\ open.log = Commit(brain, r.user, r.branch, TRUE).log
    BY <1>1, ClosingOK
  <1>5. Grows(brain, open)
    BY <1>1, <1>4, OneTransaction
  <1>6. brain.closed = {} => Grows(brain, fact)
    BY <1>1, <1>3, OneTransaction
  <1> HIDE DEF fact, open
  <1>7. QED
    BY <1>2, <1>3, <1>4, <1>5, <1>6, SameBrain, SameRows

LEMMA CreatingOK ==
  ASSUME NEW r \in Request, NEW brain \in Brain, NEW result \in Creating(r, brain)
  PROVE  Gentle(r, brain, result)
  <1>1. r.user \in Users /\ r.branch \in Branches
    BY DEF Request
  <1> DEFINE fact == Commit(brain, r.user, r.branch, FALSE)
  <1>2. PICK b \in Branches :
           \/ result = Err(brain)
           \/ /\ Admits(brain, r.branch, FALSE) /\ ~Live(brain.rows, b)
              /\ result = Ok([fact EXCEPT !.rows = Pushed(brain.rows, b)])
    BY DEF Creating
  <1>3. CASE result = Err(brain)
    BY <1>3, SameBrain
  <1>4. CASE /\ Admits(brain, r.branch, FALSE) /\ ~Live(brain.rows, b)
             /\ result = Ok([fact EXCEPT !.rows = Pushed(brain.rows, b)])
    <2> DEFINE rows == Pushed(brain.rows, b)
               new == [fact EXCEPT !.rows = rows]
    <2>1. brain.rows \in Rows
      BY DEF Brain
    <2>2. rows \in Rows /\ \A c \in Branches : c # b => rows[c] = brain.rows[c]
      BY <2>1, PushedOK
    <2>3. fact \in Brain
      BY <1>1, UnmarkedOK
    <2>4. brain.closed = {} /\ r.branch # b
      BY <1>4 DEF Admits
    <2> HIDE DEF fact, rows
    <2>5. new \in Brain /\ new.rows = rows /\ new.log = fact.log
      BY <2>2, <2>3 DEF Brain
    <2>6. result = Ok(new)
      BY <1>4 DEF rows
    <2> HIDE DEF new
    <2>7. Grows(brain, new)
      BY <1>1, <2>4, <2>5, OneTransaction DEF fact
    <2>8. KeepsClaims(brain, new) /\ WritesItsBranch(r, brain, new)
      BY <1>1, <1>4, <2>2, <2>4, <2>5 DEF KeepsClaims, WritesItsBranch
    <2>9. QED
      BY <2>5, <2>6, <2>7, <2>8, OutcomesOK DEF Gentle, Mutated
  <1>5. QED
    BY <1>2, <1>3, <1>4

LEMMA MergingOK ==
  ASSUME NEW r \in Request, NEW brain \in Brain, NEW result \in Merging(r, brain)
  PROVE  Gentle(r, brain, result)
  <1>1. r.user \in Users /\ r.branch \in Branches
    BY DEF Request
  <1> DEFINE fact == Commit(brain, r.user, r.branch, FALSE)
             closed == Closing(brain, r.user, r.branch)
  <1>2. \/ result = Err(brain)
        \/ result = Ok(fact) /\ brain.closed = {}
        \/ result = Err(closed)
    BY DEF Merging
  <1>3. fact \in Brain /\ fact.rows = brain.rows
    BY <1>1, UnmarkedOK
  <1>4. closed \in Brain /\ closed.rows = brain.rows /\ closed.log = Commit(brain, r.user, r.branch, TRUE).log
    BY <1>1, ClosingOK
  <1>5. Grows(brain, closed)
    BY <1>1, <1>4, OneTransaction
  <1>6. brain.closed = {} => Grows(brain, fact)
    BY <1>1, <1>3, OneTransaction
  <1> HIDE DEF fact, closed
  <1>7. QED
    BY <1>2, <1>3, <1>4, <1>5, <1>6, SameBrain, SameRows

LEMMA RetractingAllOK ==
  ASSUME NEW r \in Request, NEW brain \in Brain, NEW result \in RetractingAll(r, brain)
  PROVE  Gentle(r, brain, result)
  <1>1. r.user \in Users /\ Main \in Branches
    BY GateAssumption DEF Request
  <1> DEFINE fact == Commit(brain, r.user, Main, FALSE)
             open == Reopening(brain, r.user, Main)
             both == Commit(open, r.user, Main, FALSE)
  <1>2. \/ result = Ok(brain)
        \/ result = Ok(fact) /\ brain.closed = {}
        \/ result = Ok(open)
        \/ result = Ok(both)
    BY DEF RetractingAll
  <1>3. fact \in Brain /\ fact.rows = brain.rows
    BY <1>1, UnmarkedOK
  <1>4. open \in Brain /\ open.rows = brain.rows /\ open.log = Commit(brain, r.user, Main, TRUE).log
    BY <1>1, ClosingOK
  <1>5. Grows(brain, open)
    BY <1>1, <1>4, OneTransaction
  <1>6. brain.closed = {} => Grows(brain, fact)
    BY <1>1, <1>3, OneTransaction
  <1>7. both \in Brain /\ both.rows = brain.rows
    BY <1>1, <1>4, UnmarkedOK
  <1>8. Grows(brain, both)
    <2> DEFINE one == Commit(brain, r.user, Main, TRUE)
               n == Len(brain.log)
    <2>1. Committed(brain, one, TRUE)
      BY <1>1, CommitOK
    <2>2. open.log \in Seq(Tx) /\ Len(open.log) = n + 1 /\ n \in Nat /\ open.log[n + 1].marker
      BY <1>4, <2>1 DEF Committed, Brain
    <2>3. both.log = Append(open.log, [user |-> r.user, branch |-> Main, marker |-> FALSE])
      BY <1>4 DEF Commit, Brain
    <2>4. [user |-> r.user, branch |-> Main, marker |-> FALSE] \in Tx
      BY <1>1 DEF Tx
    <2> HIDE DEF open, both, n
    <2>5. Len(both.log) = n + 2 /\ both.log[n + 1] = open.log[n + 1]
      BY <2>2, <2>3, <2>4
    <2>6. QED
      BY <2>2, <2>5 DEF Grows, n
  <1> HIDE DEF fact, open, both
  <1>9. QED
    BY <1>2, <1>3, <1>4, <1>5, <1>6, <1>7, <1>8, SameBrain, SameRows

\* These may take claims away.
LEMMA RewritingOK ==
  ASSUME NEW r \in Request, NEW brain \in Brain
  PROVE  /\ \A result \in Archiving(r, brain) : Mutated(r, brain, result)
         /\ \A result \in Importing(r, brain) : Mutated(r, brain, result)
         /\ \A result \in Wiping(r, brain) : Mutated(r, brain, result) /\ result = Ok(EmptyBrain)
         /\ \A result \in AddingRule(r, brain) : Gentle(r, brain, result)
  <1>1. Mutated(r, brain, Ok(EmptyBrain)) /\ EmptyBrain \in Brain /\ EmptyBrain.log = <<>>
    <2>1. EmptyBrain \in Brain /\ EmptyBrain.log = <<>>
      BY NoRowsOK DEF EmptyBrain
    <2>2. QED
      BY <2>1, OutcomesOK DEF Mutated, Grows
  <1>2. Mutated(r, brain, Ok(brain)) /\ Mutated(r, brain, Err(brain))
    BY SameBrain DEF Gentle
  <1>3. \A result \in Archiving(r, brain) : Mutated(r, brain, result)
    <2> DEFINE b == r.branch
               new == [brain EXCEPT !.rows[b].status = IF @ = "live" THEN "archived" ELSE @]
    <2>1. b \in Branches /\ brain.rows \in [Branches -> Row]
      BY DEF Request, Brain, Rows
    <2>2. brain.rows[b] \in Row
      BY <2>1
    <2> DEFINE row == [brain.rows[b] EXCEPT !.status = IF @ = "live" THEN "archived" ELSE @]
    <2>3. row \in Row
      BY <2>2 DEF Row
    <2>4. new = [brain EXCEPT !.rows = [brain.rows EXCEPT ![b] = row]]
      BY <2>1, <2>2 DEF Brain
    <2> HIDE DEF row
    <2>5. [brain.rows EXCEPT ![b] = row] \in Rows
      BY <2>1, <2>3 DEF Rows
    <2>6. new \in Brain /\ new.log = brain.log
      BY <2>4, <2>5 DEF Brain
    <2>7. \A result \in Archiving(r, brain) : result = Err(brain) \/ result = Ok(new)
      BY DEF Archiving
    <2> HIDE DEF new
    <2>8. Mutated(r, brain, Ok(new))
      BY <2>6, OutcomesOK DEF Mutated, Grows
    <2>9. QED
      BY <1>2, <2>7, <2>8
  <1>4. \A result \in Importing(r, brain) : Mutated(r, brain, result)
    <2>1. \A result \in Importing(r, brain) : \E payload \in {EmptyBrain, brain} : \E parsed \in BOOLEAN :
             result = [Ok(payload) EXCEPT !.ok = parsed]
      BY DEF Importing
    <2>2. ASSUME NEW payload \in {EmptyBrain, brain}, NEW parsed \in BOOLEAN
          PROVE  Mutated(r, brain, [Ok(payload) EXCEPT !.ok = parsed])
      <3>1. Mutated(r, brain, Ok(payload))
        BY <1>1, <1>2
      <3>2. [Ok(payload) EXCEPT !.ok = parsed] \in Results3
            /\ [Ok(payload) EXCEPT !.ok = parsed].brain = Ok(payload).brain
        BY <3>1 DEF Mutated, Results3
      <3>3. QED
        BY <3>1, <3>2 DEF Mutated
    <2>3. QED
      BY <2>1, <2>2
  <1>5. \A result \in Wiping(r, brain) : Mutated(r, brain, result) /\ result = Ok(EmptyBrain)
    BY <1>1 DEF Wiping
  <1>6. \A result \in AddingRule(r, brain) : Gentle(r, brain, result)
    BY SameBrain DEF AddingRule
  <1>7. QED
    BY <1>3, <1>4, <1>5, <1>6

-----------------------------------------------------------------------------
(* Mutations as steps *)

\* What is loaded has the transactions and the markers of the disk.
LEMMA LoadedOK ==
  ASSUME GateInv
  PROVE  /\ Loaded \in [brain : Brain, mode : Modes] /\ Loaded.brain \in Brain
         /\ Loaded.brain.log = disk.log /\ Loaded.brain.closed = disk.closed
         /\ IF cache = Absent THEN Loaded.brain = disk ELSE Loaded = cache
  <1>1. /\ disk \in Brain /\ meta.mode \in Modes /\ CachedLogIsDisk
        /\ cache = Absent \/ cache \in [brain : Brain, mode : Modes]
    BY DEF GateInv, TypeOK, Meta
  <1>2. CASE cache = Absent
    BY <1>1, <1>2 DEF Loaded, FromDisk
  <1>3. CASE cache # Absent
    BY <1>1, <1>3 DEF Loaded, CachedLogIsDisk
  <1>4. QED
    BY <1>2, <1>3

\* The steps of a mutation
Mutations == {"assert", "retract", "create", "archive", "merge", "import", "retract_all", "wipe",
              "eval_assert", "eval_retract", "eval_rule", "set_mode"}

LEMMA Writing ==
  ASSUME GateInv, NEW result \in Results3, NEW mode \in Modes,
         cache' = [brain |-> result.brain, mode |-> mode], disk' = Written(result), meta' \in Meta
  PROVE  StateOK'
  <1>1. disk \in Brain /\ result.brain \in Brain
    BY DEF GateInv, TypeOK, Results3
  <1>2. disk' \in Brain /\ disk'.log = result.brain.log /\ disk'.closed = result.brain.closed
    BY <1>1 DEF Written, Brain
  <1>3. cache' \in [brain : Brain, mode : Modes] /\ cache'.brain = result.brain
    BY <1>1
  <1>4. QED
    BY <1>2, <1>3 DEF StateOK, CachedLogIsDisk

LEMMA Passing ==
  ASSUME GateInv, NEW p \in Slots, NEW step \in Mutations, At(p, step), NEW ok, Pass(p, ok),
         StateOK', Unchanged
  PROVE  GateInv'
  <1>1. Busy(p) /\ (Advance(p) \/ Refuse(p))
    BY DEF At, Pass
  <1>2. step \notin {"read_mode", "mirror_read", "claim", "store", "evict"}
    BY DEF Mutations
  <1>3. QED
    BY <1>1, <1>2, Advancing, Refusing

\* One mutation of the brain in the cache or of the one just loaded
Mutating(p) ==
    \E result \in Results3 :
        /\ Mutated(req[p], Loaded.brain, result)
        /\ ~Rewrites(p) => Gentle(req[p], Loaded.brain, result)
        /\ At(p, "wipe") => result.brain = EmptyBrain
        /\ disk' = Written(result)

LEMMA MutateOK ==
  ASSUME GateInv, NEW p \in Slots, NEW step \in Mutations, At(p, step), NEW results,
         \A result \in results : /\ Mutated(req[p], Loaded.brain, result)
                                 /\ ~Rewrites(p) => Gentle(req[p], Loaded.brain, result)
                                 /\ At(p, "wipe") => result.brain = EmptyBrain,
         Mutate(p, results), meta' \in Meta, Unchanged
  PROVE  GateInv' /\ Mutating(p)
  <1>1. PICK result \in results : /\ cache' = [Loaded EXCEPT !.brain = result.brain]
                                  /\ disk' = Written(result)
                                  /\ Pass(p, result.ok)
    BY DEF Mutate
  <1>2. result \in Results3
    BY DEF Mutated
  <1>3. Loaded \in [brain : Brain, mode : Modes]
    BY LoadedOK
  <1>4. cache' = [brain |-> result.brain, mode |-> Loaded.mode] /\ Loaded.mode \in Modes
    BY <1>1, <1>3
  <1>5. StateOK'
    BY <1>1, <1>2, <1>4, Writing
  <1>6. GateInv'
    BY <1>1, <1>5, Passing
  <1>7. Mutating(p)
    BY <1>1, <1>2 DEF Mutating
  <1>8. QED
    BY <1>6, <1>7

LEMMA Unloading ==
  ASSUME GateInv, NEW p \in Slots, Busy(p), Refuse(p), UNCHANGED disk, UNCHANGED cache, meta' \in Meta, Unchanged
  PROVE  GateInv'
  <1>1. StateOK'
    BY DEF GateInv, TypeOK, StateOK, CachedLogIsDisk
  <1>2. QED
    BY <1>1, Refusing

\* The mutations that keep the claims there are
LEMMA GentleSteps ==
  ASSUME GateInv, NEW p \in Slots, Unchanged,
         \/ Apply(p, "assert", Asserting) \/ Apply(p, "retract", Retracting)
         \/ Apply(p, "create", Creating) \/ Apply(p, "merge", Merging)
         \/ Apply(p, "retract_all", RetractingAll)
         \/ Eval(p, "eval_assert", Asserting) \/ Eval(p, "eval_retract", Retracting)
         \/ Eval(p, "eval_rule", AddingRule)
  PROVE  GateInv' /\ (UNCHANGED disk \/ Mutating(p))
  <1> DEFINE o == req[p]
             brain == Loaded.brain
             Outcomes == {Asserting(o, brain), Retracting(o, brain), Creating(o, brain),
                          Merging(o, brain), RetractingAll(o, brain), AddingRule(o, brain)}
             gentle == {"assert", "retract", "create", "merge", "retract_all",
                        "eval_assert", "eval_retract", "eval_rule"}
  <1>1. meta' = meta /\ meta \in Meta
    BY DEF Apply, Eval, GateInv, TypeOK
  <1>2. cache # Absent => Loaded = cache
    BY DEF Loaded
  <1>3. PICK step \in gentle :
           /\ At(p, step)
           /\ \/ Refuse(p) /\ UNCHANGED <<disk, cache>>
              \/ \E results \in Outcomes : Mutate(p, results)
    BY <1>2 DEF Apply, Eval, Unloadable
  <1>4. o \in Request /\ Busy(p) /\ brain \in Brain /\ Head(o.todo) = step
    BY <1>3, Beginning, LoadedOK
  <1>5. ASSUME NEW results \in Outcomes, NEW result \in results
        PROVE  Gentle(o, brain, result)
    BY <1>4, <1>5, AssertingOK, RetractingOK, CreatingOK, MergingOK, RetractingAllOK, RewritingOK
  <1>6. step \in Mutations /\ ~At(p, "wipe") /\ meta' \in Meta
    BY <1>1, <1>4 DEF Mutations, At
  <1>7. CASE Refuse(p) /\ UNCHANGED <<disk, cache>>
    BY <1>4, <1>6, <1>7, Unloading
  <1>8. ASSUME NEW results \in Outcomes, Mutate(p, results)
        PROVE  GateInv' /\ Mutating(p)
    <2>1. \A result \in results : /\ Mutated(req[p], Loaded.brain, result)
                                  /\ ~Rewrites(p) => Gentle(req[p], Loaded.brain, result)
                                  /\ At(p, "wipe") => result.brain = EmptyBrain
      BY <1>5, <1>6 DEF Gentle
    <2> HIDE DEF Outcomes
    <2>2. QED
      BY <1>3, <1>6, <1>8, <2>1, MutateOK
  <1>9. QED
    BY <1>3, <1>7, <1>8

LEMMA RewritingSteps ==
  ASSUME GateInv, NEW p \in Slots, Unchanged,
         Apply(p, "archive", Archiving) \/ Apply(p, "import", Importing) \/ Wipe(p)
  PROVE  GateInv' /\ (UNCHANGED disk \/ Mutating(p))
  <1> DEFINE o == req[p]
             brain == Loaded.brain
  <1>1. meta \in Meta /\ [meta EXCEPT !.there = @ /\ ~Loadable] \in Meta
    <2>1. meta \in Meta
      BY DEF GateInv, TypeOK
    <2>2. \A there \in BOOLEAN : [meta EXCEPT !.there = there] \in Meta
      BY <2>1 DEF Meta
    <2>3. (meta.there /\ ~Loadable) \in BOOLEAN
      OBVIOUS
    <2>4. QED
      BY <2>1, <2>2, <2>3
  <1>2. meta' \in Meta
    BY <1>1 DEF Apply, Wipe
  <1>3. PICK step \in {"archive", "import", "wipe"} :
           /\ At(p, step)
           /\ \/ Refuse(p) /\ UNCHANGED <<disk, cache>>
              \/ step = "archive" /\ Mutate(p, Archiving(o, brain))
              \/ step = "import" /\ Mutate(p, Importing(o, brain))
              \/ step = "wipe" /\ Mutate(p, Wiping(o, brain))
    BY DEF Apply, Wipe, Unloadable
  <1>4. o \in Request /\ Busy(p) /\ brain \in Brain /\ Head(o.todo) = step
    BY <1>3, Beginning, LoadedOK
  <1>5. step \in Mutations /\ Rewrites(p) /\ (At(p, "wipe") => step = "wipe")
    BY <1>3, <1>4 DEF Mutations, Rewrites, At
  <1>6. CASE Refuse(p) /\ UNCHANGED <<disk, cache>>
    BY <1>2, <1>4, <1>6, Unloading
  <1>7. CASE step = "archive" /\ Mutate(p, Archiving(o, brain))
    <2>1. \A result \in Archiving(o, brain) :
             Mutated(o, brain, result) /\ (~Rewrites(p) => Gentle(o, brain, result)) /\ (At(p, "wipe") => result.brain = EmptyBrain)
      BY <1>4, <1>5, <1>7, RewritingOK
    <2>2. QED
      BY <1>2, <1>3, <1>5, <1>7, <2>1, MutateOK
  <1>8. CASE step = "import" /\ Mutate(p, Importing(o, brain))
    <2>1. \A result \in Importing(o, brain) :
             Mutated(o, brain, result) /\ (~Rewrites(p) => Gentle(o, brain, result)) /\ (At(p, "wipe") => result.brain = EmptyBrain)
      BY <1>4, <1>5, <1>8, RewritingOK
    <2>2. QED
      BY <1>2, <1>3, <1>5, <1>8, <2>1, MutateOK
  <1>9. CASE step = "wipe" /\ Mutate(p, Wiping(o, brain))
    <2>1. \A result \in Wiping(o, brain) :
             Mutated(o, brain, result) /\ (~Rewrites(p) => Gentle(o, brain, result)) /\ (At(p, "wipe") => result.brain = EmptyBrain)
      BY <1>4, <1>5, RewritingOK, NoRowsOK, OutcomesOK
    <2>2. QED
      BY <1>2, <1>3, <1>5, <1>9, <2>1, MutateOK
  <1>10. QED
    BY <1>3, <1>6, <1>7, <1>8, <1>9

\* The claim on main that a flip writes is saved with the audit fact or without it.
LEMMA Flipping ==
  ASSUME GateInv, NEW p \in Slots, Unchanged, SetMode(p)
  PROVE  GateInv' /\ (UNCHANGED disk \/ Mutating(p))
  <1> DEFINE o == req[p]
             brain == Loaded.brain
             owner == IF o.held.mode = "co-edit" THEN Nobody ELSE o.user
             claimed == [brain EXCEPT !.rows[Main].owner = owner]
             result == CHOOSE r \in Asserting(o, claimed) : TRUE
  <1>1. /\ At(p, "set_mode") /\ meta' = meta
        /\ \/ Refuse(p) /\ UNCHANGED <<disk, cache>>
           \/ /\ cache' = [brain |-> result.brain, mode |-> o.held.mode]
              /\ disk' = result.brain
              /\ Pass(p, result.ok)
    BY DEF SetMode, Unloadable, Flipped
  <1>2. /\ o \in Request /\ Busy(p) /\ brain \in Brain /\ Head(o.todo) = "set_mode"
        /\ o.held \in Meta /\ o.user \in Users /\ meta' \in Meta /\ Main \in Branches
    BY <1>1, Beginning, LoadedOK, GateAssumption DEF HoldsFor, GateInv, TypeOK, Request
  <1>3. CASE Refuse(p) /\ UNCHANGED <<disk, cache>>
    BY <1>2, <1>3, Unloading
  <1>4. CASE /\ cache' = [brain |-> result.brain, mode |-> o.held.mode]
             /\ disk' = result.brain
             /\ Pass(p, result.ok)
    <2>1. owner \in Users \union {Nobody} /\ o.held.mode \in Modes
      BY <1>2 DEF Meta
    <2>2. brain.rows \in Rows /\ brain.rows \in [Branches -> Row]
      BY <1>2 DEF Brain, Rows
    <2> DEFINE old == brain.rows
               who == owner
               rows == [old EXCEPT ![Main].owner = who]
    <2>3. rows \in Rows
      <3>1. old \in Rows /\ who \in Users \union {Nobody} /\ Main \in Branches
        BY <1>2, <2>1, <2>2
      <3> HIDE DEF old, who
      <3>2. QED
        BY <3>1, ClaimedRowsOK
    <2>4. claimed = [brain EXCEPT !.rows = rows]
      BY <1>2, <2>2 DEF Brain
    <2> HIDE DEF rows, owner
    <2>5. claimed \in Brain /\ claimed.log = brain.log /\ claimed.closed = brain.closed
      BY <1>2, <2>3, <2>4 DEF Brain
    <2> HIDE DEF claimed
    <2>6. result \in Asserting(o, claimed)
      <3>1. Asserting(o, claimed) # {}
        BY DEF Asserting
      <3>2. QED
        BY <3>1
    <2> HIDE DEF result
    <2>7. Gentle(o, claimed, result)
      BY <1>2, <2>5, <2>6, AssertingOK
    <2>8. result \in Results3 /\ result.brain \in Brain /\ Grows(claimed, result.brain)
      BY <2>7 DEF Gentle, Mutated, Results3
    <2>9. Grows(brain, result.brain)
      BY <2>5, <2>8 DEF Grows
    <2>10. Ok(result.brain) \in Results3 /\ Ok(result.brain).brain = result.brain /\ Ok(result.brain).saved
      BY <2>8, OutcomesOK DEF Ok
    <2>11. disk' = Written(Ok(result.brain))
      BY <1>4, <2>10 DEF Written
    <2>12. Mutated(o, brain, Ok(result.brain))
      BY <2>9, <2>10 DEF Mutated
    <2>13. StateOK'
      BY <1>2, <1>4, <2>1, <2>10, <2>11, Writing
    <2>14. "set_mode" \in Mutations /\ Rewrites(p) /\ ~At(p, "wipe")
      BY <1>1, <1>2 DEF Mutations, Rewrites, At
    <2>15. GateInv'
      BY <1>1, <1>4, <2>13, <2>14, Passing
    <2>16. Mutating(p)
      BY <2>10, <2>11, <2>12, <2>14 DEF Mutating
    <2>17. QED
      BY <2>15, <2>16
  <1>5. QED
    BY <1>1, <1>3, <1>4

-----------------------------------------------------------------------------
(* Every step *)

\* What a step of p makes of the tables.
Effect(p) ==
    \/ UNCHANGED disk
    \/ At(p, "store") /\ disk' = [disk EXCEPT !.rows = req[p].held]
    \/ Mutating(p)

LEMMA Stepping ==
  ASSUME GateInv, NEW p \in Slots, Step(p)
  PROVE  GateInv' /\ Effect(p)
  <1>1. Busy(p) /\ Unchanged
    BY DEF Step, Unchanged
  <1>2. CASE GuardWrite(p) \/ GuardOwner(p) \/ Join(p) \/ Orchestrator(p)
    BY <1>1, <1>2, Guarding DEF Effect, GuardWrite, GuardOwner, Join, Orchestrator
  <1>3. CASE Precheck(p)
    BY <1>1, <1>3, Prechecking DEF Effect, Precheck
  <1>4. CASE Claim(p)
    BY <1>1, <1>4, Claiming DEF Effect, Claim
  <1>5. CASE Store(p)
    BY <1>1, <1>5, Storing DEF Effect, Store
  <1>6. CASE BranchOnDisk(p)
    BY <1>1, <1>6, Branching DEF Effect, BranchOnDisk
  <1>7. CASE Evict(p)
    BY <1>1, <1>7, Evicting DEF Effect, Evict
  <1>8. CASE \/ Apply(p, "assert", Asserting) \/ Apply(p, "retract", Retracting)
             \/ Apply(p, "create", Creating) \/ Apply(p, "merge", Merging)
             \/ Apply(p, "retract_all", RetractingAll)
             \/ Eval(p, "eval_assert", Asserting) \/ Eval(p, "eval_retract", Retracting)
             \/ Eval(p, "eval_rule", AddingRule)
    BY <1>1, <1>8, GentleSteps DEF Effect
  <1>9. CASE Apply(p, "archive", Archiving) \/ Apply(p, "import", Importing) \/ Wipe(p)
    BY <1>1, <1>9, RewritingSteps DEF Effect
  <1>10. CASE SetMode(p)
    BY <1>1, <1>10, Flipping DEF Effect
  <1>11. CASE ReadMode(p) \/ MirrorRead(p)
    BY <1>1, <1>11, ReadingMeta DEF Effect, ReadMode, MirrorRead
  <1>12. CASE PublishMode(p) \/ MirrorWrite(p)
    BY <1>1, <1>12, WritingMeta DEF Effect, PublishMode, MirrorWrite
  <1>13. QED
    BY <1>2, <1>3, <1>4, <1>5, <1>6, <1>7, <1>8, <1>9, <1>10, <1>11, <1>12 DEF Step

LEMMA Begins ==
  ASSUME GateInv, NEW p \in Slots, Begin(p)
  PROVE  GateInv' /\ UNCHANGED disk
  <1>1. TypeOK /\ CachedLogIsDisk /\ (\A q \in Slots : RequestOK(req[q])) /\ Alone
    BY DEF GateInv
  <1>2. PICK r \in Handlers :
           /\ r.alone = \A q \in Slots : Idle(q)
           /\ req' = [q \in Slots |-> IF q = p THEN r ELSE [req[q] EXCEPT !.alone = FALSE]]
    BY DEF Begin
  <1>3. /\ begun < MaxRequests /\ begun' = begun + 1 /\ UNCHANGED <<meta, disk, cache, crashes>>
        /\ begun \in 0..MaxRequests /\ MaxRequests \in Nat
    BY <1>1, GateAssumption DEF Begin, TypeOK
  <1>4. RequestOK(r) /\ r \in Request /\ r.todo # <<>> /\ ~r.gated /\ Head(r.todo) # "store"
    BY HandlersOK DEF RequestOK
  <1>5. \A q \in Slots : LET o == [req[q] EXCEPT !.alone = FALSE]
                         IN  RequestOK(o) /\ o \in Request /\ ~o.alone /\ o.todo = req[q].todo
    BY <1>1 DEF RequestOK, Request, HoldsFor
  <1>6. /\ req' \in [Slots -> Request] /\ req'[p] = r
        /\ \A q \in Slots : RequestOK(req'[q])
        /\ \A q \in Slots : q # p => ~req'[q].alone /\ req'[q].todo = req[q].todo
    BY <1>2, <1>4, <1>5
  <1>7. TypeOK'
    BY <1>1, <1>3, <1>6 DEF TypeOK
  <1>8. CachedLogIsDisk'
    BY <1>1, <1>3 DEF CachedLogIsDisk
  <1>9. Alone'
    <2>1. ASSUME NEW q \in Slots, req'[q].alone
          PROVE  req'[q].todo # <<>> /\ \A o \in Slots : o # q => req'[o].todo = <<>>
      <3>1. q = p
        BY <1>6, <2>1
      <3>2. \A o \in Slots : req[o].todo = <<>>
        BY <1>2, <1>6, <2>1, <3>1 DEF Idle
      <3>3. QED
        BY <1>4, <1>6, <3>1, <3>2
    <2>2. QED
      BY <2>1 DEF Alone, Busy, Idle
  <1>10. \A q \in Slots : req'[q].alone => ClaimCarried(req'[q], meta', disk', cache')
    BY <1>4, <1>6 DEF ClaimCarried
  <1>11. QED
    BY <1>3, <1>6, <1>7, <1>8, <1>9, <1>10 DEF GateInv

LEMMA Restarts ==
  ASSUME GateInv, Restart
  PROVE  GateInv' /\ UNCHANGED disk
  <1>1. TypeOK
    BY DEF GateInv
  <1>2. /\ crashes < MaxCrashes /\ crashes' = crashes + 1 /\ UNCHANGED <<meta, disk, begun>>
        /\ crashes \in 0..MaxCrashes /\ MaxCrashes \in Nat
        /\ req' = [p \in Slots |-> Nothing]
        /\ cache' = IF meta.there THEN FromDisk ELSE Absent
    BY <1>1, GateAssumption DEF Restart, TypeOK
  <1>3. \A p \in Slots : req'[p] = Nothing
    BY <1>2
  <1>4. req' \in [Slots -> Request]
    BY <1>2, NothingOK DEF RequestOK
  <1>5. FromDisk \in [brain : Brain, mode : Modes] /\ FromDisk.brain = disk
    BY <1>1 DEF FromDisk, TypeOK, Meta
  <1>6. TypeOK'
    BY <1>1, <1>2, <1>4, <1>5 DEF TypeOK
  <1>7. CachedLogIsDisk'
    BY <1>2, <1>5 DEF CachedLogIsDisk
  <1>8. QED
    BY <1>2, <1>3, <1>6, <1>7, NothingOK DEF GateInv, Alone

LEMMA GateInit == Init => GateInv
  <1>1. SUFFICES ASSUME Init PROVE GateInv
    OBVIOUS
  <1>2. EmptyBrain \in Brain
    BY NoRowsOK
  <1>3. session_new \in Brain
    <2> DEFINE rows == [b \in Branches |-> [status |-> "live", owner |-> IF b = Main THEN Creator ELSE Nobody]]
    <2>1. rows \in Rows
      BY GateAssumption DEF Rows, Row
    <2> HIDE DEF rows
    <2>2. session_new = [EmptyBrain EXCEPT !.rows = rows]
      BY DEF session_new, rows
    <2>3. QED
      BY <1>2, <2>1, <2>2 DEF Brain
  <1>4. meta \in Meta /\ disk \in Brain
    <2>1. [there |-> TRUE, kind |-> "session", mode |-> "solo-edit", closed |-> FALSE] \in Meta
      BY DEF Meta, Modes, Kinds
    <2>2. \A m \in [there : {TRUE}, kind : {"bare"}, mode : Modes, closed : {FALSE}] : m \in Meta
      BY DEF Meta, Modes, Kinds
    <2>3. QED
      BY <1>1, <1>2, <1>3, <2>1, <2>2 DEF Init
  <1>5. FromDisk \in [brain : Brain, mode : Modes] /\ FromDisk.brain = disk
    BY <1>4 DEF FromDisk, Meta
  <1>6. req = [p \in Slots |-> Nothing] /\ begun = 0 /\ crashes = 0 /\ cache \in {FromDisk, Absent}
    BY <1>1 DEF Init
  <1>7. req \in [Slots -> Request] /\ \A p \in Slots : req[p] = Nothing
    BY <1>6, NothingOK DEF RequestOK
  <1>8. TypeOK
    BY <1>4, <1>5, <1>6, <1>7, GateAssumption DEF TypeOK
  <1>9. CachedLogIsDisk
    BY <1>5, <1>6 DEF CachedLogIsDisk
  <1>10. QED
    BY <1>7, <1>8, <1>9, NothingOK DEF GateInv, Alone

\* What any step of the system makes of the tables
LEMMA NextKeeps ==
  ASSUME GateInv, [Next]_vars
  PROVE  GateInv' /\ (UNCHANGED disk \/ \E p \in Slots : Step(p) /\ Effect(p))
  <1>1. CASE \E p \in Slots : Begin(p)
    BY <1>1, Begins
  <1>2. CASE \E p \in Slots : Step(p)
    BY <1>2, Stepping
  <1>3. CASE Restart
    BY <1>3, Restarts
  <1>4. CASE UNCHANGED vars
    BY <1>4 DEF vars, GateInv, TypeOK, CachedLogIsDisk, Alone, Busy, Idle
  <1>5. QED
    BY <1>1, <1>2, <1>3, <1>4 DEF Next, Done

LEMMA Invariant == Spec => []GateInv
  <1>1. Init => GateInv
    BY GateInit
  <1>2. GateInv /\ [Next]_vars => GateInv'
    BY NextKeeps
  <1>3. QED
    BY <1>1, <1>2, PTL DEF Spec

\* The state of the exom, of the cache and of the requests keeps its type.
THEOREM GateTyped == Spec => []TypeOK
  <1>1. GateInv => TypeOK
    BY DEF GateInv
  <1>2. QED
    BY <1>1, Invariant, PTL

\* get_or_load_exom, evict_cached_exom, mutate_exom and the stores of the gate that run without
\* the lock: the brain in the cache and the tables on disk keep the same transactions and the
\* same close markers, through failed mutations and restarts.
THEOREM CacheNeverParts == Spec => []CachedLogIsDisk
  <1>1. GateInv => CachedLogIsDisk
    BY DEF GateInv
  <1>2. QED
    BY <1>1, Invariant, PTL

\* A log that a step makes longer was made longer by one mutation.
LEMMA LongerLog ==
  ASSUME GateInv, NEW p \in Slots, Effect(p), IsStrictPrefix(disk.log, disk'.log)
  PROVE  \E result \in Results3 :
            /\ Mutated(req[p], Loaded.brain, result)
            /\ ~Rewrites(p) => Gentle(req[p], Loaded.brain, result)
            /\ ~At(p, "wipe")
            /\ disk' = Written(result) /\ disk'.log = result.brain.log
            /\ disk'.log # disk.log /\ disk'.log # <<>>
  <1>1. disk \in Brain /\ disk.log \in Seq(Tx)
    BY DEF GateInv, TypeOK, Brain
  <1>2. disk'.log # disk.log
    BY DEF IsStrictPrefix
  <1>3. disk'.log # <<>>
    <2> DEFINE log == disk.log
    <2>1. log \in Seq(Tx) /\ Len(<<>>) = 0
      BY <1>1
    <2>2. Len(log) <= Len(disk'.log) /\ log # disk'.log
      BY DEF IsStrictPrefix, IsPrefix
    <2> HIDE DEF log
    <2>3. Len(log) = 0 => log = <<>>
      BY <2>1
    <2>4. Len(log) \in Nat
      BY <2>1
    <2>5. ASSUME disk'.log = <<>> PROVE FALSE
      <3>1. Len(log) <= 0
        BY <2>1, <2>2, <2>5
      <3>2. QED
        BY <2>2, <2>3, <2>4, <2>5, <3>1
    <2>6. QED
      BY <2>5
  <1>4. ~(At(p, "store") /\ disk' = [disk EXCEPT !.rows = req[p].held])
    BY <1>1, <1>2 DEF Brain
  <1>5. PICK result \in Results3 :
            /\ Mutated(req[p], Loaded.brain, result)
            /\ ~Rewrites(p) => Gentle(req[p], Loaded.brain, result)
            /\ At(p, "wipe") => result.brain = EmptyBrain
            /\ disk' = Written(result)
    BY <1>2, <1>4 DEF Effect, Mutating
  <1>6. disk'.log = result.brain.log
    BY <1>1, <1>5 DEF Written, Results3, Brain
  <1>7. EmptyBrain.log = <<>>
    BY DEF EmptyBrain
  <1>8. QED
    BY <1>2, <1>3, <1>5, <1>6, <1>7

\* Only mutations add transactions.
LEMMA WritesAt ==
  ASSUME GateInv, NEW p \in Slots, Step(p), disk'.log # disk.log
  PROVE  \E step \in Mutations : At(p, step)
  <1>1. ~Store(p)
    BY DEF Store, GateInv, TypeOK, Brain
  <1>2. disk' # disk
    OBVIOUS
  <1>3. QED
    BY <1>1, <1>2 DEF Step, Mutations, GuardWrite, GuardOwner, Join, Orchestrator, Precheck, Claim,
                      BranchOnDisk, Evict, Apply, Eval, Wipe, SetMode, ReadMode, MirrorRead,
                      PublishMode, MirrorWrite

\* alloc_tx, behind a gate that found the session open: the first transaction a closed exom
\* gets is about the close marker, whichever requests run and whatever is imported.
THEOREM ClosedStaysClosed == Spec => ClosedLogGrowsByTheMarker
  <1> DEFINE Growth == disk.closed # {} /\ IsStrictPrefix(disk.log, disk'.log)
                          => disk'.log[Len(disk.log) + 1].marker
  <1>1. ASSUME GateInv, [Next]_vars, disk.closed # {}, IsStrictPrefix(disk.log, disk'.log)
        PROVE  disk'.log[Len(disk.log) + 1].marker
    <2>1. disk'.log # disk.log
      BY <1>1 DEF IsStrictPrefix
    <2>2. PICK p \in Slots : Effect(p)
      BY <1>1, <2>1, NextKeeps
    <2>3. PICK result \in Results3 : /\ Mutated(req[p], Loaded.brain, result)
                                     /\ disk'.log = result.brain.log
                                     /\ disk'.log # disk.log /\ disk'.log # <<>>
      BY <1>1, <2>2, LongerLog
    <2>4. Loaded.brain.log = disk.log /\ Loaded.brain.closed = disk.closed
      BY <1>1, LoadedOK
    <2>5. QED
      BY <1>1, <2>3, <2>4 DEF Mutated, Grows
  <1>2. GateInv /\ [Next]_vars => Growth
    BY <1>1
  <1>3. QED
    BY <1>2, Invariant, PTL DEF Spec, ClosedLogGrowsByTheMarker

\* precheck_write, claim_branch and the eviction between them and the mutation: a request that
\* runs alone leaves its transactions on a branch its own user has claimed.
THEOREM GateIsKept == Spec => GatedWritesAreClaimed
  <1> DEFINE Claimed == \A p \in Slots :
                /\ req[p].alone /\ req[p].gated
                /\ IsStrictPrefix(disk.log, disk'.log)
                => \/ Owned(disk'.rows, req[p].branch, req[p].user)
                   \/ req[p].branch = Main /\ meta.mode = "co-edit"
  <1>1. ASSUME GateInv, [Next]_vars, NEW p \in Slots, req[p].alone, req[p].gated,
               IsStrictPrefix(disk.log, disk'.log)
        PROVE  \/ Owned(disk'.rows, req[p].branch, req[p].user)
               \/ req[p].branch = Main /\ meta.mode = "co-edit"
    <2>1. disk'.log # disk.log
      BY <1>1 DEF IsStrictPrefix
    <2>2. PICK q \in Slots : Step(q) /\ Effect(q)
      BY <1>1, <2>1, NextKeeps
    <2>3. p = q
      BY <1>1, <2>2 DEF GateInv, Alone, Step, Busy
    <2>4. PICK result \in Results3 :
            /\ ~Rewrites(p) => Gentle(req[p], Loaded.brain, result)
            /\ ~At(p, "wipe") /\ disk' = Written(result) /\ disk'.log = result.brain.log
      BY <1>1, <2>2, <2>3, LongerLog
    <2>5. PICK step \in Mutations : At(p, step)
      BY <1>1, <2>1, <2>2, <2>3, WritesAt
    <2>6. RequestOK(req[p]) /\ step \in GatedSteps /\ ClaimCarried(req[p], meta, disk, cache)
          /\ Head(req[p].todo) = step
      BY <1>1, <2>5, Beginning
    <2>7. step \in Writes /\ ~Rewrites(p)
      BY <2>4, <2>5, <2>6 DEF Mutations, GatedSteps, Writes, Rewrites, At
    <2>8. cache = Absent /\ ClaimedFor(req[p], meta, disk)
      BY <1>1, <2>6, <2>7 DEF ClaimCarried
    <2>9. Loaded.brain = disk /\ disk \in Brain
      BY <1>1, <2>8, LoadedOK DEF GateInv, TypeOK
    <2>10. Gentle(req[p], disk, result)
      BY <2>4, <2>7, <2>9
    <2>11. result.brain.rows[req[p].branch].owner = disk.rows[req[p].branch].owner
      BY <2>1, <2>4, <2>10 DEF Gentle, WritesItsBranch
    <2>12. disk'.rows = result.brain.rows \/ disk'.rows = disk.rows
      BY <2>4, <2>9 DEF Written, Results3, Brain
    <2>13. QED
      BY <2>8, <2>11, <2>12 DEF ClaimedFor, Owned
  <1>2. GateInv /\ [Next]_vars => Claimed
    BY <1>1
  <1>3. QED
    BY <1>2, Invariant, PTL DEF Spec, GatedWritesAreClaimed

\* The branch table that the gate and api_branch_create store, and the one each mutation saves: one
\* request at a time, with a cache that agrees with the disk, no claim of a live branch is
\* lost or given away.
THEOREM ClaimsSurvive == Spec => ClaimsSurviveInStep
  <1> DEFINE Kept == \A p \in Slots :
                /\ req[p].alone /\ InStep /\ ~Rewrites(p)
                => \A b \in Branches :
                      \/ disk.rows[b].owner \in {Nobody, disk'.rows[b].owner}
                      \/ ~Live(disk.rows, b)
  <1>1. ASSUME GateInv, [Next]_vars, NEW p \in Slots, req[p].alone, InStep, ~Rewrites(p),
               NEW b \in Branches
        PROVE  disk.rows[b].owner \in {Nobody, disk'.rows[b].owner} \/ ~Live(disk.rows, b)
    <2>1. CASE UNCHANGED disk
      BY <2>1
    <2>2. ASSUME NEW q \in Slots, Step(q), Effect(q), disk' # disk
          PROVE  disk.rows[b].owner \in {Nobody, disk'.rows[b].owner} \/ ~Live(disk.rows, b)
      <3>1. p = q
        BY <1>1, <2>2 DEF GateInv, Alone, Step, Busy
      <3>2. disk \in Brain /\ disk.rows \in Rows /\ req[p].user \in Users /\ req[p].branch \in Branches
        BY <1>1, TypesAgain DEF GateInv
      <3>3. CASE At(p, "store") /\ disk' = [disk EXCEPT !.rows = req[p].held]
        <4> DEFINE c == req[p].branch
        <4>1. disk'.rows = req[p].held
          BY <3>2, <3>3 DEF Brain
        <4>2. \/ /\ req[p].held = [disk.rows EXCEPT ![c].owner = req[p].user]
                 /\ disk.rows[c].owner = Nobody
              \/ /\ req[p].held = Pushed(disk.rows, c)
                 /\ ~Live(disk.rows, c)
          BY <1>1, <3>3, Beginning DEF ClaimCarried
        <4>3. c # b => disk'.rows[b] = disk.rows[b]
          <5>1. req[p].user \in Users \union {Nobody}
            BY <3>2
          <5>2. CASE disk'.rows = Pushed(disk.rows, c)
            BY <3>2, <5>2, PushedOK
          <5>3. CASE disk'.rows = [disk.rows EXCEPT ![c].owner = req[p].user]
            <6>1. \A d \in Branches : d # c => disk'.rows[d] = disk.rows[d]
              BY <3>2, <5>1, <5>3, ClaimedRowsOK
            <6>2. QED
              BY <6>1
          <5>4. QED
            BY <4>1, <4>2, <5>2, <5>3
        <4>4. QED
          BY <4>2, <4>3
      <3>4. CASE Mutating(p)
        <4>1. PICK result \in Results3 : Gentle(req[p], Loaded.brain, result) /\ disk' = Written(result)
          BY <1>1, <3>4 DEF Mutating
        <4>2. Loaded.brain.rows = disk.rows
          BY <1>1, LoadedOK DEF InStep
        <4>3. disk'.rows = result.brain.rows \/ disk'.rows = disk.rows
          BY <3>2, <4>1 DEF Written, Results3, Brain
        <4>4. result.brain.rows[b].owner = disk.rows[b].owner \/ ~Live(disk.rows, b)
          BY <4>1, <4>2 DEF Gentle, KeepsClaims
        <4>5. QED
          BY <4>3, <4>4
      <3>5. QED
        BY <2>2, <3>1, <3>3, <3>4 DEF Effect
    <2>3. QED
      BY <1>1, <2>1, <2>2, NextKeeps
  <1>2. GateInv /\ [Next]_vars => Kept
    BY <1>1
  <1>3. QED
    BY <1>2, Invariant, PTL DEF Spec, ClaimsSurviveInStep

=============================================================================
