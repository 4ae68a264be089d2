--------------------------- MODULE Exoms_proofs ---------------------------
(***************************************************************************)
(* The cache, the engine and the grants follow the tree of exoms, through  *)
(* renames, deletions, forks, resets and restarts, as long as no request   *)
(* runs in the window of another; and the tree a user is shown is what the *)
(* user may read.                                                          *)
(*                                                                         *)
(* Typed, Numbered and AccountsFirst hold whatever requests interleave;    *)
(* InStep, and that answers are right, until two requests are set apart.   *)
(* The conjunction, Inv, is inductive, and the safety properties of the    *)
(* module Exoms follow from it.                                            *)
(***************************************************************************)
EXTENDS Exoms, FiniteSetTheorems, WellFoundedInduction, TLAPS

-----------------------------------------------------------------------------
(* Paths *)

IsPath(path) == path \in Seq({path[i] : i \in DOMAIN path}) /\ path # <<>>

\* A sequence of anything is a sequence of what is in it.
LEMMA PathOf ==
    ASSUME NEW S, NEW s \in Seq(S), s # <<>>
    PROVE  IsPath(s)
BY DEF IsPath

\* A path has a first segment and a length.
LEMMA PathLen ==
    ASSUME NEW s, IsPath(s)
    PROVE  Len(s) \in Nat \ {0} /\ DOMAIN s = 1..Len(s)
BY DEF IsPath

\* Two paths are sequences over one set of segments.
LEMMA Common ==
    ASSUME NEW s, IsPath(s), NEW t, IsPath(t)
    PROVE  \E S : s \in Seq(S) /\ t \in Seq(S)
<1> DEFINE S == {s[i] : i \in DOMAIN s} \union {t[i] : i \in DOMAIN t}
<1>1. s \in Seq(S)
  BY DEF IsPath
<1>2. t \in Seq(S)
  BY DEF IsPath
<1> QED BY <1>1, <1>2

\* Paths with the same segments are the same.
LEMMA SamePath ==
    ASSUME NEW s, IsPath(s), NEW t, IsPath(t), Len(s) = Len(t),
           \A i \in 1..Len(s) : s[i] = t[i]
    PROVE  s = t
<1>1. PICK S : s \in Seq(S) /\ t \in Seq(S)
  BY Common
<1> QED BY <1>1

\* IsPrefix, segment by segment
LEMMA UnderBy ==
    ASSUME NEW s, IsPath(s), NEW t, IsPath(t)
    PROVE  Under(s, t) <=> Len(t) <= Len(s) /\ \A i \in 1..Len(t) : t[i] = s[i]
<1>1. PICK S : s \in Seq(S) /\ t \in Seq(S)
  BY Common
<1> QED BY <1>1 DEF Under, IsPrefix

\* Everything is under the root.
LEMMA UnderEmpty ==
    ASSUME NEW s, IsPath(s)
    PROVE  Under(s, <<>>)
BY DEF IsPath, Under, IsPrefix

\* A path with one more segment is a path.
LEMMA AppendPath ==
    ASSUME NEW s, IsPath(s), NEW e
    PROVE  /\ IsPath(Append(s, e)) /\ Len(Append(s, e)) = Len(s) + 1
           /\ \A i \in 1..Len(s) : Append(s, e)[i] = s[i]
           /\ Append(s, e)[Len(s) + 1] = e
<1> DEFINE S == {s[i] : i \in DOMAIN s} \union {e}
<1>1. s \in Seq(S) /\ e \in S
  BY DEF IsPath
<1> HIDE DEF S
<1>2. Append(s, e) \in Seq(S) /\ Len(Append(s, e)) = Len(s) + 1
  BY <1>1
<1>3. Append(s, e) # <<>>
  <2>1. Len(s) \in Nat
    BY <1>1
  <2>2. Len(Append(s, e)) # 0
    BY <1>2, <2>1
  <2>3. ASSUME Append(s, e) = <<>>
        PROVE  FALSE
    <3>1. Len(Append(s, e)) = Len(<<>>)
      BY ONLY <2>3, Zenon
    <3>2. Len(<<>>) = 0
      OBVIOUS
    <3> QED BY <2>2, <3>1, <3>2
  <2> QED BY <2>3
<1>4. IsPath(Append(s, e))
  BY <1>2, <1>3, PathOf
<1>5. \A i \in 1..Len(s) : Append(s, e)[i] = s[i]
  BY <1>1
<1>6. Append(s, e)[Len(s) + 1] = e
  BY <1>1
<1> QED BY <1>2, <1>4, <1>5, <1>6

\* The first segments of a path, one at least, are a path.
LEMMA PartPath ==
    ASSUME NEW s, IsPath(s), NEW n \in 1..Len(s)
    PROVE  /\ IsPath(SubSeq(s, 1, n)) /\ Len(SubSeq(s, 1, n)) = n
           /\ \A i \in 1..n : SubSeq(s, 1, n)[i] = s[i]
<1> DEFINE S == {s[i] : i \in DOMAIN s}
<1>1. s \in Seq(S)
  BY DEF IsPath
<1> HIDE DEF S
<1>2. SubSeq(s, 1, n) \in Seq(S) /\ Len(SubSeq(s, 1, n)) = n
  BY <1>1
<1>3. SubSeq(s, 1, n) # <<>>
  BY <1>1, <1>2
<1>4. IsPath(SubSeq(s, 1, n))
  BY <1>2, <1>3, PathOf
<1>5. \A i \in 1..n : SubSeq(s, 1, n)[i] = s[i]
  BY <1>1
<1> QED BY <1>2, <1>4, <1>5

\* What is above a path: the paths it is under, but itself.
LEMMA AboveBy ==
    ASSUME NEW s, IsPath(s), NEW a
    PROVE  a \in Above(s) <=> IsPath(a) /\ Len(a) < Len(s) /\ Under(s, a)
<1>1. Len(s) \in Nat \ {0}
  BY PathLen
<1>2. ASSUME a \in Above(s)
      PROVE  IsPath(a) /\ Len(a) < Len(s) /\ Under(s, a)
  <2>1. PICK i \in 1..(Len(s) - 1) : a = SubSeq(s, 1, i)
    BY <1>2 DEF Above
  <2>2. i \in 1..Len(s)
    BY <1>1
  <2>3. /\ IsPath(a) /\ Len(a) = i
        /\ \A j \in 1..i : a[j] = s[j]
    BY <2>1, <2>2, PartPath
  <2> QED BY <1>1, <2>3, UnderBy
<1>3. ASSUME IsPath(a), Len(a) < Len(s), Under(s, a)
      PROVE  a \in Above(s)
  <2>1. Len(a) \in 1..(Len(s) - 1) /\ Len(a) \in 1..Len(s)
    BY <1>1, <1>3, PathLen
  <2>2. \A i \in 1..Len(a) : a[i] = s[i]
    BY <1>3, UnderBy
  <2> DEFINE b == SubSeq(s, 1, Len(a))
  <2>3. IsPath(b) /\ Len(b) = Len(a) /\ \A i \in 1..Len(a) : b[i] = s[i]
    BY <2>1, PartPath
  <2> HIDE DEF b
  <2>4. a = b
    BY <1>3, <2>2, <2>3, SamePath
  <2> QED BY <2>1, <2>4 DEF Above, b
<1> QED BY <1>2, <1>3

LEMMA UnderSelf ==
    ASSUME NEW s, IsPath(s)
    PROVE  Under(s, s)
BY PathLen, UnderBy

\* What is under a path is under whatever that path is under.
LEMMA UnderUnder ==
    ASSUME NEW s, IsPath(s), NEW t, IsPath(t), NEW u, IsPath(u), Under(s, t), Under(t, u)
    PROVE  Under(s, u)
BY PathLen, UnderBy

\* Under a path is what is below it, and the path itself.
LEMMA UnderOr ==
    ASSUME NEW s, IsPath(s), NEW t, IsPath(t)
    PROVE  Under(s, t) <=> t = s \/ t \in Above(s)
<1>1. Len(s) \in Nat /\ Len(t) \in Nat
  BY PathLen
<1>2. ASSUME Under(s, t), ~(Len(t) < Len(s))
      PROVE  t = s
  <2>1. Len(t) = Len(s) /\ \A i \in 1..Len(t) : t[i] = s[i]
    BY <1>1, <1>2, UnderBy
  <2> QED BY <2>1, SamePath
<1> QED BY <1>2, AboveBy, UnderSelf

\* What is above a path is a chain.
LEMMA Chain ==
    ASSUME NEW s, IsPath(s), NEW t, IsPath(t), NEW u, IsPath(u), Under(s, t), Under(s, u)
    PROVE  Under(t, u) \/ Under(u, t)
<1>1. Len(t) \in Nat /\ Len(u) \in Nat
  BY PathLen
<1>2. \A i \in 1..Len(t) : t[i] = s[i]
  BY UnderBy
<1>3. \A i \in 1..Len(u) : u[i] = s[i]
  BY UnderBy
<1>4. CASE Len(t) <= Len(u)
  BY <1>1, <1>2, <1>3, <1>4, UnderBy
<1>5. CASE Len(u) <= Len(t)
  BY <1>1, <1>2, <1>3, <1>5, UnderBy
<1> QED BY <1>1, <1>4, <1>5

\* The directories above one above a path are above the path.
LEMMA AboveAbove ==
    ASSUME NEW s, IsPath(s), NEW t \in Above(s)
    PROVE  IsPath(t) /\ Above(t) \subseteq Above(s)
<1>1. IsPath(t) /\ Len(t) < Len(s) /\ Under(s, t)
  BY AboveBy
<1>2. ASSUME NEW a \in Above(t)
      PROVE  a \in Above(s)
  <2>1. IsPath(a) /\ Len(a) < Len(t) /\ Under(t, a)
    BY <1>1, <1>2, AboveBy
  <2>2. Under(s, a)
    BY <1>1, <2>1, UnderUnder
  <2>3. Len(a) < Len(s)
    BY <1>1, <2>1, PathLen
  <2> QED BY <2>1, <2>2, <2>3, AboveBy
<1> QED BY <1>1, <1>2

\* Nothing is above itself.
LEMMA NotAbove ==
    ASSUME NEW s, IsPath(s)
    PROVE  s \notin Above(s)
BY AboveBy, PathLen

\* What is under a path begins as the path does.
LEMMA UnderFirst ==
    ASSUME NEW s, IsPath(s), NEW t, IsPath(t), Under(s, t)
    PROVE  s[1] = t[1]
BY PathLen, UnderBy

LEMMA UnderRoot ==
    ASSUME NEW s, IsPath(s), NEW e
    PROVE  IsPath(<<e>>) /\ (Under(s, <<e>>) <=> s[1] = e)
<1>1. <<e>> \in Seq({e}) /\ <<e>> # <<>>
  OBVIOUS
<1>2. IsPath(<<e>>) /\ Len(<<e>>) = 1
  BY <1>1, PathOf
<1> QED BY <1>2, UnderBy, PathLen

-----------------------------------------------------------------------------
(* Renaming *)

\* The path with another last segment
Beside(from, to) ==
    /\ IsPath(from) /\ IsPath(to) /\ Len(to) = Len(from)
    /\ \A i \in 1..(Len(from) - 1) : to[i] = from[i]

LEMMA RenamedBeside ==
    ASSUME NEW r, IsPath(r.path), Len(r.path) > 1
    PROVE  Beside(r.path, Renamed(r))
<1> DEFINE s == r.path
           f == Front(s)
<1>1. Len(s) \in Nat /\ Len(s) - 1 \in 1..Len(s)
  BY PathLen
<1>2. f = SubSeq(s, 1, Len(s) - 1)
  BY DEF Front
<1>3. /\ IsPath(f) /\ Len(f) = Len(s) - 1
      /\ \A i \in 1..(Len(s) - 1) : f[i] = s[i]
  BY <1>1, <1>2, PartPath
<1>4. Renamed(r) = Append(f, r.name)
  BY DEF Renamed
<1> HIDE DEF f
<1>5. /\ IsPath(Renamed(r)) /\ Len(Renamed(r)) = Len(f) + 1
      /\ \A i \in 1..Len(f) : Renamed(r)[i] = f[i]
  BY <1>3, <1>4, AppendPath
<1>6. Len(Renamed(r)) = Len(s)
  BY <1>1, <1>3, <1>5
<1>7. \A i \in 1..(Len(s) - 1) : Renamed(r)[i] = s[i]
  BY <1>1, <1>3, <1>5
<1> QED BY <1>5, <1>6, <1>7 DEF Beside

LEMMA BesideBack ==
    ASSUME NEW from, NEW to, Beside(from, to)
    PROVE  Beside(to, from)
BY DEF Beside

\* Moving changes one segment.
LEMMA MovedBy ==
    ASSUME NEW from, NEW to, Beside(from, to), NEW s, IsPath(s), Under(s, from)
    PROVE  /\ IsPath(Moved(s, from, to)) /\ Len(Moved(s, from, to)) = Len(s)
           /\ \A i \in 1..Len(s) : Moved(s, from, to)[i] = IF i <= Len(from) THEN to[i] ELSE s[i]
<1>1. IsPath(from) /\ IsPath(to) /\ Len(to) = Len(from)
  BY DEF Beside
<1>2. PICK S : s \in Seq(S) /\ to \in Seq(S)
  BY <1>1, Common
<1> DEFINE rest == SubSeq(s, Len(from) + 1, Len(s))
<1>3. Len(from) \in Nat \ {0} /\ Len(s) \in Nat /\ Len(from) <= Len(s)
  BY <1>1, PathLen, UnderBy
<1>4. /\ rest \in Seq(S) /\ Len(rest) = Len(s) - Len(from)
      /\ \A i \in 1..(Len(s) - Len(from)) : rest[i] = s[Len(from) + i]
  BY <1>2, <1>3
<1>5. Moved(s, from, to) = to \o rest
  BY DEF Moved
<1> HIDE DEF rest
<1>6. to \o rest \in Seq(S) /\ Len(to \o rest) = Len(s)
  BY <1>1, <1>2, <1>3, <1>4
<1>7. ASSUME NEW i \in 1..Len(s)
      PROVE  (to \o rest)[i] = IF i <= Len(from) THEN to[i] ELSE s[i]
  <2>1. CASE i <= Len(from)
    BY <1>1, <1>2, <1>3, <1>4, <2>1
  <2>2. CASE ~(i <= Len(from))
    <3>1. (to \o rest)[i] = rest[i - Len(from)]
      BY <1>1, <1>2, <1>3, <1>4, <2>2
    <3>2. i - Len(from) \in 1..(Len(s) - Len(from)) /\ Len(from) + (i - Len(from)) = i
      BY <1>3, <2>2
    <3> QED BY <1>4, <2>2, <3>1, <3>2, <1>3
  <2> QED BY <2>1, <2>2
<1>8. to \o rest # <<>>
  BY <1>3, <1>6
<1>9. IsPath(to \o rest)
  BY <1>6, <1>8, PathOf
<1> QED BY <1>5, <1>6, <1>7, <1>9

\* What is not under the old name stays where it is.
LEMMA MovedAway ==
    ASSUME NEW from, NEW to, NEW s, ~Under(s, from)
    PROVE  Moved(s, from, to) = s
BY DEF Moved

\* What was under the old name is under the new one.
LEMMA MovedUnder ==
    ASSUME NEW from, NEW to, Beside(from, to), NEW s, IsPath(s), Under(s, from)
    PROVE  Under(Moved(s, from, to), to)
<1> DEFINE m == Moved(s, from, to)
<1>1. IsPath(from) /\ IsPath(to) /\ Len(to) = Len(from)
  BY DEF Beside
<1>2. /\ IsPath(m) /\ Len(m) = Len(s)
      /\ \A i \in 1..Len(s) : m[i] = IF i <= Len(from) THEN to[i] ELSE s[i]
  BY MovedBy
<1> HIDE DEF m
<1>3. Len(from) \in Nat /\ Len(s) \in Nat /\ Len(from) <= Len(s)
  BY <1>1, PathLen, UnderBy
<1>4. \A i \in 1..Len(to) : to[i] = m[i]
  BY <1>1, <1>2, <1>3
<1>5. Under(m, to)
  BY <1>1, <1>2, <1>3, <1>4, UnderBy
<1> QED BY <1>5 DEF m

\* Moving back
LEMMA MovedBack ==
    ASSUME NEW from, NEW to, Beside(from, to), NEW s, IsPath(s), Under(s, from)
    PROVE  Moved(Moved(s, from, to), to, from) = s
<1> DEFINE m == Moved(s, from, to)
           b == Moved(m, to, from)
<1>1. IsPath(from) /\ IsPath(to) /\ Len(to) = Len(from)
  BY DEF Beside
<1>2. /\ IsPath(m) /\ Len(m) = Len(s)
      /\ \A i \in 1..Len(s) : m[i] = IF i <= Len(from) THEN to[i] ELSE s[i]
  BY MovedBy
<1>3. Under(m, to)
  BY MovedUnder
<1> HIDE DEF m
<1>4. /\ IsPath(b) /\ Len(b) = Len(m)
      /\ \A i \in 1..Len(m) : b[i] = IF i <= Len(to) THEN from[i] ELSE m[i]
  BY <1>2, <1>3, BesideBack, MovedBy
<1> HIDE DEF b
<1>5. Len(from) \in Nat /\ Len(s) \in Nat /\ \A i \in 1..Len(from) : from[i] = s[i]
  BY <1>1, PathLen, UnderBy
<1>6. \A i \in 1..Len(s) : b[i] = s[i]
  BY <1>1, <1>2, <1>4, <1>5
<1>7. b = s
  BY <1>2, <1>4, <1>6, SamePath
<1> QED BY <1>7 DEF b, m

\* Two different names are beside each other, not one under the other.
LEMMA Apart ==
    ASSUME NEW from, NEW to, Beside(from, to), Under(to, from)
    PROVE  to = from
<1>1. IsPath(from) /\ IsPath(to) /\ Len(to) = Len(from)
  BY DEF Beside
<1>2. \A i \in 1..Len(from) : from[i] = to[i]
  BY <1>1, UnderBy
<1> QED BY <1>1, <1>2, SamePath

\* A moved path is a path.
LEMMA MovedPath ==
    ASSUME NEW from, NEW to, Beside(from, to), NEW s, IsPath(s)
    PROVE  IsPath(Moved(s, from, to))
BY MovedBy, MovedAway

\* What is above one of two names is above the other.
LEMMA AboveBeside ==
    ASSUME NEW from, NEW to, Beside(from, to)
    PROVE  Above(from) = Above(to)
<1>1. ASSUME NEW f, NEW t, Beside(f, t), NEW a \in Above(f)
      PROVE  a \in Above(t)
  <2>1. IsPath(f) /\ IsPath(t) /\ Len(t) = Len(f) /\ \A i \in 1..(Len(f) - 1) : t[i] = f[i]
    BY <1>1 DEF Beside
  <2>2. IsPath(a) /\ Len(a) < Len(f) /\ Under(f, a)
    BY <1>1, <2>1, AboveBy
  <2>3. Len(a) \in Nat /\ Len(f) \in Nat /\ \A i \in 1..Len(a) : a[i] = f[i]
    BY <2>1, <2>2, PathLen, UnderBy
  <2>4. \A i \in 1..Len(a) : a[i] = t[i]
    BY <2>1, <2>2, <2>3
  <2>5. Under(t, a)
    BY <2>1, <2>2, <2>3, <2>4, UnderBy
  <2> QED BY <2>1, <2>2, <2>5, AboveBy
<1> QED BY <1>1, BesideBack

\* Moving keeps what is under what.
LEMMA MovedKeepsUnder ==
    ASSUME NEW from, NEW to, Beside(from, to), NEW s, IsPath(s), NEW a, IsPath(a), Under(s, a)
    PROVE  Under(Moved(s, from, to), Moved(a, from, to))
<1> DEFINE m == Moved(s, from, to)
           n == Moved(a, from, to)
<1>1. IsPath(from) /\ IsPath(to) /\ Len(to) = Len(from)
  BY DEF Beside
<1>2. CASE ~Under(s, from)
  <2>1. ~Under(a, from)
    BY <1>1, <1>2, UnderUnder
  <2> QED BY <1>2, <2>1, MovedAway
<1>3. CASE Under(s, from) /\ Under(a, from)
  <2>1. /\ IsPath(m) /\ Len(m) = Len(s)
        /\ \A i \in 1..Len(s) : m[i] = IF i <= Len(from) THEN to[i] ELSE s[i]
    BY <1>3, MovedBy
  <2>2. /\ IsPath(n) /\ Len(n) = Len(a)
        /\ \A i \in 1..Len(a) : n[i] = IF i <= Len(from) THEN to[i] ELSE a[i]
    BY <1>3, MovedBy
  <2> HIDE DEF m, n
  <2>3. Len(s) \in Nat /\ Len(a) \in Nat /\ Len(a) <= Len(s) /\ \A i \in 1..Len(a) : a[i] = s[i]
    BY PathLen, UnderBy
  <2>4. \A i \in 1..Len(n) : n[i] = m[i]
    BY <2>1, <2>2, <2>3
  <2>5. Under(m, n)
    BY <2>1, <2>2, <2>3, <2>4, UnderBy
  <2> QED BY <2>5 DEF m, n
<1>4. CASE Under(s, from) /\ ~Under(a, from)
  <2>1. Under(from, a)
    BY <1>1, <1>4, Chain
  <2>2. a \in Above(from)
    BY <1>1, <1>4, <2>1, UnderOr, UnderSelf
  <2>3. a \in Above(to)
    BY <2>2, AboveBeside
  <2>4. Under(to, a)
    BY <1>1, <2>3, AboveBy
  <2>5. Under(m, to) /\ IsPath(m)
    BY <1>4, MovedUnder, MovedBy
  <2>6. Under(m, a)
    BY <1>1, <2>4, <2>5, UnderUnder
  <2> QED BY <1>4, <2>6, MovedAway
<1> QED BY <1>2, <1>3, <1>4

\* A rename keeps the namespace.
LEMMA MovedFirst ==
    ASSUME NEW from, NEW to, Beside(from, to), Len(from) > 1, NEW s, IsPath(s)
    PROVE  Moved(s, from, to)[1] = s[1]
<1>1. CASE Under(s, from)
  <2>1. IsPath(from) /\ Len(to) = Len(from) /\ \A i \in 1..(Len(from) - 1) : to[i] = from[i]
    BY DEF Beside
  <2>2. Len(from) \in Nat /\ Len(s) \in Nat \ {0}
    BY <2>1, PathLen
  <2>3. to[1] = from[1]
    BY <2>1, <2>2
  <2>4. s[1] = from[1]
    BY <1>1, <2>1, UnderFirst
  <2>5. Moved(s, from, to)[1] = to[1]
    BY <1>1, <2>2, MovedBy
  <2> QED BY <2>3, <2>4, <2>5
<1> QED BY <1>1, MovedAway

-----------------------------------------------------------------------------
(* Trees *)

PathTree(t) == IsTree(t) /\ \A x \in DOMAIN t : IsPath(x)

\* u is t with new directories made under the number n, and other brains in S.
Keeps(t, u, n, S) ==
    /\ DOMAIN t \subseteq DOMAIN u
    /\ \A x \in DOMAIN t :
          /\ u[x].id = t[x].id /\ u[x].kind = t[x].kind
          /\ x \notin S => u[x].brain = t[x].brain
    /\ \A x \in DOMAIN u : x \notin DOMAIN t => u[x].id = <<n, x>>

LEMMA EmptyIsBrain == IsBrain(EmptyBrain)
BY ExomsAssumption DEF IsBrain, EmptyBrain

LEMMA NodeTyped ==
    ASSUME NEW kind \in Kinds, NEW brain, IsBrain(brain), NEW id
    PROVE  IsNode(Node(kind, brain, id))
BY DEF IsNode, Node

\* The parts of a node of the tree.
LEMMA NodeParts ==
    ASSUME NEW t, PathTree(t), NEW x \in DOMAIN t
    PROVE  /\ IsPath(x) /\ IsNode(t[x]) /\ t[x].kind \in Kinds /\ IsBrain(t[x].brain)
           /\ Above(x) \subseteq DOMAIN t
BY DEF PathTree, IsTree, IsNode

\* A tree, node by node
LEMMA TreeBy ==
    ASSUME NEW t,
           \A x \in DOMAIN t : IsPath(x) /\ Above(x) \subseteq DOMAIN t /\ IsNode(t[x])
    PROVE  PathTree(t)
BY DEF PathTree, IsTree, IsPath

\* ensure_folder_path adds directories and leaves those that are there.
LEMMA DirsTree ==
    ASSUME NEW t, PathTree(t), NEW path, IsPath(path), NEW n
    PROVE  /\ PathTree(CreateDirs(t, path, n)) /\ Keeps(t, CreateDirs(t, path, n), n, {})
           /\ path \in DOMAIN CreateDirs(t, path, n)
           /\ path \notin DOMAIN t => CreateDirs(t, path, n)[path] = Directory(<<n, path>>)
<1> DEFINE u == CreateDirs(t, path, n)
<1>1. DOMAIN u = DOMAIN t \union Above(path) \union {path}
  BY DEF CreateDirs
<1>2. \A x \in DOMAIN u : u[x] = IF x \in DOMAIN t THEN t[x] ELSE Directory(<<n, x>>)
  BY DEF CreateDirs
<1> HIDE DEF u
<1>3. \A x : IsNode(Directory(<<n, x>>)) /\ Directory(<<n, x>>).id = <<n, x>>
  BY EmptyIsBrain, NodeTyped DEF Directory, Kinds, Node
<1>4. ASSUME NEW x \in DOMAIN u
      PROVE  IsPath(x) /\ Above(x) \subseteq DOMAIN u /\ IsNode(u[x])
  <2>1. IsNode(u[x])
    BY <1>2, <1>3, NodeParts
  <2>2. CASE x \in DOMAIN t
    BY <1>1, <2>1, <2>2, NodeParts
  <2>3. CASE x \in Above(path)
    BY <1>1, <2>1, <2>3, AboveAbove
  <2>4. CASE x = path
    BY <1>1, <2>1, <2>4
  <2> QED BY <1>1, <2>2, <2>3, <2>4
<1>5. PathTree(u)
  BY <1>4, TreeBy
<1>6. Keeps(t, u, n, {})
  BY <1>1, <1>2, <1>3 DEF Keeps
<1>7. path \in DOMAIN u /\ (path \notin DOMAIN t => u[path] = Directory(<<n, path>>))
  BY <1>1, <1>2
<1> QED BY <1>5, <1>6, <1>7 DEF u

\* write_meta makes the directory and what is above it.
LEMMA PutTree ==
    ASSUME NEW t, PathTree(t), NEW path, IsPath(path), NEW n, NEW kind \in Kinds
    PROVE  /\ PathTree(Put(t, path, kind, n))
           /\ (path \in DOMAIN t => t[path].kind = kind) => Keeps(t, Put(t, path, kind, n), n, {})
           /\ path \in DOMAIN Put(t, path, kind, n) /\ Put(t, path, kind, n)[path].kind = kind
<1> DEFINE c == CreateDirs(t, path, n)
           u == Put(t, path, kind, n)
<1>1. /\ PathTree(c) /\ Keeps(t, c, n, {}) /\ path \in DOMAIN c
      /\ path \notin DOMAIN t => c[path] = Directory(<<n, path>>)
  BY DirsTree
<1>2. u = [c EXCEPT ![path].kind = kind]
  BY DEF Put
<1> HIDE DEF c
<1>3. DOMAIN u = DOMAIN c /\ \A x \in DOMAIN u : x # path => u[x] = c[x]
  BY <1>2
<1>4. u[path] = [c[path] EXCEPT !.kind = kind]
  BY <1>1, <1>2
<1> HIDE DEF u
<1>5. IsNode(c[path])
  BY <1>1, NodeParts
<1>6. c[path] = [kind |-> c[path].kind, brain |-> c[path].brain, id |-> c[path].id]
  BY <1>5 DEF IsNode, Node
<1>7. u[path] = Node(kind, c[path].brain, c[path].id)
  BY <1>4, <1>6 DEF Node
<1>8. /\ u[path].kind = kind /\ u[path].brain = c[path].brain /\ u[path].id = c[path].id
      /\ IsNode(u[path])
  BY <1>5, <1>7, NodeTyped DEF Node, IsNode
<1>9. PathTree(u)
  <2>1. ASSUME NEW x \in DOMAIN u
        PROVE  IsPath(x) /\ Above(x) \subseteq DOMAIN u /\ IsNode(u[x])
    BY <1>1, <1>3, <1>8, NodeParts
  <2> QED BY <2>1, TreeBy
<1>10. ASSUME path \in DOMAIN t => t[path].kind = kind
       PROVE  Keeps(t, u, n, {})
  BY <1>1, <1>3, <1>8, <1>10 DEF Keeps
<1> QED BY <1>1, <1>3, <1>8, <1>9, <1>10 DEF u

\* A save changes one brain, and makes its directory again if it has gone.
LEMMA SavedTree ==
    ASSUME NEW t, PathTree(t), NEW path, IsPath(path), NEW n, NEW brain, IsBrain(brain)
    PROVE  /\ PathTree(Saved(t, path, brain, n)) /\ Keeps(t, Saved(t, path, brain, n), n, {path})
           /\ path \in DOMAIN Saved(t, path, brain, n)
           /\ Saved(t, path, brain, n)[path].brain = brain
           /\ path \in DOMAIN t => DOMAIN Saved(t, path, brain, n) = DOMAIN t
<1> DEFINE c == CreateDirs(t, path, n)
           u == Saved(t, path, brain, n)
<1>1. PathTree(c) /\ Keeps(t, c, n, {}) /\ path \in DOMAIN c
  BY DirsTree
<1>2. u = [c EXCEPT ![path].brain = brain]
  BY DEF Saved
<1>0. path \in DOMAIN t => DOMAIN c = DOMAIN t
  BY NodeParts DEF CreateDirs
<1> HIDE DEF c
<1>3. DOMAIN u = DOMAIN c /\ \A x \in DOMAIN u : x # path => u[x] = c[x]
  BY <1>2
<1>4. u[path] = [c[path] EXCEPT !.brain = brain]
  BY <1>1, <1>2
<1> HIDE DEF u
<1>5. IsNode(c[path])
  BY <1>1, NodeParts
<1>6. c[path] = [kind |-> c[path].kind, brain |-> c[path].brain, id |-> c[path].id]
  BY <1>5 DEF IsNode, Node
<1>7. u[path] = Node(c[path].kind, brain, c[path].id)
  BY <1>4, <1>6 DEF Node
<1>8. /\ u[path].kind = c[path].kind /\ u[path].brain = brain /\ u[path].id = c[path].id
      /\ IsNode(u[path])
  BY <1>5, <1>7, NodeTyped DEF Node, IsNode
<1>9. PathTree(u)
  <2>1. ASSUME NEW x \in DOMAIN u
        PROVE  IsPath(x) /\ Above(x) \subseteq DOMAIN u /\ IsNode(u[x])
    BY <1>1, <1>3, <1>8, NodeParts
  <2> QED BY <2>1, TreeBy
<1>10. Keeps(t, u, n, {path})
  BY <1>1, <1>3, <1>8 DEF Keeps
<1> QED BY <1>0, <1>1, <1>3, <1>8, <1>9, <1>10 DEF u

LEMMA KeepsOn ==
    ASSUME NEW t, NEW u, NEW v, NEW n, Keeps(t, u, n, {}), Keeps(u, v, n, {})
    PROVE  Keeps(t, v, n, {})
BY DEF Keeps

\* Removing a directory removes what is in it and nothing else.
LEMMA RemovedTree ==
    ASSUME NEW t, PathTree(t), NEW top, IsPath(top) \/ top = <<>>
    PROVE  PathTree(Removed(t, top))
<1> DEFINE u == Removed(t, top)
<1>1. /\ DOMAIN u = {q \in DOMAIN t : ~Under(q, top)}
      /\ \A x \in DOMAIN u : u[x] = t[x]
  BY DEF Removed
<1> HIDE DEF u
<1>2. ASSUME NEW x \in DOMAIN u
      PROVE  IsPath(x) /\ Above(x) \subseteq DOMAIN u /\ IsNode(u[x])
  <2>1. IsPath(x) /\ Above(x) \subseteq DOMAIN t /\ IsNode(t[x])
    BY <1>1, NodeParts
  <2>2. IsPath(top)
    BY <1>1, <2>1, UnderEmpty
  <2>3. ASSUME NEW a \in Above(x)
        PROVE  ~Under(a, top)
    BY <1>1, <2>1, <2>2, AboveBy, UnderUnder
  <2> QED BY <1>1, <2>1, <2>3
<1> QED BY <1>2, TreeBy DEF u

\* A renamed tree, node by node
MovesTo(t, u, from, to) ==
    /\ DOMAIN u = {Moved(x, from, to) : x \in DOMAIN t}
    /\ \A x \in DOMAIN t : u[Moved(x, from, to)] = t[x]

\* A rename moves every directory under the old name, and no two to one place.
LEMMA MovedTreeBy ==
    ASSUME PathTree(tree), NEW from, NEW to, Beside(from, to), CanRename(from, to)
    PROVE  /\ MovesTo(tree, MovedTree(from, to), from, to)
           /\ PathTree(MovedTree(from, to))
           /\ \A x, y \in DOMAIN tree : Moved(x, from, to) = Moved(y, from, to) => x = y
<1> DEFINE kept == IF to = from THEN tree ELSE Removed(tree, to)
           u == MovedTree(from, to)
           M(x) == Moved(x, from, to)
           N(x) == Moved(x, to, from)
<1>1. IsPath(from) /\ IsPath(to) /\ Beside(to, from)
  BY BesideBack DEF Beside
<1>2. ASSUME to # from, NEW x \in DOMAIN tree
      PROVE  ~Under(x, to)
  <2>1. to \notin DOMAIN tree
    BY <1>2 DEF CanRename, There
  <2> QED BY <1>1, <1>2, <2>1, NodeParts, UnderOr
<1>3. DOMAIN kept = DOMAIN tree /\ \A x \in DOMAIN tree : kept[x] = tree[x]
  BY <1>2 DEF Removed
<1>4. /\ DOMAIN u = {M(x) : x \in DOMAIN kept}
      /\ \A y \in DOMAIN u : u[y] = kept[N(y)]
  BY DEF MovedTree
<1> HIDE DEF kept, u
<1>5. \A x \in DOMAIN tree : IsPath(x) /\ Above(x) \subseteq DOMAIN tree /\ IsNode(tree[x])
  BY NodeParts
<1>6. ASSUME NEW x \in DOMAIN tree
      PROVE  N(M(x)) = x
  <2>1. CASE Under(x, from)
    BY <1>5, <2>1, MovedBack
  <2>2. CASE ~Under(x, from)
    <3>1. M(x) = x
      BY <2>2, MovedAway
    <3>2. ~Under(x, to)
      BY <1>2, <2>2
    <3> QED BY <3>1, <3>2, MovedAway
  <2> QED BY <2>1, <2>2
<1>7. ASSUME NEW x \in DOMAIN tree, NEW y \in DOMAIN tree, M(x) = M(y)
      PROVE  x = y
  BY <1>6, <1>7
<1>8. ASSUME NEW x \in DOMAIN tree
      PROVE  M(x) \in DOMAIN u /\ u[M(x)] = tree[x]
  BY <1>3, <1>4, <1>6
<1>9. DOMAIN u = {M(x) : x \in DOMAIN tree}
  BY <1>3, <1>4
<1>10. ASSUME NEW x \in DOMAIN tree, NEW a \in Above(M(x))
       PROVE  a \in DOMAIN u
  <2>1. IsPath(M(x)) /\ IsPath(x)
    BY <1>5, MovedPath
  <2>2. IsPath(a) /\ Under(M(x), a)
    BY <1>10, <2>1, AboveBy
  <2>3. IsPath(N(a))
    BY <1>1, <2>2, MovedPath
  <2>4. Under(x, N(a))
    BY <1>1, <1>6, <2>1, <2>2, MovedKeepsUnder
  <2>5. N(a) \in DOMAIN tree
    BY <1>5, <2>1, <2>3, <2>4, UnderOr
  <2>6. M(N(a)) = a
    <3>1. CASE Under(a, to)
      BY <1>1, <2>2, <3>1, MovedBack
    <3>2. CASE ~Under(a, to)
      <4>1. N(a) = a
        BY <3>2, MovedAway
      <4>2. ASSUME Under(a, from)
            PROVE  FALSE
        <5>1. Under(M(x), from)
          BY <1>1, <2>1, <2>2, <4>2, UnderUnder
        <5>2. Under(x, from)
          BY <5>1, MovedAway
        <5>3. Under(M(x), to)
          BY <2>1, <5>2, MovedUnder
        <5>4. Under(from, to) \/ Under(to, from)
          BY <1>1, <2>1, <5>1, <5>3, Chain
        <5>5. from = to
          BY <1>1, <5>4, Apart
        <5> QED BY <3>2, <4>2, <5>5
      <4> QED BY <4>1, <4>2, MovedAway
    <3> QED BY <3>1, <3>2
  <2> QED BY <1>8, <2>5, <2>6
<1>11. ASSUME NEW y \in DOMAIN u
       PROVE  IsPath(y) /\ Above(y) \subseteq DOMAIN u /\ IsNode(u[y])
  <2>1. PICK x \in DOMAIN tree : y = M(x)
    BY <1>9
  <2> HIDE DEF M, N
  <2>2. IsPath(M(x))
    BY <1>5, MovedPath DEF M
  <2>3. IsNode(u[M(x)])
    BY <1>5, <1>8
  <2> QED BY <1>10, <2>1, <2>2, <2>3
<1>12. PathTree(u)
  BY <1>11, TreeBy
<1>13. MovesTo(tree, u, from, to)
  BY <1>8, <1>9 DEF MovesTo
<1> QED BY <1>7, <1>12, <1>13 DEF u

-----------------------------------------------------------------------------
(* Plans *)

Resets == {"reset_evict", "reset", "reset_shares"}

\* What a step of a handler may be followed by
Leads(a, b) ==
    \/ a = "guard_read" /\ b \in {"load", "query", "schema", "derived", "eval_query", "fork_check"}
    \/ a = "guard_write" /\ b \in {"eval_assert", "eval_retract", "eval_rule", "precheck", "import",
                                   "init", "folder_new", "exom_new", "session_dir", "rename", "collect"}
    \/ a = "guard_owner" /\ b = "precheck"
    \/ a = "tool_bind" /\ b = "tool_eval"
    \/ a = "precheck" /\ b \in {"evict", "uncache"}
    \/ a = "evict" /\ b \in {"assert", "retract_all", "wipe"}
    \/ a = "uncache" /\ b \in {"assert", "retract"}
    \/ a = "import" /\ b = "rebind"
    \/ a = "session_dir" /\ b = "session_rows"
    \/ a = "rename" /\ b = "evict_under"
    \/ a = "evict_under" /\ b = "share_paths"
    \/ a = "collect" /\ b = "evict_held"
    \/ a = "evict_held" /\ b = "delete"
    \/ a = "delete" /\ b = "delete_shares"
    \/ a = "fork_check" /\ b \in {"snapshot", "peek"}
    \/ a = "peek" /\ b = "fork_load"
    \/ a = "fork_load" /\ b = "fork_insert"
    \/ a = "fork_insert" /\ b = "snapshot_cached"
    \/ a \in {"snapshot", "snapshot_cached"} /\ b = "fork_new"
    \/ a = "fork_new" /\ b = "copy"
    \/ a = "delete_user" /\ b = "purge"
    \/ a = "purge" /\ b = "evict_under"
    \/ a = "reset_evict" /\ b = "reset"
    \/ a = "reset" /\ b = "reset_shares"

Openers == {"guard_read", "guard_write", "guard_owner", "load", "mcp_query", "tool_bind", "eval_raw",
            "precheck", "session_dir", "delete_user", "reset_evict"}

Lasts == {"load", "query", "mcp_query", "tool_eval", "schema", "derived", "eval_query", "eval_raw",
          "eval_assert", "eval_retract", "eval_rule", "assert", "retract", "retract_all", "wipe",
          "rebind", "init", "folder_new", "exom_new", "session_rows", "share_paths", "evict_under",
          "delete_shares", "copy", "reset_shares"}

\* The steps of a handler, or the last of them
Plan(todo) ==
    /\ IsPath(todo)
    /\ \A i \in 1..(Len(todo) - 1) : Leads(todo[i], todo[i + 1])
    /\ todo[Len(todo)] \in Lasts
    /\ \A i \in 1..Len(todo) :
          /\ todo[i] = "purge" => i + 1 = Len(todo)
          /\ todo[i] = "rename" => i + 2 = Len(todo)

\* Plans of one, two and three steps.
LEMMA OneStep ==
    ASSUME NEW a, a \in Lasts
    PROVE  Plan(<<a>>)
<1>1. a # "purge" /\ a # "rename"
  BY DEF Lasts
<1>2. <<a>> \in Seq({a}) /\ Len(<<a>>) = 1 /\ <<a>>[1] = a
  OBVIOUS
<1>3. IsPath(<<a>>)
  BY <1>2, PathOf
<1> QED BY <1>1, <1>2, <1>3 DEF Plan

LEMMA TwoSteps ==
    ASSUME NEW a, NEW b, Leads(a, b), b \in Lasts, a # "rename"
    PROVE  Plan(<<a, b>>)
<1>1. b # "purge" /\ b # "rename" /\ a # "rename"
  BY DEF Lasts, Leads
<1>2. <<a, b>> \in Seq({a, b}) /\ Len(<<a, b>>) = 2 /\ <<a, b>>[1] = a /\ <<a, b>>[2] = b
  OBVIOUS
<1>3. IsPath(<<a, b>>)
  BY <1>2, PathOf
<1> QED BY <1>1, <1>2, <1>3 DEF Plan

LEMMA ThreeSteps ==
    ASSUME NEW a, NEW b, NEW c, Leads(a, b), Leads(b, c), c \in Lasts, a # "purge", b # "rename"
    PROVE  Plan(<<a, b, c>>)
<1>1. c # "purge" /\ c # "rename"
  BY DEF Lasts
<1> DEFINE s == <<a, b, c>>
<1>2. s \in Seq({a, b, c}) /\ Len(s) = 3 /\ s[1] = a /\ s[2] = b /\ s[3] = c
  OBVIOUS
<1>3. IsPath(s)
  BY <1>2, PathOf
<1> HIDE DEF s
<1>4. \A i \in 1..(Len(s) - 1) : Leads(s[i], s[i + 1])
  BY <1>2
<1>5. \A i \in 1..Len(s) : (s[i] = "purge" => i + 1 = Len(s)) /\ (s[i] = "rename" => i + 2 = Len(s))
  BY <1>1, <1>2
<1>6. Plan(s)
  BY <1>2, <1>3, <1>4, <1>5 DEF Plan
<1> QED BY <1>6 DEF s

\* Plans with more steps, of which neither renames before the last two nor purges
LEMMA MoreSteps ==
    ASSUME NEW s, IsPath(s), \A i \in 1..(Len(s) - 1) : Leads(s[i], s[i + 1]),
           s[Len(s)] \in Lasts,
           \A i \in 1..Len(s) : s[i] # "purge" /\ (s[i] = "rename" => i + 2 = Len(s))
    PROVE  Plan(s)
BY DEF Plan

\* What is left of a plan is a plan.
LEMMA PlanOn ==
    ASSUME NEW s, Plan(s), NEW n \in 0..(Len(s) - 1)
    PROVE  /\ Plan(SubSeq(s, n + 1, Len(s)))
           /\ Len(SubSeq(s, n + 1, Len(s))) = Len(s) - n
           /\ \A i \in 1..(Len(s) - n) : SubSeq(s, n + 1, Len(s))[i] = s[n + i]
<1> DEFINE S == {s[i] : i \in DOMAIN s}
           t == SubSeq(s, n + 1, Len(s))
<1>1. s \in Seq(S) /\ Len(s) \in Nat \ {0} /\ IsPath(s)
  BY PathLen DEF IsPath, Plan
<1> HIDE DEF S
<1>2. t \in Seq(S) /\ Len(t) = Len(s) - n
  BY <1>1
<1>3. \A i \in 1..(Len(s) - n) : t[i] = s[n + i]
  BY <1>1
<1>4. t # <<>>
  BY <1>1, <1>2
<1> HIDE DEF t
<1>5. IsPath(t)
  BY <1>2, <1>4, PathOf
<1>6. \A i \in 1..(Len(t) - 1) : Leads(t[i], t[i + 1])
  BY <1>1, <1>2, <1>3, SMTT(30) DEF Plan
<1>7. t[Len(t)] \in Lasts
  BY <1>1, <1>2, <1>3 DEF Plan
<1>8. \A i \in 1..Len(t) : (t[i] = "purge" => i + 1 = Len(t)) /\ (t[i] = "rename" => i + 2 = Len(t))
  <2>1. TAKE i \in 1..Len(t)
  <2>2. n + i \in 1..Len(s) /\ t[i] = s[n + i]
    BY <1>1, <1>2, <1>3
  <2> QED BY <1>1, <1>2, <2>2 DEF Plan
<1>9. Plan(t)
  BY <1>5, <1>6, <1>7, <1>8 DEF Plan
<1> QED BY <1>2, <1>3, <1>9 DEF t

-----------------------------------------------------------------------------
(* Requests *)

Forks == {"snapshot", "peek", "fork_load", "fork_insert", "snapshot_cached", "fork_new", "copy"}
Makers == {"init", "folder_new", "exom_new", "session_dir", "fork_new"}

Ahead(r, steps) == \E i \in 1..Len(r.todo) : r.todo[i] \in steps

IsEntry(entry) ==
    /\ entry = [brain |-> entry.brain, datoms |-> entry.datoms, typed |-> entry.typed]
    /\ IsBrain(entry.brain)

IsRequest(r) ==
    /\ r = [todo |-> r.todo, user |-> r.user, path |-> r.path, branch |-> r.branch,
            name |-> r.name, held |-> r.held, id |-> r.id]
    /\ r.user \in Users

\* What a fork holds
HeldFits(r) ==
    /\ Head(r.todo) \in Forks => IsPath(r.held.target)
    /\ Head(r.todo) \in {"fork_new", "copy"} => r.held = Fork(r.held.target, r.held.facts)
    /\ Head(r.todo) = "fork_insert" =>
          /\ r.held = [target |-> r.held.target, facts |-> {}, entry |-> r.held.entry]
          /\ IsEntry(r.held.entry)

Called(r) ==
    /\ IsRequest(r) /\ Plan(r.todo)
    /\ Head(r.todo) \notin Resets => IsPath(r.path)
    /\ Ahead(r, {"rename", "share_paths"}) => Len(r.path) > 1
    /\ Ahead(r, {"delete_user", "purge"}) => Len(r.path) = 1
    /\ Ahead(r, {"fork_check"}) => r.name \in Targets
    /\ HeldFits(r)

\* A request with one of the plans of a handler
Opens(r) == IsRequest(r) /\ Plan(r.todo) /\ Head(r.todo) \in Openers

\* What a call is made of.
LEMMA CallsBy ==
    ASSUME NEW steps, NEW paths, NEW branches, NEW names,
           NEW r \in Calls(steps, paths, branches, names)
    PROVE  IsRequest(r) /\ r.todo = steps /\ r.path \in paths
BY DEF Calls, IsRequest

Special == {"rename", "share_paths", "delete_user", "purge", "fork_check"}

\* Handlers that fork nothing and name neither a directory to rename, nor an account, nor a reset
Plain(r) ==
    /\ Opens(r)
    /\ ~Ahead(r, Special) /\ Head(r.todo) \notin Resets

\* Calls of one, two, three and four steps that hold nothing.
LEMMA PlainOne ==
    ASSUME NEW a, a \in Lasts \intersect Openers, NEW paths, NEW branches, NEW names,
           NEW r \in Calls(<<a>>, paths, branches, names)
    PROVE  Plain(r) /\ r.path \in paths
<1>1. IsRequest(r) /\ r.todo = <<a>> /\ r.path \in paths
  BY CallsBy
<1>2. Plan(<<a>>)
  BY OneStep
<1>3. Len(<<a>>) = 1 /\ <<a>>[1] = a /\ Head(<<a>>) = a
  OBVIOUS
<1>4. a \notin Special /\ a \notin Resets
  BY DEF Openers, Resets, Lasts, Special
<1> QED BY <1>1, <1>2, <1>3, <1>4 DEF Plain, Opens, Ahead, Special

LEMMA PlainTwo ==
    ASSUME NEW a, NEW b, a \in Openers, Leads(a, b), b \in Lasts,
           NEW paths, NEW branches, NEW names,
           NEW r \in Calls(<<a, b>>, paths, branches, names)
    PROVE  Plain(r) /\ r.path \in paths
<1>1. IsRequest(r) /\ r.todo = <<a, b>> /\ r.path \in paths
  BY CallsBy
<1>4. a \notin Special /\ a \notin Resets
  BY DEF Openers, Resets, Lasts, Leads, Special
<1>5. b \notin Special
  BY DEF Openers, Lasts, Leads, Special
<1>2. Plan(<<a, b>>)
  BY <1>4, TwoSteps DEF Special
<1>3. Len(<<a, b>>) = 2 /\ <<a, b>>[1] = a /\ Head(<<a, b>>) = a /\ <<a, b>>[2] = b
  OBVIOUS
<1> QED BY <1>1, <1>2, <1>3, <1>4, <1>5 DEF Plain, Opens, Ahead, Special

\* The calls of the handlers are plans, kind by kind.
LEMMA ViewsBy ==
    ASSUME NEW r \in Views
    PROVE  Plain(r) /\ r.path \in Asked
<1>1. \A bs : r \in Calls(<<"guard_read", "load">>, Asked, bs, {None}) => Plain(r) /\ r.path \in Asked
  BY PlainTwo DEF Openers, Lasts, Leads
<1>2. \A bs : r \in Calls(<<"load">>, Asked, bs, {None}) => Plain(r) /\ r.path \in Asked
  BY PlainOne DEF Openers, Lasts
<1>3. \/ r \in Calls(<<"guard_read", "load">>, Asked, {Main}, {None})
      \/ r \in Calls(<<"guard_read", "load">>, Asked, Branches, {None})
      \/ r \in Calls(<<"load">>, Asked, {Main}, {None})
      \/ r \in Calls(<<"load">>, Asked, Branches, {None})
  BY DEF Views, OnMain, OnABranch, View_,
    api_status, api_facts_list, api_facts_valid_at, api_facts_bitemporal, api_fact_detail,
    api_beliefs_list, api_belief_support_handler, api_observations_list, api_list_branches,
    api_branch_detail, api_branch_diff_handler, api_explain, api_export, api_export_json, api_graph,
    api_clusters, api_cluster_detail_handler, api_logs, api_provenance, api_relation_graph,
    tool_exom_status, tool_explain, tool_fact_history, tool_list_branches, tool_export
<1> QED BY <1>1, <1>2, <1>3

LEMMA QueriesBy ==
    ASSUME NEW r \in Queries
    PROVE  Plain(r) /\ r.path \in Asked
<1> DEFINE P == Plain(r) /\ r.path \in Asked
<1>1. \A b \in {"query", "schema", "derived", "eval_query"} : \A bs :
          r \in Calls(<<"guard_read", b>>, Asked, bs, {None}) => P
  BY PlainTwo DEF Openers, Lasts, Leads
<1>2. \A b \in {"eval_assert", "eval_retract", "eval_rule"} : \A bs :
          r \in Calls(<<"guard_write", b>>, Asked, bs, {None}) => P
  BY PlainTwo DEF Openers, Lasts, Leads
<1>3. \A a \in {"mcp_query", "eval_raw"} : \A bs : r \in Calls(<<a>>, Asked, bs, {None}) => P
  BY PlainOne DEF Openers, Lasts
<1>4. \A bs : r \in Calls(<<"tool_bind", "tool_eval">>, Asked, bs, {None}) => P
  BY PlainTwo DEF Openers, Lasts, Leads
<1> HIDE DEF P
<1>5. r \in api_query_post => P
  BY <1>1 DEF api_query_post, OnABranch
<1>6. r \in tool_query => P
  BY <1>3 DEF tool_query, OnABranch
<1>7. r \in tool_eval => P
  BY <1>4 DEF tool_eval, OnABranch
<1>8. r \in api_schema => P
  BY <1>1 DEF api_schema, OnABranch
<1>9. r \in api_derived_handler => P
  BY <1>1 DEF api_derived_handler, OnMain
<1>10. r \in api_eval => P
  BY <1>1, <1>2, <1>3 DEF api_eval, OnMain, OnABranch
<1> QED BY <1>5, <1>6, <1>7, <1>8, <1>9, <1>10 DEF Queries, P

LEMMA PlainThree ==
    ASSUME NEW a, NEW b, NEW c, a \in Openers, Leads(a, b), Leads(b, c), c \in Lasts,
           b \notin {"rename", "purge", "evict_under"}, a \notin {"delete_user", "reset_evict"},
           NEW paths, NEW branches, NEW names,
           NEW r \in Calls(<<a, b, c>>, paths, branches, names)
    PROVE  Plain(r) /\ r.path \in paths
<1>1. IsRequest(r) /\ r.todo = <<a, b, c>> /\ r.path \in paths
  BY CallsBy
<1>4. a \notin Special /\ a \notin Resets
  BY DEF Openers, Resets, Special
<1>5. b \notin Special
  BY DEF Lasts, Leads, Special
<1>6. c \notin Special
  BY DEF Lasts, Leads, Special
<1>2. Plan(<<a, b, c>>)
  BY <1>4, ThreeSteps DEF Special
<1>3. /\ Len(<<a, b, c>>) = 3 /\ Head(<<a, b, c>>) = a
      /\ <<a, b, c>>[1] = a /\ <<a, b, c>>[2] = b /\ <<a, b, c>>[3] = c
  OBVIOUS
<1> QED BY <1>1, <1>2, <1>3, <1>4, <1>5, <1>6 DEF Plain, Opens, Ahead, Special

\* Longer plans
LEMMA PlainLong ==
    ASSUME NEW steps, IsPath(steps), \A i \in 1..(Len(steps) - 1) : Leads(steps[i], steps[i + 1]),
           steps[Len(steps)] \in Lasts, Head(steps) \in Openers, Head(steps) = steps[1],
           \A i \in 1..Len(steps) :
              steps[i] \notin Special \union {"reset_evict"},
           NEW paths, NEW branches, NEW names,
           NEW r \in Calls(steps, paths, branches, names)
    PROVE  Plain(r) /\ r.path \in paths
<1>1. IsRequest(r) /\ r.todo = steps /\ r.path \in paths
  BY CallsBy
<1>2. Plan(steps)
  BY DEF Plan, Special
<1>3. Head(steps) \notin Resets
  BY PathLen DEF Openers, Resets
<1> QED BY <1>1, <1>2, <1>3 DEF Plain, Opens, Ahead, Special

LEMMA PlainFour ==
    ASSUME NEW a, NEW b, NEW c, NEW d, a \in Openers, Leads(a, b), Leads(b, c), Leads(c, d), d \in Lasts,
           \A x \in {a, b, c, d} :
              x \notin Special \union {"reset_evict"},
           NEW paths, NEW branches, NEW names,
           NEW r \in Calls(<<a, b, c, d>>, paths, branches, names)
    PROVE  Plain(r) /\ r.path \in paths
<1> DEFINE s == <<a, b, c, d>>
<1>1. s \in Seq({a, b, c, d}) /\ Len(s) = 4 /\ Head(s) = a /\ s[1] = a /\ s[2] = b /\ s[3] = c /\ s[4] = d
  OBVIOUS
<1>2. r \in Calls(s, paths, branches, names)
  OBVIOUS
<1>0. s # <<>>
  OBVIOUS
<1> HIDE DEF s
<1>3. IsPath(s)
  BY <1>0, <1>1, PathOf
<1>4. \A i \in 1..(Len(s) - 1) : Leads(s[i], s[i + 1])
  BY <1>1
<1>6. \A i \in 1..Len(s) : s[i] \in {a, b, c, d}
  BY <1>1
<1>5. \A i \in 1..Len(s) : s[i] \notin Special \union {"reset_evict"}
  BY <1>6
<1>7. s[Len(s)] \in Lasts /\ Head(s) = s[1] /\ Head(s) \in Openers
  BY <1>1
<1>8. Plain(r) /\ r.path \in paths
  BY <1>2, <1>3, <1>4, <1>5, <1>7, PlainLong
<1> QED BY <1>8

LEMMA WritesBy ==
    ASSUME NEW r \in Writes
    PROVE  Plain(r) /\ r.path \in Asked
<1> DEFINE P == Plain(r) /\ r.path \in Asked
<1>1. r \in api_writes => P
  BY PlainFour DEF Special, api_writes, OnABranch, Openers, Lasts, Leads
<1>2. r \in tool_writes => P
  <2>1. \A c \in {"assert", "retract"} : \A bs :
            r \in Calls(<<"precheck", "uncache", c>>, Asked, bs, {None}) => P
    BY PlainThree DEF Openers, Lasts, Leads
  <2> HIDE DEF P
  <2> QED BY <2>1 DEF tool_writes, OnABranch
<1>3. r \in api_import_json => P
  BY PlainThree DEF api_import_json, OnMain, Openers, Lasts, Leads
<1>4. r \in api_retract_all => P
  BY PlainFour DEF Special, api_retract_all, OnMain, Openers, Lasts, Leads
<1>5. r \in api_wipe => P
  BY PlainFour DEF Special, api_wipe, OnMain, Openers, Lasts, Leads
<1> QED BY <1>1, <1>2, <1>3, <1>4, <1>5 DEF Writes

\* The handlers that change the structure of the tree
LEMMA ScaffoldBy ==
    ASSUME NEW step \in {"init", "folder_new", "exom_new"}, NEW paths, NEW r \in Scaffold(step, paths)
    PROVE  Plain(r) /\ r.path \in paths
BY PlainTwo DEF Scaffold, Openers, Lasts, Leads

LEMMA SessionsBy ==
    ASSUME NEW r \in api_session_new \union tool_session_new
    PROVE  Plain(r) /\ r.path \in Folders
<1>1. ASSUME r \in api_session_new
      PROVE  Plain(r) /\ r.path \in Folders
  BY <1>1, PlainThree DEF api_session_new, Openers, Lasts, Leads
<1>2. ASSUME r \in tool_session_new
      PROVE  Plain(r) /\ r.path \in Folders
  BY <1>2, PlainTwo DEF tool_session_new, Openers, Lasts, Leads
<1> QED BY <1>1, <1>2

LEMMA DeleteBy ==
    ASSUME NEW r \in Delete
    PROVE  Plain(r) /\ r.path \in NotRoots
<1> DEFINE s == <<"guard_write", "collect", "evict_held", "delete", "delete_shares">>
           N == {"guard_write", "collect", "evict_held", "delete", "delete_shares"}
<1>1. /\ s \in Seq(N) /\ Len(s) = 5 /\ Head(s) = "guard_write" /\ s[1] = "guard_write"
      /\ s[2] = "collect" /\ s[3] = "evict_held" /\ s[4] = "delete" /\ s[5] = "delete_shares"
      /\ s # <<>>
  OBVIOUS
<1>2. r \in Calls(s, NotRoots, {Main}, {None})
  BY DEF Delete
<1> HIDE DEF s
<1>3. IsPath(s)
  BY <1>1, PathOf
<1>4. \A i \in 1..(Len(s) - 1) : Leads(s[i], s[i + 1])
  BY <1>1 DEF Leads
<1>5. \A i \in 1..Len(s) : s[i] \in N
  BY <1>1
<1>6. \A i \in 1..Len(s) : s[i] \notin Special \union {"reset_evict"}
  BY <1>5 DEF Special
<1>7. s[Len(s)] \in Lasts /\ Head(s) = s[1] /\ Head(s) \in Openers
  BY <1>1 DEF Lasts, Openers
<1> QED BY <1>2, <1>3, <1>4, <1>6, <1>7, PlainLong

LEMMA ForkBy ==
    ASSUME NEW r \in api_exom_fork \union tool_exom_fork
    PROVE  /\ Opens(r) /\ r.path \in Asked /\ r.name \in Targets /\ Head(r.todo) \notin Resets
           /\ ~Ahead(r, {"rename", "share_paths", "delete_user", "purge"})
<1>1. ASSUME NEW s, IsPath(s), \A i \in 1..(Len(s) - 1) : Leads(s[i], s[i + 1]),
             s[Len(s)] \in Lasts, Head(s) = "guard_read",
             \A i \in 1..Len(s) : s[i] \in Forks \union {"guard_read", "fork_check"},
             r \in Calls(s, Asked, {Main}, Targets)
      PROVE  /\ Opens(r) /\ r.path \in Asked /\ r.name \in Targets /\ Head(r.todo) \notin Resets
             /\ ~Ahead(r, {"rename", "share_paths", "delete_user", "purge"})
  <2>1. IsRequest(r) /\ r.todo = s /\ r.path \in Asked
    BY <1>1, CallsBy
  <2>2. \A i \in 1..Len(s) : s[i] \notin {"rename", "share_paths", "delete_user", "purge"}
    BY <1>1 DEF Forks
  <2>3. Plan(s)
    BY <1>1, <2>2 DEF Plan
  <2>4. r.name \in Targets
    BY <1>1 DEF Calls
  <2>5. Head(s) \in Openers /\ Head(s) \notin Resets
    BY <1>1 DEF Openers, Resets
  <2> QED BY <2>1, <2>2, <2>3, <2>4, <2>5 DEF Opens, Ahead
<1>2. ASSUME r \in api_exom_fork
      PROVE  /\ Opens(r) /\ r.path \in Asked /\ r.name \in Targets /\ Head(r.todo) \notin Resets
             /\ ~Ahead(r, {"rename", "share_paths", "delete_user", "purge"})
  <2> DEFINE s == <<"guard_read", "fork_check", "snapshot", "fork_new", "copy">>
             N == {"guard_read", "fork_check", "snapshot", "fork_new", "copy"}
  <2>1. /\ s \in Seq(N) /\ Len(s) = 5 /\ Head(s) = "guard_read" /\ s # <<>>
        /\ s[1] = "guard_read" /\ s[2] = "fork_check" /\ s[3] = "snapshot" /\ s[4] = "fork_new"
        /\ s[5] = "copy"
    OBVIOUS
  <2>2. r \in Calls(s, Asked, {Main}, Targets)
    BY <1>2 DEF api_exom_fork
  <2> HIDE DEF s
  <2>3. IsPath(s)
    BY <2>1, PathOf
  <2>4. \A i \in 1..(Len(s) - 1) : Leads(s[i], s[i + 1])
    BY <2>1 DEF Leads
  <2>5. \A i \in 1..Len(s) : s[i] \in N
    BY <2>1
  <2>6. \A i \in 1..Len(s) : s[i] \in Forks \union {"guard_read", "fork_check"}
    BY <2>5 DEF Forks
  <2>7. s[Len(s)] \in Lasts
    BY <2>1 DEF Lasts
  <2> QED BY <1>1, <2>1, <2>2, <2>3, <2>4, <2>6, <2>7
<1>3. ASSUME r \in tool_exom_fork
      PROVE  /\ Opens(r) /\ r.path \in Asked /\ r.name \in Targets /\ Head(r.todo) \notin Resets
             /\ ~Ahead(r, {"rename", "share_paths", "delete_user", "purge"})
  <2> DEFINE s == <<"guard_read", "fork_check", "peek", "fork_load", "fork_insert", "snapshot_cached", "fork_new", "copy">>
             N == {"guard_read", "fork_check", "peek", "fork_load", "fork_insert", "snapshot_cached", "fork_new", "copy"}
  <2>1. /\ s \in Seq(N) /\ Len(s) = 8 /\ Head(s) = "guard_read" /\ s # <<>>
        /\ s[1] = "guard_read" /\ s[2] = "fork_check" /\ s[3] = "peek" /\ s[4] = "fork_load"
        /\ s[5] = "fork_insert" /\ s[6] = "snapshot_cached" /\ s[7] = "fork_new" /\ s[8] = "copy"
    OBVIOUS
  <2>2. r \in Calls(s, Asked, {Main}, Targets)
    BY <1>3 DEF tool_exom_fork
  <2> HIDE DEF s
  <2>3. IsPath(s)
    BY <2>1, PathOf
  <2>4. \A i \in 1..(Len(s) - 1) : Leads(s[i], s[i + 1])
    BY <2>1 DEF Leads
  <2>5. \A i \in 1..Len(s) : s[i] \in N
    BY <2>1
  <2>6. \A i \in 1..Len(s) : s[i] \in Forks \union {"guard_read", "fork_check"}
    BY <2>5 DEF Forks
  <2>7. s[Len(s)] \in Lasts
    BY <2>1 DEF Lasts
  <2> QED BY <1>1, <2>1, <2>2, <2>3, <2>4, <2>6, <2>7
<1> QED BY <1>2, <1>3

LEMMA RenameBy ==
    ASSUME NEW r \in Rename
    PROVE  /\ Opens(r) /\ r.path \in NotRoots /\ ~Ahead(r, {"delete_user", "purge", "fork_check"})
           /\ Head(r.todo) \notin Resets
<1> DEFINE s == <<"guard_write", "rename", "evict_under", "share_paths">>
           N == {"guard_write", "rename", "evict_under", "share_paths"}
<1>1. /\ s \in Seq(N) /\ Len(s) = 4 /\ Head(s) = "guard_write" /\ s[1] = "guard_write"
      /\ s[2] = "rename" /\ s[3] = "evict_under" /\ s[4] = "share_paths" /\ s # <<>>
  OBVIOUS
<1>2. r \in Calls(s, NotRoots, {Main}, NewNames)
  BY DEF Rename
<1> HIDE DEF s
<1>3. IsPath(s)
  BY <1>1, PathOf
<1>4. \A i \in 1..(Len(s) - 1) : Leads(s[i], s[i + 1])
  BY <1>1 DEF Leads
<1>5. \A i \in 1..Len(s) : s[i] \in N /\ (s[i] = "rename" => i + 2 = Len(s))
  BY <1>1
<1>6. s[Len(s)] \in Lasts /\ Head(s) \in Openers /\ Head(s) \notin Resets
  BY <1>1 DEF Lasts, Openers, Resets
<1>7. Plan(s)
  BY <1>3, <1>4, <1>5, <1>6, MoreSteps
<1>8. IsRequest(r) /\ r.todo = s /\ r.path \in NotRoots
  BY <1>2, CallsBy
<1> QED BY <1>5, <1>6, <1>7, <1>8 DEF Opens, Ahead

LEMMA AccountBy ==
    ASSUME NEW r \in delete_user_account
    PROVE  /\ Opens(r) /\ r.path \in {<<u>> : u \in Users} /\ ~Ahead(r, {"rename", "share_paths", "fork_check"})
           /\ Head(r.todo) \notin Resets
<1> DEFINE s == <<"delete_user", "purge", "evict_under">>
<1>1. Len(s) = 3 /\ Head(s) = "delete_user" /\ s[1] = "delete_user" /\ s[2] = "purge" /\ s[3] = "evict_under"
  OBVIOUS
<1>2. r \in Calls(s, {<<u>> : u \in Users}, {Main}, {None})
  BY DEF delete_user_account
<1>3. Plan(s)
  BY ThreeSteps DEF Leads, Lasts
<1> HIDE DEF s
<1>4. IsRequest(r) /\ r.todo = s /\ r.path \in {<<u>> : u \in Users}
  BY <1>2, CallsBy
<1>5. \A i \in 1..Len(s) : s[i] \notin {"rename", "share_paths", "fork_check"}
  BY <1>1
<1>6. Opens(r) /\ Head(r.todo) \notin Resets
  BY <1>1, <1>3, <1>4 DEF Opens, Openers, Resets
<1> QED BY <1>4, <1>5, <1>6 DEF Ahead

LEMMA ResetBy ==
    ASSUME NEW r \in api_factory_reset
    PROVE  /\ Opens(r) /\ ~Ahead(r, Special)
           /\ Head(r.todo) \in Resets
<1> DEFINE s == <<"reset_evict", "reset", "reset_shares">>
<1>1. Len(s) = 3 /\ Head(s) = "reset_evict" /\ s[1] = "reset_evict" /\ s[2] = "reset" /\ s[3] = "reset_shares"
  OBVIOUS
<1>2. r \in Calls(s, {None}, {Main}, {None})
  BY DEF api_factory_reset
<1>3. Plan(s)
  BY ThreeSteps DEF Leads, Lasts
<1> HIDE DEF s
<1>4. IsRequest(r) /\ r.todo = s
  BY <1>2, CallsBy
<1>5. \A i \in 1..Len(s) : s[i] \notin Special
  BY <1>1 DEF Special
<1>6. Opens(r) /\ Head(r.todo) \in Resets
  BY <1>1, <1>3, <1>4 DEF Opens, Openers, Resets
<1> QED BY <1>4, <1>5, <1>6 DEF Ahead

\* Every request a handler begins has a plan, and a path for it.
LEMMA BegunBy ==
    ASSUME NEW r \in Views \union Queries \union Writes \union Structure,
           \A path \in Asked \union Folders : IsPath(path)
    PROVE  Opens(r) /\ Called(r)
<1>1. ASSUME Plain(r), r.path \in Asked \union Folders
      PROVE  Opens(r) /\ Called(r)
  <2>1. IsPath(r.path) /\ Opens(r) /\ IsRequest(r) /\ Plan(r.todo) /\ Head(r.todo) \in Openers
    BY <1>1 DEF Plain, Opens
  <2>2. ~Ahead(r, Special) /\ Head(r.todo) \notin Resets
    BY <1>1 DEF Plain
  <2>3. /\ ~Ahead(r, {"rename", "share_paths"}) /\ ~Ahead(r, {"delete_user", "purge"})
        /\ ~Ahead(r, {"fork_check"})
    BY <2>2 DEF Ahead, Special
  <2>4. Head(r.todo) \notin Forks /\ Head(r.todo) \notin {"fork_new", "copy"} /\ Head(r.todo) # "fork_insert"
    BY <2>1 DEF Openers, Forks
  <2> QED BY <2>1, <2>2, <2>3, <2>4 DEF Called, HeldFits
<1>2. ASSUME r \in Rename
      PROVE  Opens(r) /\ Called(r)
  <2>1. /\ Opens(r) /\ r.path \in NotRoots /\ ~Ahead(r, {"delete_user", "purge", "fork_check"})
        /\ Head(r.todo) \notin Resets
    BY <1>2, RenameBy
  <2>2. IsPath(r.path) /\ Len(r.path) > 1
    BY <2>1 DEF NotRoots, Anywhere
  <2>3. Head(r.todo) \notin Forks /\ Head(r.todo) \notin {"fork_new", "copy"} /\ Head(r.todo) # "fork_insert"
    BY <2>1 DEF Opens, Openers, Forks
  <2>4. ~Ahead(r, {"delete_user", "purge"}) /\ ~Ahead(r, {"fork_check"})
    BY <2>1 DEF Ahead
  <2> QED BY <2>1, <2>2, <2>3, <2>4 DEF Called, HeldFits, Opens
<1>3. ASSUME r \in delete_user_account
      PROVE  Opens(r) /\ Called(r)
  <2>1. /\ Opens(r) /\ r.path \in {<<u>> : u \in Users} /\ ~Ahead(r, {"rename", "share_paths", "fork_check"})
        /\ Head(r.todo) \notin Resets
    BY <1>3, AccountBy
  <2>2. PICK u \in Users : r.path = <<u>>
    BY <2>1
  <2>3. <<u>> \in Seq({u}) /\ Len(<<u>>) = 1 /\ <<u>> # <<>>
    OBVIOUS
  <2>4. IsPath(r.path) /\ Len(r.path) = 1
    BY <2>2, <2>3, PathOf
  <2>5. Head(r.todo) \notin Forks /\ Head(r.todo) \notin {"fork_new", "copy"} /\ Head(r.todo) # "fork_insert"
    BY <2>1 DEF Opens, Openers, Forks
  <2>6. ~Ahead(r, {"rename", "share_paths"}) /\ ~Ahead(r, {"fork_check"})
    BY <2>1 DEF Ahead
  <2> QED BY <2>1, <2>4, <2>5, <2>6 DEF Called, HeldFits, Opens
<1>4. ASSUME r \in api_factory_reset
      PROVE  Opens(r) /\ Called(r)
  <2>1. /\ Opens(r) /\ ~Ahead(r, Special)
        /\ Head(r.todo) \in Resets
    BY <1>4, ResetBy
  <2>2. /\ ~Ahead(r, {"rename", "share_paths"}) /\ ~Ahead(r, {"delete_user", "purge"})
        /\ ~Ahead(r, {"fork_check"})
    BY <2>1 DEF Ahead, Special
  <2>3. Head(r.todo) \notin Forks /\ Head(r.todo) \notin {"fork_new", "copy"} /\ Head(r.todo) # "fork_insert"
    BY <2>1 DEF Opens, Openers, Forks
  <2> QED BY <2>1, <2>2, <2>3 DEF Called, HeldFits, Opens
<1>5. r \in Views \union Queries \union Writes => Plain(r) /\ r.path \in Asked
  BY ViewsBy, QueriesBy, WritesBy
<1>6. r \in api_init \union tool_init => Plain(r) /\ r.path \in Folders
  BY ScaffoldBy DEF api_init, tool_init
<1>7. r \in api_folder_new \union tool_folder_new => Plain(r) /\ r.path \in Asked \union Folders
  BY ScaffoldBy DEF api_folder_new, tool_folder_new, Anywhere
<1>8. r \in api_exom_new \union tool_exom_new => Plain(r) /\ r.path \in Asked \union Folders
  BY ScaffoldBy DEF api_exom_new, tool_exom_new, Anywhere
<1>9. r \in api_session_new \union tool_session_new => Plain(r) /\ r.path \in Folders
  BY SessionsBy
<1>10. r \in Delete => Plain(r) /\ r.path \in Asked \union Folders
  BY DeleteBy DEF NotRoots, Anywhere
<1>11. ASSUME r \in api_exom_fork \union tool_exom_fork
       PROVE  Opens(r) /\ Called(r)
  <2>1. /\ Opens(r) /\ r.path \in Asked /\ r.name \in Targets /\ Head(r.todo) \notin Resets
        /\ ~Ahead(r, {"rename", "share_paths", "delete_user", "purge"})
    BY <1>11, ForkBy
  <2>2. ~Ahead(r, {"rename", "share_paths"}) /\ ~Ahead(r, {"delete_user", "purge"})
    BY <2>1 DEF Ahead
  <2>3. Head(r.todo) \notin Forks /\ Head(r.todo) \notin {"fork_new", "copy"} /\ Head(r.todo) # "fork_insert"
    BY <2>1 DEF Opens, Openers, Forks
  <2> QED BY <2>1, <2>2, <2>3 DEF Called, HeldFits, Opens
<1>12. r \in Structure =>
          \/ r \in api_init \union tool_init \/ r \in api_folder_new \union tool_folder_new
          \/ r \in api_exom_new \union tool_exom_new \/ r \in api_session_new \union tool_session_new
          \/ r \in Rename \/ r \in Delete \/ r \in api_exom_fork \union tool_exom_fork
          \/ r \in delete_user_account \/ r \in api_factory_reset
  BY DEF Structure, api_rename, tool_rename, api_delete, tool_delete
<1> QED BY <1>1, <1>2, <1>3, <1>4, <1>5, <1>6, <1>7, <1>8, <1>9, <1>10, <1>11, <1>12

-----------------------------------------------------------------------------
(* How a step leaves its request *)

ReqTyped == DOMAIN req = Slots /\ \A p \in Slots : Busy(p) => Called(req[p])

Others(p) == DOMAIN req' = Slots /\ \A q \in Slots \ {p} : req'[q] = req[q]

Done(p) == Others(p) /\ req'[p] = Nothing

SameCall(r, s) ==
    /\ IsRequest(s)
    /\ s.user = r.user /\ s.path = r.path /\ s.branch = r.branch /\ s.name = r.name /\ s.id = r.id

\* A copy goes on with the next fact, and a fork whose source is cached skips the loading.
Drops(r, s, n) ==
    /\ n \in 0..(Len(r.todo) - 1)
    /\ s.todo = SubSeq(r.todo, n + 1, Len(r.todo))
    /\ n = 1 \/ (n = 0 /\ Head(r.todo) = "copy") \/ (n = 3 /\ Head(r.todo) = "peek")

Goes(p) ==
    /\ Others(p) /\ SameCall(req[p], req'[p])
    /\ \E n : Drops(req[p], req'[p], n)

Follows(a, b) == Leads(a, b) \/ (a = "copy" /\ b = "copy") \/ (a = "peek" /\ b = "snapshot_cached")

\* A plan's first step, and that there is a next one if it is not a last.
LEMMA PlanParts ==
    ASSUME NEW s, Plan(s)
    PROVE  /\ Len(s) \in Nat \ {0} /\ s # <<>> /\ Head(s) = s[1] /\ s \in Seq({s[i] : i \in DOMAIN s})
           /\ Head(s) \notin Lasts => Len(s) > 1
           /\ Tail(s) = SubSeq(s, 2, Len(s))
<1>1. IsPath(s) /\ s[Len(s)] \in Lasts
  BY DEF Plan
<1>2. Len(s) \in Nat \ {0} /\ s # <<>> /\ s \in Seq({s[i] : i \in DOMAIN s})
  BY <1>1, PathLen DEF IsPath
<1>3. Head(s) = s[1]
  BY <1>2
<1>4. Tail(s) = SubSeq(s, 2, Len(s))
  BY <1>2
<1> QED BY <1>1, <1>2, <1>3, <1>4

\* The steps of a request that goes on
LEMMA DropsBy ==
    ASSUME NEW r, Plan(r.todo), NEW s, NEW n, Drops(r, s, n)
    PROVE  /\ Plan(s.todo) /\ s.todo # <<>> /\ Len(s.todo) = Len(r.todo) - n
           /\ \A i \in 1..(Len(r.todo) - n) : s.todo[i] = r.todo[n + i]
           /\ Follows(Head(r.todo), Head(s.todo))
<1> DEFINE t == r.todo
           u == s.todo
<1>1. n \in 0..(Len(t) - 1) /\ u = SubSeq(t, n + 1, Len(t))
  BY DEF Drops
<1>2. /\ Plan(u) /\ Len(u) = Len(t) - n
      /\ \A i \in 1..(Len(t) - n) : u[i] = t[n + i]
  BY <1>1, PlanOn
<1>3. Len(t) \in Nat \ {0} /\ Head(t) = t[1] /\ u # <<>> /\ Head(u) = u[1]
  BY <1>2, PlanParts
<1>4. Follows(Head(t), Head(u))
  <2>1. Head(u) = t[n + 1]
    BY <1>1, <1>2, <1>3
  <2>2. \A i \in 1..(Len(t) - 1) : Leads(t[i], t[i + 1])
    BY DEF Plan
  <2>3. CASE n = 1
    BY <1>1, <1>3, <2>1, <2>2, <2>3 DEF Follows
  <2>4. CASE n = 0 /\ Head(t) = "copy"
    BY <1>3, <2>1, <2>4 DEF Follows
  <2>5. CASE n = 3 /\ Head(t) = "peek"
    <3>1. Leads(t[1], t[2]) /\ Leads(t[2], t[3]) /\ Leads(t[3], t[4])
      BY <1>1, <1>3, <2>2, <2>5
    <3>2. t[2] = "fork_load"
      BY <1>3, <2>5, <3>1 DEF Leads
    <3>3. t[3] = "fork_insert"
      BY <3>1, <3>2 DEF Leads
    <3>4. t[4] = "snapshot_cached"
      BY <3>1, <3>3 DEF Leads
    <3> QED BY <2>1, <2>5, <3>4 DEF Follows
  <2> QED BY <2>3, <2>4, <2>5 DEF Drops
<1> QED BY <1>2, <1>3, <1>4

\* What is ahead of a request with fewer steps left was ahead before.
LEMMA AheadOn ==
    ASSUME NEW r, Plan(r.todo), NEW s, NEW n, Drops(r, s, n), NEW steps, Ahead(s, steps)
    PROVE  Ahead(r, steps)
<1>1. /\ Len(s.todo) = Len(r.todo) - n
      /\ \A i \in 1..(Len(r.todo) - n) : s.todo[i] = r.todo[n + i]
  BY DropsBy
<1>2. PICK i \in 1..Len(s.todo) : s.todo[i] \in steps
  BY DEF Ahead
<1>3. Len(r.todo) \in Nat /\ n \in 0..(Len(r.todo) - 1)
  BY PlanParts DEF Drops
<1>4. n + i \in 1..Len(r.todo) /\ r.todo[n + i] \in steps
  BY <1>1, <1>2, <1>3
<1> QED BY <1>4 DEF Ahead

LEMMA CalledOn ==
    ASSUME NEW r, Called(r), NEW s, SameCall(r, s), NEW n, Drops(r, s, n), HeldFits(s)
    PROVE  Called(s)
<1>1. IsRequest(r) /\ Plan(r.todo)
  BY DEF Called
<1>2. Plan(s.todo) /\ Follows(Head(r.todo), Head(s.todo))
  BY <1>1, DropsBy
<1>3. Head(s.todo) \notin Resets => Head(r.todo) \notin Resets
  BY <1>2 DEF Follows, Leads, Resets
<1>4. \A steps : Ahead(s, steps) => Ahead(r, steps)
  BY <1>1, AheadOn
<1>5. IsRequest(s) /\ s.path = r.path /\ s.name = r.name
  BY DEF SameCall
<1> QED BY <1>2, <1>3, <1>4, <1>5 DEF Called

\* A request that goes on has its arguments and fewer steps left, or is done.
LEMMA SkipBy ==
    ASSUME ReqTyped, NEW p \in Slots, Busy(p), NEW n \in 1..Len(req[p].todo), Skip(p, n)
    PROVE  \/ Done(p) /\ n = Len(req[p].todo)
           \/ /\ Others(p) /\ SameCall(req[p], req'[p]) /\ n \in 0..(Len(req[p].todo) - 1)
              /\ req'[p].todo = SubSeq(req[p].todo, n + 1, Len(req[p].todo))
              /\ req'[p].held = req[p].held
<1> DEFINE r == req[p]
<1>1. IsRequest(r) /\ Plan(r.todo) /\ DOMAIN req = Slots
  BY DEF ReqTyped, Called
<1>2. Len(r.todo) \in Nat \ {0}
  BY <1>1, PlanParts
<1>3. CASE Len(r.todo) = n
  BY <1>1, <1>3 DEF Skip, Done, Others
<1>4. CASE Len(r.todo) # n
  <2>1. Others(p) /\ req'[p] = IF Len(r.todo) = n THEN Nothing
                               ELSE [r EXCEPT !.todo = SubSeq(r.todo, n + 1, Len(r.todo))]
    <3> DEFINE X == IF Len(r.todo) = n THEN Nothing
                    ELSE [r EXCEPT !.todo = SubSeq(r.todo, n + 1, Len(r.todo))]
    <3>1. req' = [req EXCEPT ![p] = X]
      BY DEF Skip
    <3> HIDE DEF X
    <3>2. Others(p) /\ req'[p] = X
      BY <1>1, <3>1 DEF Others
    <3> QED BY <3>2 DEF X
  <2>2. Others(p) /\ req'[p] = [r EXCEPT !.todo = SubSeq(r.todo, n + 1, Len(r.todo))]
    BY <1>4, <2>1
  <2>3. r = [todo |-> r.todo, user |-> r.user, path |-> r.path, branch |-> r.branch,
             name |-> r.name, held |-> r.held, id |-> r.id] /\ r.user \in Users
    BY <1>1 DEF IsRequest
  <2> HIDE DEF r
  <2>4. req'[p] = [todo |-> SubSeq(r.todo, n + 1, Len(r.todo)), user |-> r.user, path |-> r.path,
                   branch |-> r.branch, name |-> r.name, held |-> r.held, id |-> r.id]
    BY <2>2, <2>3
  <2>5. /\ SameCall(r, req'[p]) /\ req'[p].todo = SubSeq(r.todo, n + 1, Len(r.todo))
        /\ req'[p].held = r.held
    BY <2>3, <2>4 DEF SameCall, IsRequest
  <2>6. n \in 0..(Len(r.todo) - 1)
    BY <1>2, <1>4 DEF r
  <2> QED BY <2>2, <2>5, <2>6 DEF r
<1> QED BY <1>3, <1>4

LEMMA AdvanceBy ==
    ASSUME ReqTyped, NEW p \in Slots, Busy(p), Advance(p)
    PROVE  \/ Done(p) /\ Len(req[p].todo) = 1
           \/ Goes(p) /\ Drops(req[p], req'[p], 1) /\ req'[p].held = req[p].held
<1>1. Len(req[p].todo) \in Nat \ {0}
  BY PlanParts DEF ReqTyped, Called
<1>2. 1 \in 1..Len(req[p].todo) /\ Skip(p, 1)
  BY <1>1 DEF Advance
<1>3. CASE Done(p) /\ 1 = Len(req[p].todo)
  BY <1>3
<1>4. CASE /\ Others(p) /\ SameCall(req[p], req'[p]) /\ 1 \in 0..(Len(req[p].todo) - 1)
           /\ req'[p].todo = SubSeq(req[p].todo, 1 + 1, Len(req[p].todo))
           /\ req'[p].held = req[p].held
  <2>1. Drops(req[p], req'[p], 1)
    BY <1>4 DEF Drops
  <2> QED BY <1>4, <2>1 DEF Goes
<1> QED BY <1>2, <1>3, <1>4, SkipBy

LEMMA LeaveBy ==
    ASSUME ReqTyped, NEW p \in Slots, Leave(p)
    PROVE  Done(p)
BY DEF ReqTyped, Leave, Done, Others

LEMMA HoldingBy ==
    ASSUME ReqTyped, NEW p \in Slots, Busy(p), Head(req[p].todo) \notin Lasts, NEW held, Holding(p, held)
    PROVE  Goes(p) /\ Drops(req[p], req'[p], 1) /\ req'[p].held = held
<1> DEFINE r == req[p]
<1>1. IsRequest(r) /\ Plan(r.todo) /\ DOMAIN req = Slots
  BY DEF ReqTyped, Called
<1>2. Len(r.todo) \in Nat \ {0} /\ Len(r.todo) > 1 /\ Tail(r.todo) = SubSeq(r.todo, 2, Len(r.todo))
  BY <1>1, PlanParts
<1>3. req' = [req EXCEPT ![p] = [r EXCEPT !.todo = Tail(@), !.held = held]]
  BY DEF Holding
<1>4. Others(p) /\ req'[p] = [r EXCEPT !.todo = Tail(@), !.held = held]
  BY <1>1, <1>3 DEF Others
<1>5. r = [todo |-> r.todo, user |-> r.user, path |-> r.path, branch |-> r.branch,
           name |-> r.name, held |-> r.held, id |-> r.id] /\ r.user \in Users
  BY <1>1 DEF IsRequest
<1> HIDE DEF r
<1>6. req'[p] = [todo |-> Tail(r.todo), user |-> r.user, path |-> r.path,
                 branch |-> r.branch, name |-> r.name, held |-> held, id |-> r.id]
  BY <1>4, <1>5
<1>7. SameCall(r, req'[p]) /\ req'[p].todo = Tail(r.todo) /\ req'[p].held = held
  BY <1>5, <1>6 DEF SameCall, IsRequest
<1>8. Drops(r, req'[p], 1)
  BY <1>2, <1>7 DEF Drops
<1> QED BY <1>4, <1>7, <1>8 DEF Goes, r

-----------------------------------------------------------------------------
(* Every step leaves a request that is done or has a plan. *)

CacheTyped == \A path \in DOMAIN cache : IsPath(path) /\ IsEntry(cache[path])

GoesOn(p) == Goes(p) /\ HeldFits(req'[p])

\* What a request holds fits its next step, but for the steps of forks.
LEMMA HeldOn ==
    ASSUME NEW r, Called(r), Head(r.todo) \notin {"fork_check", "snapshot", "snapshot_cached", "fork_load"},
           NEW s, s.held = r.held, NEW n, Drops(r, s, n)
    PROVE  HeldFits(s)
<1>1. Follows(Head(r.todo), Head(s.todo)) /\ HeldFits(r)
  BY DropsBy DEF Called
<1>2. Head(s.todo) \in Forks => Head(r.todo) \in Forks
  BY <1>1 DEF Follows, Leads, Forks
<1>3. Head(s.todo) \in {"fork_new", "copy"} => Head(r.todo) \in {"fork_new", "copy"}
  BY <1>1 DEF Follows, Leads
<1>4. Head(s.todo) # "fork_insert"
  BY <1>1 DEF Follows, Leads
<1> QED BY <1>1, <1>2, <1>3, <1>4 DEF HeldFits

LEMMA PlainGoes ==
    ASSUME ReqTyped, NEW p \in Slots, Busy(p),
           Head(req[p].todo) \notin {"fork_check", "snapshot", "snapshot_cached", "fork_load"},
           Advance(p) \/ Leave(p)
    PROVE  Done(p) \/ GoesOn(p)
<1>1. CASE Leave(p)
  BY <1>1, LeaveBy
<1>2. CASE Advance(p)
  <2>1. CASE Done(p)
    BY <2>1
  <2>2. CASE Goes(p) /\ Drops(req[p], req'[p], 1) /\ req'[p].held = req[p].held
    <3>1. Called(req[p])
      BY DEF ReqTyped
    <3>2. HeldFits(req'[p])
      BY <2>2, <3>1, HeldOn
    <3> QED BY <2>2, <3>2 DEF GoesOn
  <2> QED BY <1>2, <2>1, <2>2, AdvanceBy
<1> QED BY <1>1, <1>2

\* A fork of a source that is there, to a free path
LEMMA TargetPath ==
    ASSUME NEW r, IsPath(r.path), r.name \in Targets, NEW target \in ForkTargets(r)
    PROVE  IsPath(target)
<1>1. CASE r.name # Default
  <2>1. target \in Targets \ {Default}
    BY <1>1 DEF ForkTargets
  <2>2. target \in Seq(STRING) /\ target # <<>>
    BY <2>1, StartsAssumption
  <2> QED BY <2>2, PathOf
<1>2. CASE r.name = Default
  <2> DEFINE user == r.user
             source == r.path
             sub == IF source \in {<<Public>>, <<user>>} THEN <<"forked">>
                    ELSE IF source[1] \in {Public, user} THEN Tail(source) ELSE source
             leaf(i) == IF i = 1 THEN Last(sub) ELSE Last(sub) \o "-" \o ToString(i)
             Candidate(i) == <<user, "forked">> \o Append(Front(sub), leaf(i))
  <2>1. PICK i : target = Candidate(i)
    BY <1>2 DEF ForkTargets, default_fork_target
  <2>2. PICK S : sub \in Seq(S) /\ Len(sub) \in Nat \ {0}
    <3>1. CASE source \in {<<Public>>, <<user>>}
      <4>1. sub = <<"forked">>
        BY <3>1
      <4> HIDE DEF sub
      <4>2. <<"forked">> \in Seq({"forked"}) /\ Len(<<"forked">>) = 1
        OBVIOUS
      <4>3. sub \in Seq({"forked"}) /\ Len(sub) \in Nat \ {0}
        BY <4>1, <4>2
      <4> QED BY <4>3
    <3>2. CASE source \notin {<<Public>>, <<user>>} /\ source[1] \in {Public, user}
      <4> DEFINE T == {source[j] : j \in DOMAIN source}
      <4>1. source \in Seq(T) /\ Len(source) \in Nat \ {0}
        BY PathLen DEF IsPath
      <4> HIDE DEF T
      <4>2. Len(source) # 1
        <5>1. ASSUME Len(source) = 1
              PROVE  source = <<source[1]>>
          BY <4>1, <5>1
        <5> QED BY <3>2, <5>1
      <4>3. Tail(source) \in Seq(T) /\ Len(Tail(source)) = Len(source) - 1
        BY <4>1
      <4> QED BY <3>2, <4>1, <4>2, <4>3
    <3>3. CASE source \notin {<<Public>>, <<user>>} /\ source[1] \notin {Public, user}
      BY <3>3, PathLen DEF IsPath
    <3> QED BY <3>1, <3>2, <3>3
  <2> DEFINE f == Front(sub)
             e == leaf(i)
  <2> HIDE DEF sub
  <2>3. f \in Seq(S)
    BY <2>2 DEF Front
  <2> HIDE DEF f, e
  <2>4. target = <<user, "forked">> \o Append(f, e)
    BY <2>1 DEF f, e
  <2> DEFINE T == S \union {e, user, "forked"}
  <2>5. f \in Seq(T) /\ e \in T /\ <<user, "forked">> \in Seq(T) /\ Len(<<user, "forked">>) = 2
    BY <2>3
  <2> HIDE DEF T
  <2>6. Append(f, e) \in Seq(T)
    BY <2>5
  <2>7. target \in Seq(T) /\ Len(target) = 2 + Len(Append(f, e)) /\ Len(Append(f, e)) \in Nat
    BY <2>4, <2>5, <2>6
  <2>8. target # <<>>
    BY <2>7
  <2> QED BY <2>7, <2>8, PathOf
<1> QED BY <1>1, <1>2

\* The brain that a cached or a loadable exom has
LEMMA LoadedBrain ==
    ASSUME PathTree(tree), CacheTyped, NEW path, Loadable(path)
    PROVE  /\ path \in DOMAIN Loaded(path) /\ IsEntry(Loaded(path)[path]) /\ IsPath(path)
           /\ path \in DOMAIN cache => Loaded(path) = cache
           /\ path \notin DOMAIN cache => /\ IsExom(path)
                                          /\ Loaded(path) = Insert(cache, path, FromDisk(tree[path].brain))
                                          /\ Loaded(path)[path] = FromDisk(tree[path].brain)
<1>1. CASE path \in DOMAIN cache
  BY <1>1 DEF Loaded, CacheTyped
<1>2. CASE path \notin DOMAIN cache
  <2>1. IsExom(path) /\ path \in DOMAIN tree
    BY <1>2 DEF Loadable, IsExom, There
  <2>2. IsPath(path) /\ IsBrain(tree[path].brain)
    BY <2>1, NodeParts
  <2>3. Loaded(path) = Insert(cache, path, FromDisk(tree[path].brain))
    BY <1>2 DEF Loaded
  <2>4. path \in DOMAIN Loaded(path) /\ Loaded(path)[path] = FromDisk(tree[path].brain)
    BY <2>3 DEF Insert
  <2>5. IsEntry(FromDisk(tree[path].brain))
    BY <2>2 DEF IsEntry, FromDisk, Entry
  <2> QED BY <1>2, <2>1, <2>2, <2>3, <2>4, <2>5
<1> QED BY <1>1, <1>2

\* Forks hold their target, and facts.
LEMMA ForkHolds ==
    ASSUME NEW r, Called(r), NEW s, NEW n, Drops(r, s, n), NEW target, IsPath(target), NEW facts,
           s.held = Fork(target, facts), Head(r.todo) \in {"fork_check", "snapshot", "snapshot_cached"}
    PROVE  HeldFits(s)
<1>1. Follows(Head(r.todo), Head(s.todo))
  BY DropsBy DEF Called
<1>2. Head(s.todo) # "fork_insert"
  BY <1>1 DEF Follows, Leads
<1>3. s.held.target = target /\ s.held.facts = facts
  BY DEF Fork
<1> QED BY <1>2, <1>3 DEF HeldFits

\* The steps of forks put what the next step needs in what is held.
LEMMA ForkCheckGoes ==
    ASSUME ReqTyped, NEW p \in Slots, ForkCheck(p)
    PROVE  Done(p) \/ GoesOn(p)
<1> DEFINE r == req[p]
<1>1. Busy(p) /\ Head(r.todo) = "fork_check" /\ Called(r)
  BY DEF ForkCheck, At, ReqTyped
<1>2. Leave(p) \/ \E target \in ForkTargets(r) : Holding(p, Fork(target, {}))
  BY DEF ForkCheck
<1>3. ASSUME NEW target \in ForkTargets(r), Holding(p, Fork(target, {}))
      PROVE  GoesOn(p)
  <2>1. Goes(p) /\ Drops(r, req'[p], 1) /\ req'[p].held = Fork(target, {})
    BY <1>1, <1>3, HoldingBy DEF Lasts
  <2>2. IsPath(r.path)
    BY <1>1 DEF Called, Resets
  <2>3. Ahead(r, {"fork_check"})
    <3>1. Len(r.todo) \in Nat \ {0} /\ Head(r.todo) = r.todo[1]
      BY <1>1, PlanParts DEF Called
    <3> QED BY <1>1, <3>1 DEF Ahead
  <2>4. r.name \in Targets
    BY <1>1, <2>3 DEF Called
  <2>5. IsPath(target)
    BY <2>2, <2>4, TargetPath
  <2> QED BY <1>1, <2>1, <2>5, ForkHolds DEF GoesOn
<1> QED BY <1>2, <1>3, LeaveBy

LEMMA SnapshotGoes ==
    ASSUME ReqTyped, NEW p \in Slots, Snapshot(p) \/ SnapshotCached(p)
    PROVE  Done(p) \/ GoesOn(p)
<1> DEFINE r == req[p]
<1>1. Busy(p) /\ Head(r.todo) \in {"snapshot", "snapshot_cached"} /\ Called(r)
  BY DEF Snapshot, SnapshotCached, At, ReqTyped
<1>2. Leave(p) \/ \E facts : Holding(p, Fork(r.held.target, facts))
  BY DEF Snapshot, SnapshotCached, Copied
<1>3. ASSUME NEW facts, Holding(p, Fork(r.held.target, facts))
      PROVE  GoesOn(p)
  <2>1. Goes(p) /\ Drops(r, req'[p], 1) /\ req'[p].held = Fork(r.held.target, facts)
    BY <1>1, <1>3, HoldingBy DEF Lasts
  <2>2. IsPath(r.held.target)
    BY <1>1 DEF Called, HeldFits, Forks
  <2> QED BY <1>1, <2>1, <2>2, ForkHolds DEF GoesOn
<1> QED BY <1>2, <1>3, LeaveBy

LEMMA ForkLoadGoes ==
    ASSUME PathTree(tree), ReqTyped, NEW p \in Slots, ForkLoad(p)
    PROVE  GoesOn(p)
<1> DEFINE r == req[p]
           entry == FromDisk(IF There(r.path) THEN tree[r.path].brain ELSE EmptyBrain)
           held == [target |-> r.held.target, facts |-> {}, entry |-> entry]
<1>1. Busy(p) /\ Head(r.todo) = "fork_load" /\ Called(r) /\ Holding(p, held)
  BY DEF ForkLoad, At, ReqTyped
<1>2. Goes(p) /\ Drops(r, req'[p], 1) /\ req'[p].held = held
  BY <1>1, HoldingBy DEF Lasts
<1>3. IsPath(r.held.target)
  BY <1>1 DEF Called, HeldFits, Forks
<1>4. IsEntry(entry)
  <2>1. IsBrain(IF There(r.path) THEN tree[r.path].brain ELSE EmptyBrain)
    BY NodeParts, EmptyIsBrain DEF There
  <2> QED BY <2>1 DEF IsEntry, FromDisk, Entry
<1> HIDE DEF entry
<1>5. req'[p].held.target = r.held.target /\ req'[p].held.entry = entry /\ req'[p].held = held
  BY <1>2
<1>6. Follows(Head(r.todo), Head(req'[p].todo))
  BY <1>1, <1>2, DropsBy DEF Called
<1>7. Head(req'[p].todo) \notin {"fork_new", "copy"}
  BY <1>1, <1>6 DEF Follows, Leads
<1> QED BY <1>2, <1>3, <1>4, <1>5, <1>7 DEF GoesOn, HeldFits

\* How plans go on after a look at the cache, and after the target is made
LEMMA PeekPlan ==
    ASSUME NEW s, Plan(s), Head(s) = "peek"
    PROVE  Len(s) \in Nat /\ 3 < Len(s)
<1>0. Len(s) \in Nat \ {0} /\ Head(s) = s[1]
  BY PlanParts
<1>1. PICK n \in Nat : n = Len(s) /\ n > 0
  BY <1>0
<1>2. \A i \in 1..(n - 1) : Leads(s[i], s[i + 1])
  BY <1>1 DEF Plan
<1>3. s[n] \in Lasts
  BY <1>1 DEF Plan
<1>4. n > 1
  BY <1>0, <1>1, <1>3 DEF Lasts
<1>5. Leads(s[1], s[2])
  BY <1>2, <1>4
<1>6. s[2] = "fork_load"
  BY <1>0, <1>5 DEF Leads
<1>7. n > 2
  BY <1>3, <1>4, <1>6 DEF Lasts
<1>8. Leads(s[2], s[3])
  BY <1>2, <1>7
<1>9. s[3] = "fork_insert"
  BY <1>6, <1>8 DEF Leads
<1>10. n > 3
  BY <1>3, <1>7, <1>9 DEF Lasts
<1> QED BY <1>1, <1>10

LEMMA ForkNewPlan ==
    ASSUME NEW s, Plan(s), Head(s) = "fork_new"
    PROVE  Len(s) = 2
<1>0. Len(s) \in Nat \ {0} /\ Head(s) = s[1]
  BY PlanParts
<1>1. PICK n \in Nat : n = Len(s) /\ n > 0
  BY <1>0
<1>2. \A i \in 1..(n - 1) : Leads(s[i], s[i + 1])
  BY <1>1 DEF Plan
<1>3. s[n] \in Lasts
  BY <1>1 DEF Plan
<1>4. n > 1
  BY <1>0, <1>1, <1>3 DEF Lasts
<1>5. Leads(s[1], s[2])
  BY <1>2, <1>4
<1>6. s[2] = "copy"
  BY <1>0, <1>5 DEF Leads
<1>7. ASSUME n > 2
      PROVE  FALSE
  <2>1. Leads(s[2], s[3])
    BY <1>2, <1>7
  <2> QED BY <1>6, <2>1 DEF Leads
<1>8. n = 2
  BY <1>4, <1>7
<1> QED BY <1>1, <1>8

LEMMA PeekGoes ==
    ASSUME ReqTyped, NEW p \in Slots, Peek(p)
    PROVE  Done(p) \/ GoesOn(p)
<1> DEFINE r == req[p]
<1>1. Busy(p) /\ Head(r.todo) = "peek" /\ Called(r) /\ (Skip(p, 3) \/ Advance(p))
  BY DEF Peek, At, ReqTyped
<1>2. CASE Advance(p)
  BY <1>1, <1>2, PlainGoes
<1>3. CASE Skip(p, 3)
  <2> DEFINE t == r.todo
  <2>1. Plan(t) /\ Head(t) = "peek"
    BY <1>1 DEF Called
  <2> HIDE DEF t
  <2>2. Len(t) \in Nat /\ 3 < Len(t)
    BY <2>1, PeekPlan
  <2>3. 3 \in 1..Len(t)
    BY <2>2
  <2>6. 3 \in 1..Len(r.todo)
    BY <2>3 DEF t
  <2>7. CASE /\ Others(p) /\ SameCall(r, req'[p]) /\ 3 \in 0..(Len(r.todo) - 1)
             /\ req'[p].todo = SubSeq(r.todo, 3 + 1, Len(r.todo))
             /\ req'[p].held = r.held
    <3>1. Drops(r, req'[p], 3)
      BY <1>1, <2>7 DEF Drops
    <3>2. HeldFits(req'[p])
      BY <1>1, <2>7, <3>1, HeldOn
    <3> QED BY <2>7, <3>1, <3>2 DEF GoesOn, Goes
  <2> QED BY <1>1, <1>3, <2>6, <2>7, SkipBy
<1> QED BY <1>1, <1>2, <1>3

LEMMA ForkNewGoes ==
    ASSUME ReqTyped, NEW p \in Slots, ForkNew(p)
    PROVE  Done(p) \/ GoesOn(p)
<1> DEFINE r == req[p]
<1>1. /\ Busy(p) /\ Head(r.todo) = "fork_new" /\ Called(r)
      /\ Skip(p, 2) \/ Skip(p, 1) \/ Leave(p)
  BY DEF ForkNew, Reshape, At, ReqTyped
<1>2. CASE Skip(p, 1) \/ Leave(p)
  BY <1>1, <1>2, PlainGoes DEF Advance
<1>3. CASE Skip(p, 2)
  <2> DEFINE t == r.todo
  <2>1. Plan(t) /\ Head(t) = "fork_new"
    BY <1>1 DEF Called
  <2> HIDE DEF t
  <2>2. Len(t) = 2
    BY <2>1, ForkNewPlan
  <2>3. 2 \in 1..Len(t)
    BY <2>2
  <2>4. 2 = Len(r.todo) /\ 2 \in 1..Len(r.todo)
    BY <2>2, <2>3 DEF t
  <2>5. 2 \notin 0..(Len(t) - 1)
    BY <2>2
  <2>6. 2 \notin 0..(Len(r.todo) - 1)
    BY <2>5 DEF t
  <2> QED BY <1>1, <1>3, <2>4, <2>6, SkipBy
<1> QED BY <1>1, <1>2, <1>3

LEMMA CopyGoes ==
    ASSUME ReqTyped, NEW p \in Slots, CopyFact(p)
    PROVE  Done(p) \/ GoesOn(p)
<1> DEFINE r == req[p]
<1>1. Busy(p) /\ Head(r.todo) = "copy" /\ Called(r) /\ DOMAIN req = Slots
  BY DEF CopyFact, At, ReqTyped
<1>2. Advance(p) \/ \E f : req' = [req EXCEPT ![p].held.facts = @ \ {f}]
  BY DEF CopyFact
<1>3. ASSUME NEW f, req' = [req EXCEPT ![p].held.facts = @ \ {f}]
      PROVE  GoesOn(p)
  <2>1. IsRequest(r) /\ Plan(r.todo) /\ r.held = Fork(r.held.target, r.held.facts) /\ IsPath(r.held.target)
    BY <1>1 DEF Called, HeldFits, Forks
  <2>2. Others(p) /\ req'[p] = [r EXCEPT !.held.facts = @ \ {f}]
    BY <1>1, <1>3 DEF Others
  <2>3. r = [todo |-> r.todo, user |-> r.user, path |-> r.path, branch |-> r.branch,
             name |-> r.name, held |-> r.held, id |-> r.id] /\ r.user \in Users
    BY <2>1 DEF IsRequest
  <2>4. r.held = [target |-> r.held.target, facts |-> r.held.facts]
    BY <2>1 DEF Fork
  <2> HIDE DEF r
  <2> DEFINE h == [target |-> r.held.target, facts |-> r.held.facts \ {f}]
  <2>5. req'[p] = [todo |-> r.todo, user |-> r.user, path |-> r.path,
                   branch |-> r.branch, name |-> r.name, held |-> h, id |-> r.id]
    BY <2>2, <2>3, <2>4
  <2>6. SameCall(r, req'[p]) /\ req'[p].todo = r.todo /\ req'[p].held = h
    BY <2>3, <2>5 DEF SameCall, IsRequest
  <2>7. Len(r.todo) \in Nat \ {0} /\ r.todo \in Seq({r.todo[i] : i \in DOMAIN r.todo})
    BY <2>1, PlanParts DEF r
  <2>8. SubSeq(r.todo, 0 + 1, Len(r.todo)) = r.todo
    BY <2>7
  <2>9. Drops(r, req'[p], 0)
    BY <1>1, <2>6, <2>7, <2>8 DEF Drops, r
  <2>10. HeldFits(req'[p])
    <3>1. req'[p].held = Fork(r.held.target, r.held.facts \ {f}) /\ req'[p].held.target = r.held.target
          /\ req'[p].held.facts = r.held.facts \ {f}
      BY <2>6 DEF Fork
    <3>2. Head(req'[p].todo) = "copy" /\ IsPath(r.held.target)
      BY <1>1, <2>1, <2>6 DEF r
    <3> QED BY <3>1, <3>2 DEF HeldFits
  <2> QED BY <2>2, <2>6, <2>9, <2>10 DEF GoesOn, Goes, r
<1> QED BY <1>1, <1>2, <1>3, PlainGoes

\* Every step ends its handler or leads to another of its steps.
LEMMA StepGoes ==
    ASSUME PathTree(tree), ReqTyped, NEW p \in Slots, Step(p)
    PROVE  Busy(p) /\ (Done(p) \/ GoesOn(p))
<1> DEFINE Plainly ==
              /\ Busy(p)
              /\ Advance(p) \/ Leave(p)
              /\ Head(req[p].todo) \notin {"fork_check", "snapshot", "snapshot_cached", "fork_load"}
<1>1. GuardRead(p) => Plainly
  BY DEF GuardRead, At, Guard, Pass, Plainly
<1>2. GuardWrite(p) => Plainly
  BY DEF GuardWrite, At, Guard, Pass, Plainly
<1>3. GuardOwner(p) => Plainly
  BY DEF GuardOwner, At, Guard, Pass, Plainly
<1>4. Load(p) => Plainly
  BY DEF Load, At, Pass, Plainly
<1>5. Query(p) => Plainly
  BY DEF Query, At, QueryOn, Plainly
<1>6. McpQuery(p) => Plainly
  BY DEF McpQuery, At, QueryOn, Plainly
<1>7. EvalQuery(p) => Plainly
  BY DEF EvalQuery, At, QueryOn, Plainly
<1>8. EvalQueryUnknown(p) => Plainly
  BY DEF EvalQueryUnknown, At, Plainly
<1>9. EvalRaw(p) => Plainly
  BY DEF EvalRaw, At, Plainly
<1>10. ToolBind(p) => Plainly
  BY DEF ToolBind, At, Pass, Plainly
<1>11. ToolEval(p) => Plainly
  BY DEF ToolEval, At, Plainly
<1>12. Schema(p) => Plainly
  BY DEF Schema, At, Plainly
<1>13. Derived(p) => Plainly
  BY DEF Derived, At, Plainly
<1>14. Mutate(p) => Plainly
  BY DEF Mutate, At, Pass, Plainly
<1>15. MutateUnknown(p) => Plainly
  BY DEF MutateUnknown, At, Plainly
<1>16. Rebind(p) => Plainly
  BY DEF Rebind, At, Plainly
<1>17. EvalChange(p) => Plainly
  BY DEF EvalChange, At, Plainly
<1>18. Precheck(p) => Plainly
  BY DEF Precheck, At, Pass, Plainly
<1>19. Evict(p) => Plainly
  BY DEF Evict, At, Plainly
<1>20. Uncache(p) => Plainly
  BY DEF Uncache, At, Plainly
<1>21. Init_(p) => Plainly
  BY DEF Init_, At, Reshape, Plainly
<1>22. FolderNew(p) => Plainly
  BY DEF FolderNew, At, Reshape, Plainly
<1>23. ExomNew(p) => Plainly
  BY DEF ExomNew, At, Reshape, Plainly
<1>24. SessionDir(p) => Plainly
  BY DEF SessionDir, At, Reshape, Plainly
<1>25. SessionRows(p) => Plainly
  BY DEF SessionRows, At, Reshape, Plainly
<1>26. RenameDir(p) => Plainly
  BY DEF RenameDir, At, Reshape, Pass, Plainly
<1>27. EvictUnder(p) => Plainly
  BY DEF EvictUnder, At, Plainly
<1>28. SharePaths(p) => Plainly
  BY DEF SharePaths, At, Plainly
<1>29. EvictHeld(p) => Plainly
  BY DEF EvictHeld, At, Plainly
<1>30. DeleteDir(p) => Plainly
  BY DEF DeleteDir, At, Pass, Plainly
<1>31. DeleteShares(p) => Plainly
  BY DEF DeleteShares, At, Plainly
<1>32. DeleteUser(p) => Plainly
  BY DEF DeleteUser, At, Plainly
<1>33. Purge(p) => Plainly
  BY DEF Purge, At, Plainly
<1>34. ResetEvict(p) => Plainly
  BY DEF ResetEvict, At, Plainly
<1>35. Reset(p) => Plainly
  BY DEF Reset, At, Plainly
<1>36. ResetShares(p) => Plainly
  BY DEF ResetShares, At, Plainly
<1>37. ForkInsert(p) => Plainly
  BY DEF ForkInsert, At, Plainly
<1> HIDE DEF Plainly
<1>38. CASE Plainly
  BY <1>38, PlainGoes DEF Plainly
<1>39. CASE Collect(p)
  <2>1. Busy(p) /\ Head(req[p].todo) = "collect" /\ Called(req[p])
    BY <1>39 DEF Collect, At, ReqTyped
  <2>2. Leave(p) \/ Holding(p, Walk(tree, req[p].path))
    BY <1>39 DEF Collect
  <2>3. CASE Holding(p, Walk(tree, req[p].path))
    <3>1. Goes(p) /\ Drops(req[p], req'[p], 1)
      BY <2>1, <2>3, HoldingBy DEF Lasts
    <3>2. Follows(Head(req[p].todo), Head(req'[p].todo))
      BY <2>1, <3>1, DropsBy DEF Called
    <3>3. Head(req'[p].todo) = "evict_held"
      BY <2>1, <3>2 DEF Follows, Leads
    <3> QED BY <2>1, <3>1, <3>3 DEF GoesOn, HeldFits, Forks
  <2> QED BY <2>1, <2>2, <2>3, LeaveBy
<1>40. CASE ForkCheck(p) \/ Snapshot(p) \/ SnapshotCached(p) \/ Peek(p) \/ ForkLoad(p) \/ ForkNew(p) \/ CopyFact(p)
  <2>1. Busy(p)
    BY <1>40 DEF ForkCheck, Snapshot, SnapshotCached, Peek, ForkLoad, ForkNew, CopyFact, Reshape, At
  <2> QED BY <1>40, <2>1, ForkCheckGoes, SnapshotGoes, PeekGoes, ForkLoadGoes, ForkNewGoes, CopyGoes
<1> QED
  BY <1>1, <1>2, <1>3, <1>4, <1>5, <1>6, <1>7, <1>8, <1>9, <1>10, <1>11, <1>12, <1>13, <1>14,
     <1>15, <1>16, <1>17, <1>18, <1>19, <1>20, <1>21, <1>22, <1>23, <1>24, <1>25, <1>26, <1>27,
     <1>28, <1>29, <1>30, <1>31, <1>32, <1>33, <1>34, <1>35, <1>36, <1>37, <1>38, <1>39, <1>40
     DEF Step

\* So requests stay well formed.
LEMMA ReqKept ==
    ASSUME ReqTyped, NEW p \in Slots, Busy(p), Done(p) \/ GoesOn(p)
    PROVE  ReqTyped'
<1>1. DOMAIN req' = Slots /\ \A q \in Slots \ {p} : req'[q] = req[q]
  BY DEF Done, GoesOn, Goes, Others
<1>2. ASSUME req'[p] # Nothing
      PROVE  Called(req'[p])
  <2>1. SameCall(req[p], req'[p]) /\ HeldFits(req'[p]) /\ Called(req[p])
    BY <1>2 DEF Done, GoesOn, Goes, ReqTyped
  <2>2. PICK n : Drops(req[p], req'[p], n)
    BY <1>2 DEF Done, GoesOn, Goes
  <2> QED BY <2>1, <2>2, CalledOn
<1>3. ASSUME NEW q \in Slots, Busy(q)'
      PROVE  Called(req'[q])
  BY <1>1, <1>2, <1>3 DEF Busy, Idle, ReqTyped
<1> QED BY <1>1, <1>3 DEF ReqTyped

\* A request that begins
LEMMA BeginBy ==
    ASSUME ReqTyped, PathTree(tree), CacheTyped, begun \in Nat, NEW p \in Slots, Begin(p)
    PROVE  /\ Others(p) /\ ~Busy(p) /\ Opens(req'[p]) /\ Called(req'[p])
           /\ req'[p].id = FirstId + 2 * begun /\ begun' = begun + 1 /\ begun' <= MaxRequests
           /\ answer' = NoAnswer /\ UNCHANGED <<disk, memory, crashes, apart>>
<1>1. PICK r \in Views \union Queries \union Writes \union Structure :
        req' = [req EXCEPT ![p] = [r EXCEPT !.id = FirstId + 2 * begun]]
  BY DEF Begin
<1>2. \A path \in Asked \union Folders : IsPath(path)
  <2>1. \A path \in Exoms \union Folders : path \in Seq(STRING) /\ path # <<>>
    BY StartsAssumption
  <2>2. \A path \in Exoms \union Folders : IsPath(path)
    BY <2>1, PathOf
  <2>3. \A path \in DOMAIN cache \union Walk(tree, <<>>) : IsPath(path)
    BY NodeParts DEF CacheTyped, Walk
  <2> QED BY <2>2, <2>3 DEF Asked
<1>3. Opens(r) /\ Called(r)
  BY <1>2, BegunBy
<1> DEFINE s == [r EXCEPT !.id = FirstId + 2 * begun]
<1>4. req'[p] = s /\ Others(p)
  BY <1>1 DEF ReqTyped, Others
<1>5. r = [todo |-> r.todo, user |-> r.user, path |-> r.path, branch |-> r.branch,
           name |-> r.name, held |-> r.held, id |-> r.id] /\ r.user \in Users
  BY <1>3 DEF Called, IsRequest
<1>6. s = [todo |-> r.todo, user |-> r.user, path |-> r.path, branch |-> r.branch,
           name |-> r.name, held |-> r.held, id |-> FirstId + 2 * begun]
  BY <1>5
<1> HIDE DEF s
<1>7. /\ IsRequest(s) /\ s.todo = r.todo /\ s.path = r.path /\ s.name = r.name /\ s.held = r.held
      /\ s.id = FirstId + 2 * begun
  BY <1>5, <1>6 DEF IsRequest
<1>8. Opens(s) /\ Called(s)
  BY <1>3, <1>7 DEF Opens, Called, HeldFits, Ahead
<1>9. begun' = begun + 1 /\ begun < MaxRequests /\ ~Busy(p)
  BY DEF Begin, Busy
<1> QED BY <1>4, <1>7, <1>8, <1>9, ExomsAssumption DEF Begin

-----------------------------------------------------------------------------
(* Changes of brains *)

\* Brains with more rows and branches are brains.
LEMMA BrainBy ==
    ASSUME NEW rows, NEW branches, Main \in branches, branches \subseteq Branches,
           \A r \in rows : r.on \in branches
    PROVE  IsBrain([rows |-> rows, branches |-> branches])
BY DEF IsBrain

LEMMA WithBy ==
    ASSUME NEW brain, IsBrain(brain), NEW rows, \A r \in rows : r.on \in brain.branches
    PROVE  /\ IsBrain(With(brain, rows)) /\ With(brain, rows).rows = brain.rows \union rows
           /\ With(brain, rows).branches = brain.branches
<1>1. brain = [rows |-> brain.rows, branches |-> brain.branches]
  BY DEF IsBrain
<1>2. With(brain, rows) = [rows |-> brain.rows \union rows, branches |-> brain.branches]
  BY <1>1 DEF With
<1>3. IsBrain([rows |-> brain.rows \union rows, branches |-> brain.branches])
  BY BrainBy DEF IsBrain
<1> QED BY <1>2, <1>3

\* A branch that a brain does not have shows what its main branch shows.
LEMMA ViewUnknown ==
    ASSUME NEW brain, IsBrain(brain), NEW b
    PROVE  \E c \in brain.branches : View(brain, b) = View(brain, c)
<1>1. CASE b \in brain.branches
  BY <1>1
<1>2. CASE b \notin brain.branches
  <2>1. \A r \in brain.rows : r.on # b
    BY <1>2 DEF IsBrain
  <2>2. View(brain, b) = View(brain, Main)
    BY <2>1 DEF View
  <2> QED BY <2>2 DEF IsBrain
<1> QED BY <1>1, <1>2

\* What a change makes of a brain: it only replaces rows when it imports or wipes.
Outcome(r, brain, o) ==
    /\ IsBrain(o.brain)
    /\ o.ok \in BOOLEAN /\ o.replaced \in BOOLEAN
    /\ ~o.replaced => brain.rows \subseteq o.brain.rows /\ o.brain.branches = brain.branches
    /\ ~o.replaced /\ ~o.ok => o.brain = brain
    /\ o.replaced => Head(r.todo) \in {"import", "wipe"}

LEMMA OkBy ==
    ASSUME NEW r, NEW brain, IsBrain(brain), NEW new, IsBrain(new), brain.rows \subseteq new.rows,
           new.branches = brain.branches
    PROVE  Outcome(r, brain, Ok(new))
BY DEF Outcome, Ok

LEMMA ErrBy ==
    ASSUME NEW r, NEW brain, IsBrain(brain)
    PROVE  Outcome(r, brain, Err(brain))
BY DEF Outcome, Ok, Err

LEMMA ChangingBy ==
    ASSUME NEW r, NEW brain, IsBrain(brain), NEW o \in Changing(r, brain),
           Head(r.todo) \in {"assert", "eval_assert", "retract", "eval_retract", "eval_rule",
                             "retract_all", "import", "wipe"}
    PROVE  Outcome(r, brain, o)
<1> DEFINE step == Head(r.todo)
<1>1. CASE step \in {"assert", "eval_assert"}
  <2>1. o \in Asserting(r, brain)
    BY <1>1 DEF Changing
  <2>2. CASE r.branch \in brain.branches
    <3>1. o = Ok(With(brain, {Row(r.id, r.branch, 0)}))
      BY <2>1, <2>2 DEF Asserting
    <3>2. \A x \in {Row(r.id, r.branch, 0)} : x.on \in brain.branches
      BY <2>2 DEF Row
    <3> QED BY <3>1, <3>2, WithBy, OkBy
  <2>3. CASE r.branch \notin brain.branches
    BY <2>1, <2>3, ErrBy DEF Asserting
  <2> QED BY <2>2, <2>3
<1>2. CASE step \in {"retract", "eval_retract"}
  <2>1. o \in Retracting(r, brain)
    BY <1>2 DEF Changing
  <2>2. CASE o = Err(brain)
    BY <2>2, ErrBy
  <2>3. CASE o # Err(brain)
    <3>1. PICK f \in View(brain, r.branch) :
            r.branch \in brain.branches /\ o = Ok(With(brain, {Row(r.id, r.branch, f.n)}))
      BY <2>1, <2>3 DEF Retracting
    <3>2. \A x \in {Row(r.id, r.branch, f.n)} : x.on \in brain.branches
      BY <3>1 DEF Row
    <3> QED BY <3>1, <3>2, WithBy, OkBy
  <2> QED BY <2>2, <2>3
<1>3. CASE step = "eval_rule"
  <2>1. o = Ok(brain)
    BY <1>3 DEF Changing
  <2> QED BY <2>1, OkBy
<1>4. CASE step = "retract_all"
  <2> DEFINE rows == {Row(r.id, Main, f.n) : f \in View(brain, Main)}
  <2>1. o = Ok(With(brain, rows))
    BY <1>4 DEF Changing, RetractingAll
  <2>2. \A x \in rows : x.on \in brain.branches
    BY DEF Row, IsBrain
  <2> HIDE DEF rows
  <2> QED BY <2>1, <2>2, WithBy, OkBy
<1>5. CASE step = "import"
  <2> DEFINE rows == {Row(r.id, Main, 0)}
  <2>1. PICK parsed \in BOOLEAN : o = [ok |-> parsed, replaced |-> TRUE, brain |-> With(EmptyBrain, rows)]
    BY <1>5 DEF Changing, Importing
  <2>2. \A x \in rows : x.on \in EmptyBrain.branches
    BY DEF Row, EmptyBrain
  <2> HIDE DEF rows
  <2>3. IsBrain(With(EmptyBrain, rows))
    BY <2>2, EmptyIsBrain, WithBy
  <2> QED BY <1>5, <2>1, <2>3 DEF Outcome
<1>6. CASE step = "wipe"
  <2>1. o = [ok |-> TRUE, brain |-> EmptyBrain, replaced |-> TRUE]
    BY <1>6 DEF Changing, Wiping, Ok
  <2> QED BY <1>6, <2>1, EmptyIsBrain DEF Outcome
<1> QED BY <1>1, <1>2, <1>3, <1>4, <1>5, <1>6

-----------------------------------------------------------------------------
(* The tree stays one. *)

\* A wipe leaves a tree.
LEMMA EmptiedTree ==
    ASSUME PathTree(tree), NEW path, IsPath(path), NEW id
    PROVE  PathTree(Emptied(path, id))
<1> DEFINE made == CreateDirs(Removed(tree, path), path, id)
<1>1. PathTree(made) /\ path \in DOMAIN made
  BY RemovedTree, DirsTree
<1> HIDE DEF made
<1>2. ASSUME NEW u, u = [made EXCEPT ![path].id = tree[path].id]
      PROVE  PathTree(u)
  <2>1. DOMAIN u = DOMAIN made /\ \A x \in DOMAIN made : x # path => u[x] = made[x]
    BY <1>2
  <2>2. u[path] = [made[path] EXCEPT !.id = tree[path].id]
    BY <1>1, <1>2
  <2>3. IsNode(made[path])
    BY <1>1, NodeParts
  <2>4. made[path] = [kind |-> made[path].kind, brain |-> made[path].brain, id |-> made[path].id]
    BY <2>3 DEF IsNode, Node
  <2>5. u[path] = Node(made[path].kind, made[path].brain, tree[path].id)
    BY <2>2, <2>4 DEF Node
  <2>8. made[path].kind \in Kinds /\ IsBrain(made[path].brain)
    BY <2>3 DEF IsNode
  <2>6. IsNode(u[path])
    BY <2>5, <2>8, NodeTyped
  <2>7. ASSUME NEW x \in DOMAIN u
        PROVE  IsPath(x) /\ Above(x) \subseteq DOMAIN u /\ IsNode(u[x])
    BY <1>1, <2>1, <2>6, NodeParts
  <2> QED BY <2>7, TreeBy
<1> QED BY <1>1, <1>2 DEF Emptied, made

LEMMA ConcatPath ==
    ASSUME NEW S, NEW s \in Seq(S), NEW t \in Seq(S), s # <<>>
    PROVE  IsPath(s \o t)
<1>1. s \o t \in Seq(S) /\ Len(s \o t) = Len(s) + Len(t)
  OBVIOUS
<1>2. Len(s) > 0 /\ Len(s) \in Nat /\ Len(t) \in Nat
  OBVIOUS
<1>3. s \o t # <<>>
  BY <1>1, <1>2
<1> QED BY <1>1, <1>3, PathOf

LEMMA SessionPathBy ==
    ASSUME NEW r, IsPath(r.path)
    PROVE  IsPath(SessionPath(r))
<1> DEFINE s == r.path
           t == <<"sessions", "s" \o ToString(r.id)>>
           S == {s[i] : i \in DOMAIN s} \union {t[1], t[2]}
<1>1. s \in Seq(S) /\ s # <<>>
  BY DEF IsPath
<1>2. t \in Seq(S)
  OBVIOUS
<1> HIDE DEF S, t, s
<1>3. IsPath(s \o t)
  BY <1>1, <1>2, ConcatPath
<1> QED BY <1>3 DEF SessionPath, t, s

\* The paths of a request
LEMMA PathsOf ==
    ASSUME ReqTyped, NEW p \in Slots, Busy(p)
    PROVE  /\ Head(req[p].todo) \notin Resets => IsPath(req[p].path)
           /\ Head(req[p].todo) \in Forks => IsPath(req[p].held.target)
BY DEF ReqTyped, Called, HeldFits

LEMMA AppendMore ==
    ASSUME NEW s, IsPath(s), NEW e
    PROVE  IsPath(Append(s, e))
BY AppendPath

\* What the scaffolding calls make of the tree.
LEMMA InitTree ==
    ASSUME PathTree(tree), ReqTyped, NEW p \in Slots, Init_(p)
    PROVE  PathTree(tree') /\ Keeps(tree, tree', req[p].id, {})
<1> DEFINE r == req[p]
           dirs == CreateDirs(tree, r.path, r.id)
           main == Append(r.path, "main")
           put == Put(dirs, main, "project", r.id)
<1>1. IsPath(r.path)
  BY PathsOf DEF Init_, Reshape, At, Resets
<1>2. IsPath(main) /\ IsPath(Append(r.path, "sessions"))
  BY <1>1, AppendMore
<1>3. PathTree(dirs) /\ Keeps(tree, dirs, r.id, {})
  BY <1>1, DirsTree
<1>4. \/ UNCHANGED tree
      \/ tree' = dirs
      \/ /\ main \notin DOMAIN dirs \/ dirs[main].kind = "project"
         /\ tree' = CreateDirs(put, Append(r.path, "sessions"), r.id)
  BY DEF Init_
<1> HIDE DEF dirs, main
<1>5. CASE UNCHANGED tree
  BY <1>5 DEF Keeps
<1>6. CASE tree' = dirs
  BY <1>3, <1>6
<1>7. CASE /\ main \notin DOMAIN dirs \/ dirs[main].kind = "project"
           /\ tree' = CreateDirs(put, Append(r.path, "sessions"), r.id)
  <2>1. PathTree(put) /\ Keeps(dirs, put, r.id, {})
    BY <1>2, <1>3, <1>7, PutTree DEF Kinds
  <2> HIDE DEF put
  <2>2. PathTree(tree') /\ Keeps(put, tree', r.id, {})
    BY <1>2, <1>7, <2>1, DirsTree
  <2> QED BY <1>3, <2>1, <2>2, KeepsOn
<1> QED BY <1>4, <1>5, <1>6, <1>7

LEMMA FolderTree ==
    ASSUME PathTree(tree), ReqTyped, NEW p \in Slots, FolderNew(p)
    PROVE  PathTree(tree') /\ Keeps(tree, tree', req[p].id, {})
<1>1. IsPath(req[p].path)
  BY PathsOf DEF FolderNew, Reshape, At, Resets
<1>2. UNCHANGED tree \/ tree' = CreateDirs(tree, req[p].path, req[p].id)
  BY DEF FolderNew
<1>3. UNCHANGED tree => PathTree(tree') /\ Keeps(tree, tree', req[p].id, {})
  BY DEF Keeps
<1> DEFINE d == CreateDirs(tree, req[p].path, req[p].id)
<1>4. PathTree(d) /\ Keeps(tree, d, req[p].id, {})
  BY <1>1, DirsTree
<1> HIDE DEF d
<1>5. UNCHANGED tree \/ tree' = d
  BY <1>2 DEF d
<1> QED BY <1>3, <1>4, <1>5

LEMMA BareTree ==
    ASSUME PathTree(tree), NEW path, IsPath(path), NEW id
    PROVE  PathTree(BareExom(path, id)) /\ Keeps(tree, BareExom(path, id), id, {})
<1>1. CASE There(path)
  BY <1>1 DEF BareExom, Keeps
<1>2. CASE ~There(path)
  BY <1>2, PutTree DEF BareExom, Kinds, There
<1> QED BY <1>1, <1>2

LEMMA ExomNewTree ==
    ASSUME PathTree(tree), ReqTyped, NEW p \in Slots, ExomNew(p) \/ ForkNew(p)
    PROVE  PathTree(tree') /\ Keeps(tree, tree', req[p].id, {})
<1>1. \E path : IsPath(path) /\ (UNCHANGED tree \/ tree' = BareExom(path, req[p].id))
  <2>1. CASE ExomNew(p)
    BY <2>1, PathsOf DEF ExomNew, Reshape, At, Resets
  <2>2. CASE ForkNew(p)
    BY <2>2, PathsOf DEF ForkNew, Reshape, At, Forks
  <2> QED BY <2>1, <2>2
<1>2. UNCHANGED tree => PathTree(tree') /\ Keeps(tree, tree', req[p].id, {})
  BY DEF Keeps
<1> QED BY <1>1, <1>2, BareTree

LEMMA SessionDirTree ==
    ASSUME PathTree(tree), ReqTyped, NEW p \in Slots, SessionDir(p)
    PROVE  /\ PathTree(tree')
           /\ ~There(SessionPath(req[p])) => Keeps(tree, tree', req[p].id, {})
<1> DEFINE s == SessionPath(req[p])
<1>1. IsPath(s)
  BY PathsOf, SessionPathBy DEF SessionDir, Reshape, At, Resets
<1>2. UNCHANGED tree \/ tree' = Put(tree, s, "session", req[p].id)
  BY DEF SessionDir
<1>3. UNCHANGED tree => PathTree(tree') /\ Keeps(tree, tree', req[p].id, {})
  BY DEF Keeps
<1> HIDE DEF s
<1>4. tree' = Put(tree, s, "session", req[p].id) =>
        PathTree(tree') /\ (~There(s) => Keeps(tree, tree', req[p].id, {}))
  BY <1>1, PutTree DEF Kinds, There
<1> QED BY <1>2, <1>3, <1>4 DEF s

\* The rows of a session go to its directory, which is made again if it has gone.
LEMMA SessionRowsTree ==
    ASSUME PathTree(tree), ReqTyped, NEW p \in Slots, SessionRows(p)
    PROVE  /\ PathTree(tree') /\ Keeps(tree, tree', req[p].id + 1, {SessionPath(req[p])})
           /\ SessionPath(req[p]) \in DOMAIN tree'
           /\ There(SessionPath(req[p])) =>
                 tree[SessionPath(req[p])].brain.rows \subseteq tree'[SessionPath(req[p])].brain.rows
<1> DEFINE s == SessionPath(req[p])
           brain == IF There(s) THEN tree[s].brain ELSE EmptyBrain
<1>1. IsPath(s)
  BY PathsOf, SessionPathBy DEF SessionRows, Reshape, At, Resets
<1>2. PICK participants \in SUBSET (Branches \ {Main}) :
        tree' = Saved(tree, s, [brain EXCEPT !.branches = @ \union participants], req[p].id + 1)
  BY DEF SessionRows
<1>3. IsBrain(brain)
  BY NodeParts, EmptyIsBrain DEF There
<1>4. There(s) => brain = tree[s].brain
  OBVIOUS
<1> HIDE DEF brain, s
<1> DEFINE new == [rows |-> brain.rows, branches |-> brain.branches \union participants]
<1>5. tree' = Saved(tree, s, new, req[p].id + 1)
  BY <1>2, <1>3 DEF IsBrain
<1>6. IsBrain(new) /\ new.rows = brain.rows
  BY <1>3 DEF IsBrain
<1> HIDE DEF new
<1>7. /\ PathTree(tree') /\ Keeps(tree, tree', req[p].id + 1, {s}) /\ s \in DOMAIN tree'
      /\ tree'[s].brain = new
  BY <1>1, <1>5, <1>6, SavedTree
<1> QED BY <1>4, <1>6, <1>7 DEF s

-----------------------------------------------------------------------------
(* The cache and the engine *)

CacheOf(c) == \A path \in DOMAIN c : IsPath(path) /\ IsEntry(c[path])

Fits(c, e) ==
    \A path \in DOMAIN c :
        /\ path \in DOMAIN e /\ e[path] = c[path].datoms
        /\ \E b \in c[path].brain.branches : c[path].datoms = View(c[path].brain, b)

\* One entry of a map is set.
Sets(f, g, path, value) ==
    /\ DOMAIN g = DOMAIN f \union {path} /\ g[path] = value
    /\ \A x \in DOMAIN f : x # path => g[x] = f[x]

\* Cache or bindings with one entry set.
LEMMA InsertSets ==
    ASSUME NEW f, NEW path, NEW value
    PROVE  Sets(f, Insert(f, path, value), path, value)
BY DEF Sets, Insert

LEMMA ExceptSets ==
    ASSUME NEW f, NEW path \in DOMAIN f, NEW value
    PROVE  Sets(f, [f EXCEPT ![path] = value], path, value)
BY DEF Sets

LEMMA EntryBy ==
    ASSUME NEW brain, IsBrain(brain), NEW datoms
    PROVE  /\ IsEntry(Entry(brain, datoms))
           /\ Entry(brain, datoms).brain = brain /\ Entry(brain, datoms).datoms = datoms
           /\ Entry(brain, datoms).typed = datoms
BY DEF IsEntry, Entry

LEMMA SetsTyped ==
    ASSUME NEW c, CacheOf(c), NEW path, IsPath(path), NEW entry, IsEntry(entry),
           NEW d, Sets(c, d, path, entry)
    PROVE  CacheOf(d)
BY DEF CacheOf, Sets

LEMMA SetsFits ==
    ASSUME NEW c, NEW e, Fits(c, e), NEW path, NEW entry, NEW d, Sets(c, d, path, entry),
           NEW f, Sets(e, f, path, entry.datoms),
           \E b \in entry.brain.branches : entry.datoms = View(entry.brain, b)
    PROVE  Fits(d, f)
BY DEF Fits, Sets

LEMMA BindingsFit ==
    ASSUME NEW c, NEW e, Fits(c, e)
    PROVE  Fits(c, Bindings(c))
BY DEF Fits, Bindings

\* The engine fits what an eviction leaves.
LEMMA FewerFit ==
    ASSUME NEW c, NEW e, Fits(c, e), NEW d, DOMAIN d \subseteq DOMAIN c,
           \A x \in DOMAIN d : d[x] = c[x]
    PROVE  Fits(d, e)
BY DEF Fits

\* An exom that is loaded from disk shows its main branch.
LEMMA FromDiskBy ==
    ASSUME NEW brain, IsBrain(brain)
    PROVE  /\ IsEntry(FromDisk(brain)) /\ FromDisk(brain).brain = brain
           /\ FromDisk(brain).datoms = View(brain, Main) /\ FromDisk(brain).typed = View(brain, Main)
           /\ \E b \in FromDisk(brain).brain.branches :
                 FromDisk(brain).datoms = View(FromDisk(brain).brain, b)
<1> DEFINE d == View(brain, Main)
           entry == FromDisk(brain)
<1>1. IsEntry(Entry(brain, d)) /\ Entry(brain, d).brain = brain
      /\ Entry(brain, d).datoms = d /\ Entry(brain, d).typed = d
  BY EntryBy
<1>2. IsEntry(entry) /\ entry.brain = brain /\ entry.datoms = d /\ entry.typed = d
  BY <1>1 DEF FromDisk
<1>3. Main \in brain.branches
  BY DEF IsBrain
<1> HIDE DEF entry
<1>4. \E b \in entry.brain.branches : entry.datoms = View(entry.brain, b)
  <2>1. Main \in entry.brain.branches /\ entry.datoms = View(entry.brain, Main)
    BY <1>2, <1>3
  <2> QED BY <2>1
<1> QED BY <1>2, <1>4 DEF entry

\* A brain that is fetched is bound as it is on disk.
LEMMA LoadedFits ==
    ASSUME PathTree(tree), CacheTyped, NEW path, Loadable(path)
    PROVE  /\ CacheOf(Loaded(path))
           /\ Fits(cache, env) => Fits(Loaded(path), Bound(path))
<1>1. CASE path \in DOMAIN cache
  BY <1>1, LoadedBrain DEF CacheOf, CacheTyped, Bound
<1>2. CASE path \notin DOMAIN cache
  <2> DEFINE entry == FromDisk(tree[path].brain)
  <2>1. IsPath(path) /\ IsExom(path) /\ Loaded(path) = Insert(cache, path, entry)
    BY <1>2, LoadedBrain
  <2>2. IsBrain(tree[path].brain)
    BY <2>1, NodeParts DEF IsExom, There
  <2>3. IsEntry(entry) /\ \E b \in entry.brain.branches : entry.datoms = View(entry.brain, b)
    BY <2>2, FromDiskBy
  <2>4. Bound(path) = Insert(env, path, entry.datoms)
    BY <1>2, <2>2, FromDiskBy DEF Bound
  <2> HIDE DEF entry
  <2>5. Sets(cache, Loaded(path), path, entry) /\ Sets(env, Bound(path), path, entry.datoms)
    BY <2>1, <2>4, InsertSets
  <2>6. CacheOf(Loaded(path))
    BY <2>1, <2>3, <2>5, SetsTyped DEF CacheTyped, CacheOf
  <2>7. Fits(cache, env) => Fits(Loaded(path), Bound(path))
    BY <2>3, <2>5, SetsFits
  <2> QED BY <2>6, <2>7
<1> QED BY <1>1, <1>2

\* What the steps that read make of cache and engine
Serves(path) ==
    \/ UNCHANGED <<cache, env>>
    \/ /\ Loadable(path)
       /\ \/ cache' = Loaded(path) /\ env' = Bound(path)
          \/ \E b \in Loaded(path)[path].brain.branches :
                /\ cache' = Rebound(Loaded(path), path, b)
                /\ \/ env' = Insert(Bound(path), path, cache'[path].datoms)
                   \/ env' = Insert(env, path, cache'[path].datoms)
                   \/ env' = Bindings(cache')

Fewer ==
    /\ DOMAIN cache' \subseteq DOMAIN cache /\ \A x \in DOMAIN cache' : cache'[x] = cache[x]
    /\ UNCHANGED env \/ env' = Bindings(cache')

\* Of the brains in the cache
SameBrain(x) == x \in DOMAIN cache /\ cache'[x].brain = cache[x].brain
Fetched(x) == IsExom(x) /\ cache'[x].brain = tree[x].brain

LEMMA ReboundSets ==
    ASSUME NEW c, NEW path \in DOMAIN c, NEW b
    PROVE  Sets(c, Rebound(c, path, b), path, Entry(c[path].brain, View(c[path].brain, b)))
BY ExceptSets DEF Rebound

\* A step that reads leaves the cached brains, but for one it fetches.
LEMMA ServesBy ==
    ASSUME PathTree(tree), CacheTyped, NEW path, Serves(path)
    PROVE  /\ CacheTyped' /\ (Fits(cache, env) => Fits(cache', env'))
           /\ \A x \in DOMAIN cache' : SameBrain(x) \/ (x = path /\ Fetched(x))
<1>1. CASE UNCHANGED <<cache, env>>
  BY <1>1 DEF CacheTyped, Fits, SameBrain
<1>2. CASE Loadable(path) /\ cache' = Loaded(path) /\ env' = Bound(path)
  <2>1. CacheOf(Loaded(path)) /\ (Fits(cache, env) => Fits(Loaded(path), Bound(path)))
    BY <1>2, LoadedFits
  <2>2. CacheTyped' /\ (Fits(cache, env) => Fits(cache', env'))
    BY <1>2, <2>1 DEF CacheTyped, CacheOf
  <2>3. CASE path \in DOMAIN cache
    BY <1>2, <2>2, <2>3, LoadedBrain DEF SameBrain
  <2>4. CASE path \notin DOMAIN cache
    <3>1. IsExom(path) /\ cache' = Insert(cache, path, FromDisk(tree[path].brain))
      BY <1>2, <2>4, LoadedBrain
    <3>2. FromDisk(tree[path].brain).brain = tree[path].brain
      BY DEF FromDisk, Entry
    <3>3. \A x \in DOMAIN cache' : SameBrain(x) \/ (x = path /\ Fetched(x))
      BY <2>4, <3>1, <3>2 DEF Insert, SameBrain, Fetched
    <3> QED BY <2>2, <3>3
  <2> QED BY <2>3, <2>4
<1>3. ASSUME Loadable(path), NEW b \in Loaded(path)[path].brain.branches,
             cache' = Rebound(Loaded(path), path, b),
             \/ env' = Insert(Bound(path), path, cache'[path].datoms)
             \/ env' = Insert(env, path, cache'[path].datoms)
             \/ env' = Bindings(cache')
      PROVE  /\ CacheTyped' /\ (Fits(cache, env) => Fits(cache', env'))
             /\ \A x \in DOMAIN cache' : SameBrain(x) \/ (x = path /\ Fetched(x))
  <2> DEFINE c == Loaded(path)
             entry == Entry(c[path].brain, View(c[path].brain, b))
  <2>1. path \in DOMAIN c /\ IsEntry(c[path]) /\ IsPath(path)
    BY <1>3, LoadedBrain
  <2>2. Sets(c, cache', path, entry)
    BY <1>3, <2>1, ReboundSets
  <2>3. /\ IsEntry(entry) /\ entry.brain = c[path].brain /\ entry.datoms = View(entry.brain, b)
        /\ b \in entry.brain.branches
    BY <1>3, <2>1, EntryBy DEF IsEntry
  <2>4. CacheOf(c) /\ (Fits(cache, env) => Fits(c, Bound(path)))
    BY <1>3, LoadedFits
  <2>5. \/ path \in DOMAIN cache /\ c = cache
        \/ path \notin DOMAIN cache /\ IsExom(path) /\ Sets(cache, c, path, FromDisk(tree[path].brain))
    BY <1>3, LoadedBrain, InsertSets
  <2>6. path \in DOMAIN cache => Bound(path) = env
    BY DEF Bound
  <2>7. path \notin DOMAIN cache => \E d : Sets(env, Bound(path), path, d)
    BY InsertSets DEF Bound
  <2> HIDE DEF c, entry
  <2>8. cache'[path].datoms = entry.datoms
    BY <2>2 DEF Sets
  <2>9. CacheTyped'
    <3>1. CacheOf(cache')
      BY <2>1, <2>2, <2>3, <2>4, SetsTyped
    <3> QED BY <3>1 DEF CacheTyped, CacheOf
  <2>10. ASSUME Fits(cache, env)
         PROVE  Fits(cache', env')
    <3> DEFINE f == Insert(Bound(path), path, entry.datoms)
    <3>1. Sets(Bound(path), f, path, entry.datoms)
      BY InsertSets
    <3>2. Fits(cache', f)
      BY <2>2, <2>3, <2>4, <2>10, <3>1, SetsFits
    <3>3. CASE env' = Insert(Bound(path), path, cache'[path].datoms)
      BY <2>8, <3>2, <3>3
    <3>4. CASE env' = Insert(env, path, cache'[path].datoms)
      <4>1. Sets(env, env', path, entry.datoms)
        BY <2>8, <3>4, InsertSets
      <4> HIDE DEF f
      <4>2. DOMAIN f = DOMAIN env' /\ \A x \in DOMAIN f : f[x] = env'[x]
        BY <2>6, <2>7, <3>1, <4>1 DEF Sets
      <4> QED BY <3>2, <4>2 DEF Fits
    <3>5. CASE env' = Bindings(cache')
      BY <3>2, <3>5, BindingsFit
    <3> QED BY <1>3, <3>3, <3>4, <3>5
  <2>11. ASSUME NEW x \in DOMAIN cache'
         PROVE  SameBrain(x) \/ (x = path /\ Fetched(x))
    <3>1. FromDisk(tree[path].brain).brain = tree[path].brain
      BY DEF FromDisk, Entry
    <3> QED BY <2>2, <2>3, <2>5, <3>1 DEF Sets, SameBrain, Fetched
  <2> QED BY <2>9, <2>10, <2>11
<1> QED BY <1>1, <1>2, <1>3 DEF Serves

\* So does a step that evicts.
LEMMA FewerBy ==
    ASSUME CacheTyped, Fewer
    PROVE  /\ CacheTyped' /\ (Fits(cache, env) => Fits(cache', env'))
           /\ \A x \in DOMAIN cache' : SameBrain(x)
<1>1. Fits(cache, env) => Fits(cache', env)
  BY FewerFit DEF Fewer
<1>2. Fits(cache, env) => Fits(cache', env')
  BY <1>1, BindingsFit DEF Fewer
<1> QED BY <1>2 DEF Fewer, CacheTyped, SameBrain

\* The steps that read, and those that evict
LEMMA Reading ==
    ASSUME NEW p \in Slots,
           \/ Load(p) \/ Query(p) \/ McpQuery(p) \/ EvalQuery(p) \/ ToolBind(p) \/ Schema(p)
           \/ Derived(p) \/ Snapshot(p)
    PROVE  Serves(req[p].path) /\ UNCHANGED disk
<1> DEFINE path == req[p].path
<1>1. CASE Load(p)
  BY <1>1 DEF Load, Serves
<1>2. CASE Query(p) \/ McpQuery(p) \/ EvalQuery(p)
  <2>1. PICK outcomes : QueryOn(p, outcomes)
    BY <1>2 DEF Query, McpQuery, EvalQuery
  <2>2. UNCHANGED disk
    BY <2>1 DEF QueryOn
  <2>3. CASE ~Loadable(path)
    BY <2>1, <2>3 DEF QueryOn, Serves, memory
  <2>4. CASE Loadable(path) /\ req[p].branch \notin Loaded(path)[path].brain.branches
    BY <2>1, <2>4 DEF QueryOn, UnknownBranch, Serves
  <2>5. CASE Loadable(path) /\ req[p].branch \in Loaded(path)[path].brain.branches
    <3> DEFINE c == Rebound(Loaded(path), path, req[p].branch)
    <3>1. Evaluate(p, c, outcomes)
      BY <2>1, <2>5 DEF QueryOn
    <3>2. /\ cache' = c
          /\ env' = Insert(Bound(path), path, c[path].datoms) \/ env' = Bindings(c)
      BY <3>1 DEF Evaluate
    <3> QED BY <2>2, <2>5, <3>2 DEF Serves
  <2> QED BY <2>2, <2>3, <2>4, <2>5
<1>3. CASE ToolBind(p)
  <2>1. UNCHANGED disk
    BY <1>3 DEF ToolBind
  <2>2. CASE ~Loadable(path)
    BY <1>3, <2>1, <2>2 DEF ToolBind, Serves, memory
  <2>3. CASE Loadable(path) /\ req[p].branch \notin Loaded(path)[path].brain.branches
    BY <1>3, <2>1, <2>3 DEF ToolBind, Serves
  <2>4. CASE Loadable(path) /\ req[p].branch \in Loaded(path)[path].brain.branches
    <3> DEFINE c == Rebound(Loaded(path), path, req[p].branch)
    <3>1. cache' = c /\ env' = Insert(env, path, c[path].datoms)
      BY <1>3, <2>4 DEF ToolBind
    <3> QED BY <2>1, <2>4, <3>1 DEF Serves
  <2> QED BY <2>2, <2>3, <2>4
<1>4. CASE Schema(p)
  BY <1>4 DEF Schema, Serves, UnknownBranch, memory
<1>5. CASE Derived(p)
  BY <1>5 DEF Derived, Serves
<1>6. CASE Snapshot(p)
  BY <1>6 DEF Snapshot, Serves
<1> QED BY <1>1, <1>2, <1>3, <1>4, <1>5, <1>6

LEMMA EvictWhereBy ==
    ASSUME NEW gone, EvictWhere(gone)
    PROVE  Fewer /\ DOMAIN cache' = DOMAIN cache \ gone
<1> DEFINE left == [path \in DOMAIN cache \ gone |-> cache[path]]
<1>1. cache' = left /\ (UNCHANGED env \/ env' = Bindings(left))
  BY DEF EvictWhere, memory
<1> QED BY <1>1 DEF Fewer

LEMMA Evicting ==
    ASSUME NEW p \in Slots,
           \/ Evict(p) \/ Uncache(p) \/ EvictUnder(p) \/ EvictHeld(p) \/ ResetEvict(p)
           \/ EvalRaw(p) \/ Rebind(p)
    PROVE  Fewer /\ UNCHANGED disk
<1>1. CASE Evict(p) \/ EvictUnder(p) \/ EvictHeld(p) \/ ResetEvict(p)
  BY <1>1, EvictWhereBy DEF Evict, EvictUnder, EvictHeld, ResetEvict
<1>2. CASE Uncache(p)
  BY <1>2 DEF Uncache, Fewer
<1>3. CASE EvalRaw(p) \/ Rebind(p)
  BY <1>3 DEF EvalRaw, Rebind, Fewer, memory
<1> QED BY <1>1, <1>2, <1>3

-----------------------------------------------------------------------------
(* What the steps that save make of tree, cache and engine *)

\* The cache is read: of its brains none is changed, and at most the one at path is fetched.
Reads(path) ==
    /\ CacheTyped' /\ (Fits(cache, env) => Fits(cache', env'))
    /\ \A x \in DOMAIN cache' : SameBrain(x) \/ (x = path /\ Fetched(x))

LEMMA ServesReads ==
    ASSUME PathTree(tree), CacheTyped, NEW path, Serves(path)
    PROVE  Reads(path)
BY ServesBy DEF Reads

LEMMA FewerReads ==
    ASSUME CacheTyped, Fewer, NEW path
    PROVE  Reads(path)
BY FewerBy DEF Reads

\* The exom at path is saved with a new brain, and the engine shows a branch of it.
SavesAs(p, path, new, replaced, entry) ==
    /\ Loadable(path) /\ IsBrain(new)
    /\ ~replaced => Loaded(path)[path].brain.rows \subseteq new.rows
    /\ tree' = Saved(tree, path, new, req[p].id)
    /\ Ack(tree', path, Loaded(path)[path].brain, new, replaced)
    /\ IsEntry(entry) /\ entry.brain = new
    /\ \E b \in new.branches : entry.datoms = View(new, b)
    /\ Sets(Loaded(path), cache', path, entry) /\ Sets(env, env', path, entry.datoms)

Saves(p, path) == \E new, replaced, entry : SavesAs(p, path, new, replaced, entry)

\* A save keeps the types of tree and cache.
LEMMA SavesTyped ==
    ASSUME PathTree(tree), CacheTyped, NEW p, NEW path, Saves(p, path)
    PROVE  PathTree(tree') /\ CacheTyped'
<1>1. PICK new, replaced, entry : SavesAs(p, path, new, replaced, entry)
  BY DEF Saves
<1>2. IsPath(path) /\ Loadable(path) /\ IsBrain(new) /\ tree' = Saved(tree, path, new, req[p].id)
  BY <1>1, LoadedBrain DEF SavesAs
<1>3. PathTree(tree')
  <2> DEFINE u == Saved(tree, path, new, req[p].id)
  <2>1. PathTree(u)
    BY <1>2, SavedTree
  <2>2. tree' = u
    BY <1>2
  <2> HIDE DEF u
  <2> QED BY <2>1, <2>2
<1>4. CacheOf(cache')
  <2>1. CacheOf(Loaded(path)) /\ IsEntry(entry) /\ Sets(Loaded(path), cache', path, entry)
    BY <1>1, <1>2, LoadedFits DEF SavesAs
  <2> QED BY <1>2, <2>1, SetsTyped
<1> QED BY <1>3, <1>4 DEF CacheTyped, CacheOf

\* A mutation that fails only reads; one that succeeds saves what it caches.
LEMMA MutateBy ==
    ASSUME PathTree(tree), CacheTyped, ReqTyped, NEW p \in Slots, Mutate(p)
    PROVE  /\ PathTree(tree') /\ CacheTyped'
           /\ \/ Reads(req[p].path) /\ UNCHANGED <<tree, acked>>
              \/ Saves(p, req[p].path)
              \/ At(p, "wipe")
              \/ At(p, "import") /\ req'[p] = Nothing
<1> DEFINE r == req[p]
           path == r.path
           old == Loaded(path)[path].brain
           c == Loaded(path)
<1>1. /\ Loadable(path) /\ Busy(p)
      /\ Head(r.todo) \in {"assert", "retract", "retract_all", "wipe", "import"}
  BY DEF Mutate, At
<1>2. PICK o \in Changing(r, old) :
        /\ IF o.ok
           THEN /\ cache' = [c EXCEPT ![path] = FromDisk(o.brain)]
                /\ env' = Insert(env, path, View(o.brain, Main))
           ELSE /\ cache' = [c EXCEPT ![path].brain = o.brain]
                /\ env' = Bound(path)
        /\ IF o.ok \/ o.replaced
           THEN /\ tree' = SaveTo(IF At(p, "wipe") THEN Emptied(path, r.id) ELSE tree,
                                  path, o.brain, r.id)
                /\ Ack(tree', path, old, o.brain, o.replaced)
           ELSE UNCHANGED <<tree, acked>>
        /\ Pass(p, o.ok)
  BY DEF Mutate
<1>3. path \in DOMAIN c /\ IsEntry(c[path]) /\ IsPath(path) /\ CacheOf(c)
  BY <1>1, LoadedBrain, LoadedFits
<1>4. IsBrain(old)
  BY <1>3 DEF IsEntry
<1>5. Outcome(r, old, o)
  BY <1>1, <1>2, <1>4, ChangingBy
<1> HIDE DEF c, old
<1>6. IsBrain(o.brain) /\ o.ok \in BOOLEAN /\ o.replaced \in BOOLEAN
  BY <1>5 DEF Outcome
<1> DEFINE entry == IF o.ok THEN FromDisk(o.brain) ELSE [c[path] EXCEPT !.brain = o.brain]
<1>7. IsEntry(entry) /\ entry.brain = o.brain
  <2>1. CASE o.ok
    BY <1>6, <2>1, FromDiskBy
  <2>2. CASE ~o.ok
    BY <1>3, <1>6, <2>2 DEF IsEntry
  <2> QED BY <2>1, <2>2
<1>8. Sets(c, cache', path, entry)
  <2>1. cache' = [c EXCEPT ![path] = entry]
    BY <1>2, <1>3
  <2> HIDE DEF entry
  <2> QED BY <1>3, <2>1, ExceptSets
<1>9. CacheTyped'
  <2> HIDE DEF entry
  <2>1. CacheOf(cache')
    BY <1>3, <1>7, <1>8, SetsTyped
  <2> QED BY <2>1 DEF CacheTyped, CacheOf
<1>10. PathTree(tree')
  <2>1. CASE o.ok \/ o.replaced
    <3> DEFINE t == IF At(p, "wipe") THEN Emptied(path, r.id) ELSE tree
               u == Saved(t, path, o.brain, r.id)
    <3>1. PathTree(t)
      BY <1>3, EmptiedTree
    <3>2. tree' = u
      BY <1>2, <2>1 DEF SaveTo
    <3> HIDE DEF t
    <3>3. PathTree(u)
      BY <1>3, <1>6, <3>1, SavedTree
    <3> HIDE DEF u
    <3> QED BY <3>2, <3>3
  <2>2. CASE ~(o.ok \/ o.replaced)
    BY <1>2, <2>2
  <2> QED BY <2>1, <2>2
<1>11. ASSUME ~o.ok, ~o.replaced
       PROVE  Reads(path) /\ UNCHANGED <<tree, acked>>
  <2>1. o.brain = old /\ UNCHANGED <<tree, acked>> /\ env' = Bound(path)
    BY <1>2, <1>5, <1>6, <1>11 DEF Outcome
  <2>2. entry = c[path]
    BY <1>3, <1>11, <2>1 DEF IsEntry, old, c
  <2>3. DOMAIN cache' = DOMAIN c /\ \A x \in DOMAIN c : cache'[x] = c[x]
    <3> HIDE DEF entry
    <3> QED BY <1>3, <1>8, <2>2 DEF Sets
  <2>4. Fits(cache, env) => Fits(cache', env')
    <3>1. Fits(cache, env) => Fits(c, env')
      BY <1>1, <2>1, LoadedFits DEF c
    <3>2. ASSUME Fits(c, env')
          PROVE  Fits(cache', env')
      <4> DEFINE d == cache'
                 e == env'
      <4>1. DOMAIN d \subseteq DOMAIN c /\ \A x \in DOMAIN d : d[x] = c[x]
        BY <2>3
      <4>2. Fits(c, e)
        BY <3>2
      <4> HIDE DEF d, e
      <4>3. Fits(d, e)
        BY <4>1, <4>2, FewerFit
      <4> QED BY <4>3 DEF d, e
    <3> QED BY <3>1, <3>2
  <2>5. ASSUME NEW x \in DOMAIN cache'
        PROVE  SameBrain(x) \/ (x = path /\ Fetched(x))
    <3>1. CASE path \in DOMAIN cache
      <4>1. c = cache
        BY <1>1, <3>1, LoadedBrain DEF c
      <4> QED BY <2>3, <2>5, <4>1 DEF SameBrain
    <3>2. CASE path \notin DOMAIN cache
      <4>1. IsExom(path) /\ c = Insert(cache, path, FromDisk(tree[path].brain))
        BY <1>1, <3>2, LoadedBrain DEF c
      <4>2. FromDisk(tree[path].brain).brain = tree[path].brain
        BY DEF FromDisk, Entry
      <4> QED BY <2>3, <2>5, <3>2, <4>1, <4>2 DEF Insert, SameBrain, Fetched
    <3> QED BY <3>1, <3>2
  <2> QED BY <1>9, <2>1, <2>4, <2>5 DEF Reads
<1>12. ASSUME o.ok, ~At(p, "wipe")
       PROVE  Saves(p, path)
  <2>1. tree' = Saved(tree, path, o.brain, r.id) /\ Ack(tree', path, old, o.brain, o.replaced)
    BY <1>2, <1>12 DEF SaveTo
  <2>2. entry = FromDisk(o.brain) /\ env' = Insert(env, path, View(o.brain, Main))
    BY <1>2, <1>12
  <2>3. entry.datoms = View(o.brain, Main) /\ Main \in o.brain.branches
    BY <1>6, <2>2, FromDiskBy DEF IsBrain
  <2> HIDE DEF entry
  <2>4. Sets(env, env', path, entry.datoms)
    BY <2>2, <2>3, InsertSets
  <2>5. ~o.replaced => old.rows \subseteq o.brain.rows
    BY <1>5 DEF Outcome
  <2>6. SavesAs(p, path, o.brain, o.replaced, entry)
    BY <1>1, <1>6, <1>7, <1>8, <2>1, <2>3, <2>4, <2>5 DEF SavesAs, c, old
  <2> QED BY <2>6 DEF Saves
<1>13. ASSUME ~o.ok, o.replaced, ~At(p, "wipe")
       PROVE  At(p, "import") /\ req'[p] = Nothing
  <2>1. Head(r.todo) \in {"import", "wipe"}
    BY <1>5, <1>13 DEF Outcome
  <2>2. Leave(p)
    BY <1>2, <1>13 DEF Pass
  <2>3. req'[p] = Nothing
    BY <2>2, LeaveBy DEF Done
  <2> QED BY <1>1, <1>13, <2>1, <2>3 DEF At
<1> QED BY <1>6, <1>9, <1>10, <1>11, <1>12, <1>13

\* The same of the mutations of api_eval.
LEMMA EvalChangeBy ==
    ASSUME PathTree(tree), CacheTyped, ReqTyped, NEW p \in Slots, EvalChange(p)
    PROVE  \/ Fewer /\ UNCHANGED <<tree, acked>>
           \/ Saves(p, req[p].path)
<1> DEFINE r == req[p]
           path == r.path
           old == cache[path].brain
<1>1. Busy(p) /\ Head(r.todo) \in {"eval_assert", "eval_retract", "eval_rule"}
  BY DEF EvalChange, At
<1>2. PICK o \in IF path \in DOMAIN cache THEN Changing(r, cache[path].brain) ELSE {Err(EmptyBrain)} :
        IF o.ok
        THEN /\ cache' = [cache EXCEPT ![path].brain = o.brain,
                                       ![path].datoms = View(o.brain, r.branch)]
             /\ env' = Insert(env, path, View(o.brain, r.branch))
             /\ tree' = SaveTo(tree, path, o.brain, r.id)
             /\ Ack(tree', path, cache[path].brain, o.brain, FALSE)
             /\ UNCHANGED typed
        ELSE /\ env' = Bindings(cache) /\ typed' = NoTable
             /\ UNCHANGED <<cache, tree, acked>>
  BY DEF EvalChange
<1>3. CASE ~o.ok
  BY <1>2, <1>3 DEF Fewer
<1>4. CASE o.ok
  <2>1. path \in DOMAIN cache
    BY <1>2, <1>4 DEF Err, Ok
  <2>2. o \in Changing(r, old) /\ IsPath(path) /\ IsEntry(cache[path])
    BY <1>2, <2>1 DEF CacheTyped
  <2>3. IsBrain(old)
    BY <2>2 DEF IsEntry
  <2>4. Outcome(r, old, o)
    BY <1>1, <2>2, <2>3, ChangingBy
  <2>5. IsBrain(o.brain) /\ old.rows \subseteq o.brain.rows
    BY <1>1, <2>4 DEF Outcome
  <2> DEFINE datoms == View(o.brain, r.branch)
             entry == [brain |-> o.brain, datoms |-> datoms, typed |-> cache[path].typed]
  <2>6. IsEntry(entry) /\ entry.brain = o.brain /\ entry.datoms = datoms
    BY <2>5 DEF IsEntry
  <2>7. \E b \in o.brain.branches : datoms = View(o.brain, b)
    BY <2>5, ViewUnknown
  <2>8. /\ cache' = [cache EXCEPT ![path].brain = o.brain, ![path].datoms = datoms]
        /\ env' = Insert(env, path, datoms)
        /\ tree' = Saved(tree, path, o.brain, r.id)
        /\ Ack(tree', path, old, o.brain, FALSE)
    BY <1>2, <1>4 DEF SaveTo
  <2> HIDE DEF datoms
  <2>9. Sets(cache, cache', path, entry)
    <3>1. DOMAIN cache' = DOMAIN cache /\ \A x \in DOMAIN cache : x # path => cache'[x] = cache[x]
      BY <2>8
    <3>2. cache'[path] = entry
      BY <2>1, <2>2, <2>8 DEF IsEntry
    <3> QED BY <2>1, <3>1, <3>2 DEF Sets
  <2>10. Sets(env, env', path, entry.datoms)
    BY <2>6, <2>8, InsertSets
  <2>11. Loaded(path) = cache /\ Loadable(path)
    BY <2>1 DEF Loaded, Loadable
  <2> HIDE DEF entry
  <2>12. SavesAs(p, path, o.brain, FALSE, entry)
    BY <2>5, <2>6, <2>7, <2>8, <2>9, <2>10, <2>11 DEF SavesAs
  <2> QED BY <2>12 DEF Saves
<1> QED BY <1>3, <1>4

\* The same of the facts a fork copies.
LEMMA CopyFactBy ==
    ASSUME PathTree(tree), CacheTyped, ReqTyped, NEW p \in Slots, CopyFact(p)
    PROVE  \/ UNCHANGED <<cache, env, tree, acked>>
           \/ Saves(p, req[p].held.target)
<1> DEFINE r == req[p]
           path == r.held.target
           old == Loaded(path)[path].brain
           c == Loaded(path)
<1>1. PICK f \in r.held.facts :
        IF Loadable(path)
        THEN /\ cache' = [c EXCEPT ![path] = FromDisk(With(old, {Row(f.n, Main, 0)}))]
             /\ env' = Insert(env, path, View(With(old, {Row(f.n, Main, 0)}), Main))
             /\ tree' = SaveTo(tree, path, With(old, {Row(f.n, Main, 0)}), r.id)
             /\ Ack(tree', path, old, With(old, {Row(f.n, Main, 0)}), FALSE)
        ELSE UNCHANGED <<cache, env, tree, acked>>
  BY DEF CopyFact
<1>2. CASE Loadable(path)
  <2> DEFINE row == Row(f.n, Main, 0)
             new == With(old, {row})
             entry == FromDisk(new)
  <2>1. path \in DOMAIN c /\ IsEntry(c[path]) /\ IsPath(path)
    BY <1>2, LoadedBrain
  <2>2. IsBrain(old)
    BY <2>1 DEF IsEntry
  <2>3. row.on = Main /\ Main \in old.branches
    BY <2>2 DEF Row, IsBrain
  <2>4. /\ cache' = [c EXCEPT ![path] = entry]
        /\ env' = Insert(env, path, View(new, Main))
        /\ tree' = Saved(tree, path, new, r.id)
        /\ Ack(tree', path, old, new, FALSE)
    BY <1>1, <1>2 DEF SaveTo
  <2> HIDE DEF row, old, c
  <2>5. IsBrain(new) /\ old.rows \subseteq new.rows /\ Main \in new.branches
    BY <2>2, <2>3, WithBy
  <2> HIDE DEF new
  <2>6. IsEntry(entry) /\ entry.brain = new /\ entry.datoms = View(new, Main)
    BY <2>5, FromDiskBy
  <2> HIDE DEF entry
  <2>7. Sets(c, cache', path, entry)
    BY <2>1, <2>4, ExceptSets
  <2>8. Sets(env, env', path, entry.datoms)
    BY <2>4, <2>6, InsertSets
  <2>9. SavesAs(p, path, new, FALSE, entry)
    BY <1>2, <2>4, <2>5, <2>6, <2>7, <2>8 DEF SavesAs, c, old
  <2> QED BY <2>9 DEF Saves
<1>3. CASE ~Loadable(path)
  BY <1>1, <1>3
<1> QED BY <1>2, <1>3

-----------------------------------------------------------------------------
(* What is always so *)

IsShare(s) ==
    /\ s = Share(s.to, s.path, s.permission, s.id)
    /\ s.to \in Users /\ IsPath(s.path) /\ s.permission \in {"read", "read-write"}

SharesTyped == IsFiniteSet(shares) /\ \A s \in shares : IsShare(s)

Typed ==
    /\ PathTree(tree) /\ CacheTyped /\ SharesTyped /\ ReqTyped
    /\ begun \in 0..MaxRequests /\ crashes \in 0..MaxCrashes /\ apart \in BOOLEAN

\* The steps that only look
LEMMA Looking ==
    ASSUME NEW p \in Slots,
           \/ GuardRead(p) \/ GuardWrite(p) \/ GuardOwner(p) \/ EvalQueryUnknown(p) \/ ToolEval(p)
           \/ MutateUnknown(p) \/ Precheck(p) \/ Collect(p) \/ ForkCheck(p) \/ Peek(p)
           \/ SnapshotCached(p)
    PROVE  UNCHANGED <<disk, memory>>
BY DEF GuardRead, GuardWrite, GuardOwner, Guard, EvalQueryUnknown, ToolEval, MutateUnknown, Precheck,
       Collect, ForkCheck, Peek, SnapshotCached

\* Those that change grants
LEMMA SharePathsBy ==
    ASSUME SharesTyped, ReqTyped, NEW p \in Slots, SharePaths(p)
    PROVE  /\ SharesTyped' /\ Beside(req[p].path, Renamed(req[p])) /\ Len(req[p].path) > 1
           /\ \A t \in shares' : \E s \in shares :
                 /\ t.to = s.to /\ t.id = s.id
                 /\ t.path = Moved(s.path, req[p].path, Renamed(req[p]))
<1> DEFINE r == req[p]
           from == r.path
           to == Renamed(r)
           M(s) == [s EXCEPT !.path = NewSharePath(@, from, to)]
<1>1. /\ Busy(p) /\ Head(r.todo) = "share_paths" /\ shares' = {M(s) : s \in shares}
  BY DEF SharePaths, At
<1>2. Called(r)
  BY <1>1 DEF ReqTyped
<1>3. Beside(from, to) /\ Len(from) > 1
  <2>1. Plan(r.todo) /\ IsPath(from) /\ (Ahead(r, {"rename", "share_paths"}) => Len(from) > 1)
    BY <1>1, <1>2 DEF Called, Resets
  <2>2. Len(r.todo) \in Nat \ {0} /\ Head(r.todo) = r.todo[1]
    BY <2>1, PlanParts
  <2>3. Ahead(r, {"rename", "share_paths"})
    BY <1>1, <2>2 DEF Ahead
  <2> QED BY <2>1, <2>3, RenamedBeside
<1> HIDE DEF from, to
<1>4. ASSUME NEW s \in shares
      PROVE  IsShare(M(s)) /\ M(s).to = s.to /\ M(s).id = s.id /\ M(s).path = Moved(s.path, from, to)
  <2>1. s = Share(s.to, s.path, s.permission, s.id) /\ IsPath(s.path)
    BY <1>4 DEF SharesTyped, IsShare
  <2>2. /\ M(s).to = s.to /\ M(s).id = s.id /\ M(s).permission = s.permission
        /\ M(s).path = Moved(s.path, from, to)
    BY <2>1 DEF Share, NewSharePath
  <2>3. M(s) = Share(s.to, Moved(s.path, from, to), s.permission, s.id)
    BY <2>1 DEF Share, NewSharePath
  <2>4. IsPath(Moved(s.path, from, to))
    BY <1>3, <2>1, MovedPath
  <2> HIDE DEF M
  <2>5. IsShare(M(s))
    BY <1>4, <2>2, <2>3, <2>4 DEF SharesTyped, IsShare
  <2> QED BY <2>2, <2>5
<1>5. IsFiniteSet(shares')
  <2> DEFINE f == [s \in shares |-> M(s)]
             T == {M(s) : s \in shares}
  <2>1. IsFiniteSet(shares)
    BY DEF SharesTyped
  <2>2. f \in Surjection(shares, T)
    <3> HIDE DEF M
    <3> QED BY DEF Surjection
  <2>3. shares' = T
    BY <1>1
  <2> HIDE DEF f, T
  <2>4. IsFiniteSet(T)
    BY <2>1, <2>2, FS_Surjection
  <2> QED BY <2>3, <2>4
<1> HIDE DEF M
<1>6. \A t \in shares' : \E s \in shares :
          IsShare(t) /\ t.to = s.to /\ t.id = s.id /\ t.path = Moved(s.path, from, to)
  BY <1>1, <1>4
<1>7. SharesTyped'
  BY <1>5, <1>6 DEF SharesTyped
<1> QED BY <1>3, <1>6, <1>7 DEF from, to

\* Grants stay well formed when some are taken away.
LEMMA FewerShares ==
    ASSUME SharesTyped, shares' \subseteq shares
    PROVE  SharesTyped'
BY FS_Subset DEF SharesTyped

LEMMA Revoking ==
    ASSUME NEW p \in Slots, DeleteShares(p) \/ DeleteUser(p) \/ ResetShares(p)
    PROVE  shares' \subseteq shares /\ UNCHANGED <<memory, tree, acked>>
BY DEF DeleteShares, DeleteUser, ResetShares

\* Those that remove directories
LEMMA Removing ==
    ASSUME PathTree(tree), ReqTyped, NEW p \in Slots, DeleteDir(p) \/ Purge(p) \/ Reset(p)
    PROVE  \E top :
              /\ RemoveDirs(top) /\ (IsPath(top) \/ top = <<>>) /\ PathTree(tree')
              /\ top = (IF Reset(p) THEN <<>> ELSE req[p].path)
              /\ UNCHANGED <<memory, shares>>
<1> DEFINE top == IF Reset(p) THEN <<>> ELSE req[p].path
<1>1. RemoveDirs(top) /\ UNCHANGED <<memory, shares>>
  <2>1. CASE Reset(p)
    BY <2>1 DEF Reset
  <2>2. CASE ~Reset(p)
    BY <2>2 DEF DeleteDir, Purge
  <2> QED BY <2>1, <2>2
<1>2. IsPath(top) \/ top = <<>>
  <2>1. ASSUME ~Reset(p)
        PROVE  IsPath(req[p].path)
    <3>1. Busy(p) /\ Head(req[p].todo) \in {"delete", "purge"}
      BY <2>1 DEF DeleteDir, Purge, At
    <3> QED BY <3>1, PathsOf DEF Resets
  <2> QED BY <2>1
<1> HIDE DEF top
<1>3. PathTree(tree')
  <2>1. tree' = Removed(tree, top)
    BY <1>1 DEF RemoveDirs
  <2> DEFINE u == Removed(tree, top)
  <2>2. PathTree(u)
    BY <1>2, RemovedTree
  <2>3. tree' = u
    BY <2>1
  <2> HIDE DEF u
  <2> QED BY <2>2, <2>3
<1> QED BY <1>1, <1>2, <1>3 DEF top

\* The one that renames
LEMMA RenameDirBy ==
    ASSUME PathTree(tree), ReqTyped, NEW p \in Slots, RenameDir(p)
    PROVE  LET from == req[p].path
               to == Renamed(req[p])
           IN  /\ Beside(from, to) /\ Len(from) > 1 /\ PathTree(tree')
               /\ UNCHANGED <<memory, shares, acked>>
               /\ \/ UNCHANGED tree /\ Leave(p)
                  \/ /\ MovesTo(tree, tree', from, to) /\ Advance(p)
                     /\ \A x, y \in DOMAIN tree : Moved(x, from, to) = Moved(y, from, to) => x = y
<1> DEFINE r == req[p]
           from == r.path
           to == Renamed(r)
<1>1. /\ Busy(p) /\ Head(r.todo) = "rename"
      /\ tree' = (IF CanRename(from, to) THEN MovedTree(from, to) ELSE tree)
      /\ Pass(p, CanRename(from, to)) /\ UNCHANGED <<memory, shares, acked>>
  BY DEF RenameDir, Reshape, At
<1>2. Called(r)
  BY <1>1 DEF ReqTyped
<1>3. Beside(from, to) /\ Len(from) > 1
  <2>1. Plan(r.todo) /\ IsPath(from) /\ (Ahead(r, {"rename", "share_paths"}) => Len(from) > 1)
    BY <1>1, <1>2 DEF Called, Resets
  <2>2. Len(r.todo) \in Nat \ {0} /\ Head(r.todo) = r.todo[1]
    BY <2>1, PlanParts
  <2>3. Ahead(r, {"rename", "share_paths"})
    BY <1>1, <2>2 DEF Ahead
  <2> QED BY <2>1, <2>3, RenamedBeside
<1> HIDE DEF from, to
<1>4. CASE ~CanRename(from, to)
  <2>1. tree' = tree /\ Leave(p)
    BY <1>1, <1>4 DEF Pass
  <2> QED BY <1>1, <1>3, <2>1 DEF from, to
<1>5. CASE CanRename(from, to)
  <2> DEFINE u == MovedTree(from, to)
  <2>1. /\ MovesTo(tree, u, from, to) /\ PathTree(u)
        /\ \A x, y \in DOMAIN tree : Moved(x, from, to) = Moved(y, from, to) => x = y
    BY <1>3, <1>5, MovedTreeBy
  <2>2. tree' = u /\ Advance(p)
    BY <1>1, <1>5 DEF Pass
  <2> HIDE DEF u
  <2>3. MovesTo(tree, tree', from, to) /\ PathTree(tree')
    BY <2>1, <2>2
  <2> QED BY <1>1, <1>3, <2>1, <2>2, <2>3 DEF from, to
<1> QED BY <1>4, <1>5

\* Those that grow the tree
LEMMA Growing ==
    ASSUME PathTree(tree), ReqTyped, NEW p \in Slots,
           \/ Init_(p) \/ FolderNew(p) \/ ExomNew(p) \/ ForkNew(p) \/ SessionDir(p) \/ SessionRows(p)
    PROVE  /\ PathTree(tree') /\ UNCHANGED <<memory, shares, acked>>
           /\ ~SessionDir(p) /\ ~SessionRows(p) => Keeps(tree, tree', req[p].id, {})
<1>1. UNCHANGED <<memory, shares, acked>>
  BY DEF Init_, FolderNew, ExomNew, ForkNew, SessionDir, SessionRows, Reshape
<1>2. CASE Init_(p)
  BY <1>1, <1>2, InitTree
<1>3. CASE FolderNew(p)
  BY <1>1, <1>3, FolderTree
<1>4. CASE ExomNew(p) \/ ForkNew(p)
  BY <1>1, <1>4, ExomNewTree
<1>5. CASE SessionDir(p)
  BY <1>1, <1>5, SessionDirTree
<1>6. CASE SessionRows(p)
  BY <1>1, <1>6, SessionRowsTree
<1> QED BY <1>2, <1>3, <1>4, <1>5, <1>6

LEMMA ForkLoadBy ==
    ASSUME NEW p \in Slots, ForkLoad(p)
    PROVE  UNCHANGED <<disk, cache>>
BY DEF ForkLoad

LEMMA ForkInsertBy ==
    ASSUME PathTree(tree), CacheTyped, ReqTyped, NEW p \in Slots, ForkInsert(p)
    PROVE  /\ CacheTyped' /\ UNCHANGED <<disk, env>> /\ IsEntry(req[p].held.entry)
           /\ Sets(cache, cache', req[p].path, req[p].held.entry)
<1> DEFINE path == req[p].path
           entry == req[p].held.entry
<1>1. /\ Busy(p) /\ Head(req[p].todo) = "fork_insert" /\ cache' = Insert(cache, path, entry)
      /\ UNCHANGED <<disk, env>>
  BY DEF ForkInsert, At
<1>2. IsPath(path) /\ IsEntry(entry)
  BY <1>1 DEF ReqTyped, Called, HeldFits, Resets
<1> HIDE DEF path, entry
<1>3. Sets(cache, cache', path, entry)
  BY <1>1, InsertSets
<1>4. CacheOf(cache')
  BY <1>2, <1>3, SetsTyped DEF CacheTyped, CacheOf
<1>5. CacheTyped'
  BY <1>4 DEF CacheTyped, CacheOf
<1> QED BY <1>1, <1>2, <1>3, <1>5 DEF path, entry

\* Every step keeps the types.
LEMMA StepTyped ==
    ASSUME Typed, NEW p \in Slots, Step(p)
    PROVE  Typed'
<1>1. PathTree(tree) /\ CacheTyped /\ SharesTyped /\ ReqTyped
  BY DEF Typed
<1>2. ReqTyped'
  BY <1>1, StepGoes, ReqKept
<1>3. begun' \in 0..MaxRequests /\ crashes' \in 0..MaxCrashes /\ apart' \in BOOLEAN
  BY DEF Step, Typed
<1> DEFINE Fine == PathTree(tree') /\ CacheTyped' /\ SharesTyped'
<1>4. ASSUME \/ GuardRead(p) \/ GuardWrite(p) \/ GuardOwner(p) \/ EvalQueryUnknown(p) \/ ToolEval(p)
           \/ MutateUnknown(p) \/ Precheck(p) \/ Collect(p) \/ ForkCheck(p) \/ Peek(p)
           \/ SnapshotCached(p)
      PROVE  Fine
  <2>1. UNCHANGED <<disk, memory>>
    BY <1>4, Looking
  <2>2. Fine
    BY <1>1, <2>1 DEF disk, memory, CacheTyped, SharesTyped
  <2> QED BY <2>2
<1>5. ASSUME \/ Load(p) \/ Query(p) \/ McpQuery(p) \/ EvalQuery(p) \/ ToolBind(p) \/ Schema(p)
           \/ Derived(p) \/ Snapshot(p)
      PROVE  Fine
  <2>1. Serves(req[p].path) /\ UNCHANGED disk
    BY <1>5, Reading
  <2>2. CacheTyped'
    BY <1>1, <2>1, ServesBy
  <2>3. Fine
    BY <1>1, <2>1, <2>2 DEF disk, SharesTyped
  <2> QED BY <2>3
<1>6. ASSUME \/ Evict(p) \/ Uncache(p) \/ EvictUnder(p) \/ EvictHeld(p) \/ ResetEvict(p)
           \/ EvalRaw(p) \/ Rebind(p)
      PROVE  Fine
  <2>1. Fewer /\ UNCHANGED disk
    BY <1>6, Evicting
  <2>2. CacheTyped'
    BY <1>1, <2>1, FewerBy
  <2>3. Fine
    BY <1>1, <2>1, <2>2 DEF disk, SharesTyped
  <2> QED BY <2>3
<1>7. ASSUME Mutate(p)
      PROVE  Fine
  <2>1. PathTree(tree') /\ CacheTyped'
    BY <1>1, <1>7, MutateBy
  <2>2. SharesTyped'
    BY <1>1, <1>7 DEF Mutate, SharesTyped
  <2> QED BY <2>1, <2>2
<1>8. ASSUME EvalChange(p)
      PROVE  Fine
  <2>1. UNCHANGED shares
    BY <1>8 DEF EvalChange
  <2>2. CASE Fewer /\ UNCHANGED <<tree, acked>>
    <3>1. CacheTyped'
      BY <1>1, <2>2, FewerBy
    <3> QED BY <1>1, <2>1, <2>2, <3>1 DEF SharesTyped
  <2>3. CASE Saves(p, req[p].path)
    <3>1. PathTree(tree') /\ CacheTyped'
      BY <1>1, <2>3, SavesTyped
    <3> QED BY <1>1, <2>1, <3>1 DEF SharesTyped
  <2> QED BY <1>1, <1>8, <2>2, <2>3, EvalChangeBy
<1>9. ASSUME CopyFact(p)
      PROVE  Fine
  <2>1. UNCHANGED shares
    BY <1>9 DEF CopyFact
  <2>2. CASE UNCHANGED <<cache, env, tree, acked>>
    BY <1>1, <2>1, <2>2 DEF SharesTyped, CacheTyped
  <2>3. CASE Saves(p, req[p].held.target)
    <3>1. PathTree(tree') /\ CacheTyped'
      BY <1>1, <2>3, SavesTyped
    <3> QED BY <1>1, <2>1, <3>1 DEF SharesTyped
  <2> QED BY <1>1, <1>9, <2>2, <2>3, CopyFactBy
<1>10. ASSUME \/ Init_(p) \/ FolderNew(p) \/ ExomNew(p) \/ ForkNew(p) \/ SessionDir(p) \/ SessionRows(p)
       PROVE  Fine
  <2>1. PathTree(tree') /\ UNCHANGED <<memory, shares, acked>>
    BY <1>1, <1>10, Growing
  <2> QED BY <1>1, <2>1 DEF memory, CacheTyped, SharesTyped
<1>11. ASSUME RenameDir(p)
       PROVE  Fine
  <2>1. PathTree(tree') /\ UNCHANGED <<memory, shares, acked>>
    BY <1>1, <1>11, RenameDirBy
  <2> QED BY <1>1, <2>1 DEF memory, CacheTyped, SharesTyped
<1>12. ASSUME DeleteDir(p) \/ Purge(p) \/ Reset(p)
       PROVE  Fine
  <2>1. PathTree(tree') /\ UNCHANGED <<memory, shares>>
    BY <1>1, <1>12, Removing
  <2> QED BY <1>1, <2>1 DEF memory, CacheTyped, SharesTyped
<1>13. ASSUME SharePaths(p)
       PROVE  Fine
  <2>1. UNCHANGED <<memory, tree, acked>>
    BY <1>13 DEF SharePaths
  <2>2. SharesTyped'
    BY <1>1, <1>13, SharePathsBy
  <2> QED BY <1>1, <2>1, <2>2 DEF memory, CacheTyped
<1>14. ASSUME DeleteShares(p) \/ DeleteUser(p) \/ ResetShares(p)
       PROVE  Fine
  <2>1. shares' \subseteq shares /\ UNCHANGED <<memory, tree, acked>>
    BY <1>14, Revoking
  <2>2. SharesTyped'
    BY <1>1, <2>1, FewerShares
  <2> QED BY <1>1, <2>1, <2>2 DEF memory, CacheTyped
<1>15. ASSUME ForkLoad(p)
       PROVE  Fine
  <2>1. UNCHANGED <<disk, cache>>
    BY <1>15, ForkLoadBy
  <2> QED BY <1>1, <2>1 DEF disk, CacheTyped, SharesTyped
<1>16. ASSUME ForkInsert(p)
       PROVE  Fine
  <2>1. UNCHANGED disk /\ CacheTyped'
    BY <1>1, <1>16, ForkInsertBy
  <2> QED BY <1>1, <2>1 DEF disk, SharesTyped
<1>17. Fine
  BY <1>4, <1>5, <1>6, <1>7, <1>8, <1>9, <1>10, <1>11, <1>12, <1>13, <1>14, <1>15, <1>16 DEF Step
<1> QED BY <1>2, <1>3, <1>17 DEF Typed

\* The daemon loads what a walk finds.
LEMMA BootedBy ==
    ASSUME NEW t, PathTree(t)
    PROVE  /\ \A path \in DOMAIN Booted(t) : IsPath(path) /\ IsEntry(Booted(t)[path])
           /\ Fits(Booted(t), Bindings(Booted(t)))
           /\ \A path \in DOMAIN Booted(t) :
                 path \in DOMAIN t /\ t[path].kind # "folder" /\ Booted(t)[path].brain = t[path].brain
<1>1. ASSUME NEW path \in Walk(t, <<>>)
      PROVE  /\ IsPath(path) /\ path \in DOMAIN t /\ t[path].kind # "folder"
             /\ IsEntry(FromDisk(t[path].brain)) /\ FromDisk(t[path].brain).brain = t[path].brain
             /\ \E b \in FromDisk(t[path].brain).brain.branches :
                   FromDisk(t[path].brain).datoms = View(FromDisk(t[path].brain).brain, b)
  <2>1. path \in DOMAIN t /\ t[path].kind # "folder"
    BY <1>1 DEF Walk
  <2>2. IsPath(path) /\ IsBrain(t[path].brain)
    BY <2>1, NodeParts
  <2> QED BY <2>1, <2>2, FromDiskBy
<1> QED BY <1>1 DEF Booted, Fits, Bindings

LEMMA InitTyped ==
    ASSUME Init
    PROVE  Typed
<1>1. PICK s \in Starts : tree = s.tree /\ shares = s.shares
  BY DEF Init
<1>2. /\ IsTree(s.tree) /\ IsFiniteSet(s.shares)
      /\ \A path \in DOMAIN s.tree : path \in Seq(STRING)
      /\ \A g \in s.shares :
            /\ g = Share(g.to, g.path, g.permission, g.id)
            /\ g.to \in Users /\ g.permission \in {"read", "read-write"}
            /\ g.path \in DOMAIN s.tree
  BY StartsAssumption
<1>3. PathTree(tree)
  <2>1. \A path \in DOMAIN s.tree : path \in Seq(STRING) /\ path # <<>>
    BY <1>2 DEF IsTree
  <2>2. \A path \in DOMAIN s.tree : IsPath(path)
    BY <2>1, PathOf
  <2> QED BY <1>1, <1>2, <2>2 DEF PathTree
<1>4. SharesTyped
  BY <1>1, <1>2, <1>3 DEF SharesTyped, IsShare, PathTree
<1>5. CacheTyped
  BY <1>3, BootedBy DEF Init, CacheTyped
<1>6. ReqTyped
  BY DEF Init, ReqTyped, Busy, Idle
<1>7. begun \in 0..MaxRequests /\ crashes \in 0..MaxCrashes /\ apart \in BOOLEAN
  <2>1. begun = 0 /\ crashes = 0 /\ apart = FALSE
    BY DEF Init
  <2>2. MaxRequests \in Nat /\ MaxCrashes \in Nat
    BY ExomsAssumption
  <2>3. 0 \in 0..MaxRequests
    BY <2>2
  <2>4. 0 \in 0..MaxCrashes
    BY <2>2
  <2> QED BY <2>1, <2>3, <2>4
<1> QED BY <1>3, <1>4, <1>5, <1>6, <1>7 DEF Typed

LEMMA NextTyped ==
    ASSUME Typed, [Next]_vars
    PROVE  Typed'
<1>1. PathTree(tree) /\ CacheTyped /\ SharesTyped /\ ReqTyped /\ begun \in Nat
  BY ExomsAssumption DEF Typed
<1>2. ASSUME NEW p \in Slots, Begin(p)
      PROVE  Typed'
  <2>1. /\ Others(p) /\ Called(req'[p]) /\ begun' = begun + 1 /\ begun' <= MaxRequests
        /\ UNCHANGED <<disk, memory, crashes, apart>>
    BY <1>1, <1>2, BeginBy
  <2>2. ReqTyped'
    BY <1>1, <2>1 DEF ReqTyped, Others, Busy, Idle
  <2>3. begun' \in 0..MaxRequests
    BY <1>1, <2>1, ExomsAssumption
  <2> QED BY <2>1, <2>2, <2>3 DEF Typed, disk, memory, CacheTyped, SharesTyped
<1>3. ASSUME Restart
      PROVE  Typed'
  <2>1. CacheTyped'
    BY <1>1, <1>3, BootedBy DEF Restart, CacheTyped
  <2>2. ReqTyped'
    BY <1>3 DEF Restart, ReqTyped, Busy, Idle
  <2>3. crashes' \in 0..MaxCrashes /\ apart' \in BOOLEAN
    BY <1>3, ExomsAssumption DEF Restart, Typed
  <2>4. UNCHANGED <<tree, shares, begun>>
    BY <1>3 DEF Restart, disk
  <2> QED BY <2>1, <2>2, <2>3, <2>4 DEF Typed, SharesTyped
<1>4. ASSUME UNCHANGED vars
      PROVE  Typed'
  BY <1>4 DEF vars, Typed, CacheTyped, SharesTyped, ReqTyped, Busy, Idle
<1> QED BY <1>2, <1>3, <1>4, StepTyped DEF Next

LEMMA TypedIs ==
    ASSUME Typed
    PROVE  TypeOK
<1>1. IsTree(tree)
  BY DEF Typed, PathTree
<1>2. \A path \in DOMAIN cache : IsBrain(cache[path].brain)
  BY DEF Typed, CacheTyped, IsEntry
<1>3. \A p \in Slots : Busy(p) => req[p].todo # <<>> /\ req[p].user \in Users
  BY PlanParts DEF Typed, ReqTyped, Called, IsRequest
<1>4. {s.to : s \in shares} \subseteq Users
  BY DEF Typed, SharesTyped, IsShare
<1> QED BY <1>1, <1>2, <1>3, <1>4 DEF Typed, TypeOK, ReqTyped

\* The tree is one, brains have their main branch and rows on branches they have, the cached
\* ones too, and requests in progress have a step left, whatever handlers interleave.
THEOREM ExomsTyped == Spec => []TypeOK
<1>1. Init => Typed
  BY InitTyped
<1>2. Typed /\ [Next]_vars => Typed'
  BY NextTyped
<1>3. Typed => TypeOK
  BY TypedIs
<1> QED BY <1>1, <1>2, <1>3, PTL DEF Spec

-----------------------------------------------------------------------------
(* What a step leads to *)

\* The step that each action takes
LEMMA Heads ==
    ASSUME NEW p
    PROVE  /\ GuardRead(p) => At(p, "guard_read")
           /\ GuardWrite(p) => At(p, "guard_write")
           /\ GuardOwner(p) => At(p, "guard_owner")
           /\ Load(p) => At(p, "load")
           /\ Query(p) => At(p, "query")
           /\ McpQuery(p) => At(p, "mcp_query")
           /\ EvalQuery(p) => At(p, "eval_query")
           /\ EvalQueryUnknown(p) => At(p, "eval_query")
           /\ EvalRaw(p) => At(p, "eval_raw")
           /\ ToolBind(p) => At(p, "tool_bind")
           /\ ToolEval(p) => At(p, "tool_eval")
           /\ Schema(p) => At(p, "schema")
           /\ Derived(p) => At(p, "derived")
           /\ Rebind(p) => At(p, "rebind")
           /\ Precheck(p) => At(p, "precheck")
           /\ Evict(p) => At(p, "evict")
           /\ Uncache(p) => At(p, "uncache")
           /\ Init_(p) => At(p, "init")
           /\ FolderNew(p) => At(p, "folder_new")
           /\ ExomNew(p) => At(p, "exom_new")
           /\ SessionDir(p) => At(p, "session_dir")
           /\ SessionRows(p) => At(p, "session_rows")
           /\ RenameDir(p) => At(p, "rename")
           /\ EvictUnder(p) => At(p, "evict_under")
           /\ SharePaths(p) => At(p, "share_paths")
           /\ Collect(p) => At(p, "collect")
           /\ EvictHeld(p) => At(p, "evict_held")
           /\ DeleteDir(p) => At(p, "delete")
           /\ DeleteShares(p) => At(p, "delete_shares")
           /\ DeleteUser(p) => At(p, "delete_user")
           /\ Purge(p) => At(p, "purge")
           /\ ResetEvict(p) => At(p, "reset_evict")
           /\ Reset(p) => At(p, "reset")
           /\ ResetShares(p) => At(p, "reset_shares")
           /\ ForkCheck(p) => At(p, "fork_check")
           /\ Snapshot(p) => At(p, "snapshot")
           /\ Peek(p) => At(p, "peek")
           /\ ForkLoad(p) => At(p, "fork_load")
           /\ ForkInsert(p) => At(p, "fork_insert")
           /\ SnapshotCached(p) => At(p, "snapshot_cached")
           /\ ForkNew(p) => At(p, "fork_new")
           /\ CopyFact(p) => At(p, "copy")
           /\ Mutate(p) \/ MutateUnknown(p) =>
                 \E step \in {"assert", "retract", "retract_all", "wipe", "import"} : At(p, step)
           /\ EvalChange(p) => \E step \in {"eval_assert", "eval_retract", "eval_rule"} : At(p, step)
<1>1. /\ GuardRead(p) => At(p, "guard_read")
      /\ GuardWrite(p) => At(p, "guard_write")
      /\ GuardOwner(p) => At(p, "guard_owner")
      /\ Load(p) => At(p, "load")
      /\ Query(p) => At(p, "query")
      /\ McpQuery(p) => At(p, "mcp_query")
  BY DEF GuardRead, GuardWrite, GuardOwner, Load, Query, McpQuery, Guard
<1>2. /\ EvalQuery(p) => At(p, "eval_query")
      /\ EvalQueryUnknown(p) => At(p, "eval_query")
      /\ EvalRaw(p) => At(p, "eval_raw")
      /\ ToolBind(p) => At(p, "tool_bind")
      /\ ToolEval(p) => At(p, "tool_eval")
      /\ Schema(p) => At(p, "schema")
  BY DEF EvalQuery, EvalQueryUnknown, EvalRaw, ToolBind, ToolEval, Schema
<1>3. /\ Derived(p) => At(p, "derived")
      /\ Rebind(p) => At(p, "rebind")
      /\ Precheck(p) => At(p, "precheck")
      /\ Evict(p) => At(p, "evict")
      /\ Uncache(p) => At(p, "uncache")
      /\ Init_(p) => At(p, "init")
  BY DEF Derived, Rebind, Precheck, Evict, Uncache, Init_, Reshape
<1>4. /\ FolderNew(p) => At(p, "folder_new")
      /\ ExomNew(p) => At(p, "exom_new")
      /\ SessionDir(p) => At(p, "session_dir")
      /\ SessionRows(p) => At(p, "session_rows")
      /\ RenameDir(p) => At(p, "rename")
      /\ EvictUnder(p) => At(p, "evict_under")
  BY DEF FolderNew, ExomNew, SessionDir, SessionRows, RenameDir, EvictUnder, Reshape
<1>5. /\ SharePaths(p) => At(p, "share_paths")
      /\ Collect(p) => At(p, "collect")
      /\ EvictHeld(p) => At(p, "evict_held")
      /\ DeleteDir(p) => At(p, "delete")
      /\ DeleteShares(p) => At(p, "delete_shares")
      /\ DeleteUser(p) => At(p, "delete_user")
  BY DEF SharePaths, Collect, EvictHeld, DeleteDir, DeleteShares, DeleteUser
<1>6. /\ Purge(p) => At(p, "purge")
      /\ ResetEvict(p) => At(p, "reset_evict")
      /\ Reset(p) => At(p, "reset")
      /\ ResetShares(p) => At(p, "reset_shares")
      /\ ForkCheck(p) => At(p, "fork_check")
      /\ Snapshot(p) => At(p, "snapshot")
  BY DEF Purge, ResetEvict, Reset, ResetShares, ForkCheck, Snapshot
<1>7. /\ Peek(p) => At(p, "peek")
      /\ ForkLoad(p) => At(p, "fork_load")
      /\ ForkInsert(p) => At(p, "fork_insert")
      /\ SnapshotCached(p) => At(p, "snapshot_cached")
      /\ ForkNew(p) => At(p, "fork_new")
      /\ CopyFact(p) => At(p, "copy")
  BY DEF Peek, ForkLoad, ForkInsert, SnapshotCached, ForkNew, CopyFact, Reshape
<1>8. Mutate(p) \/ MutateUnknown(p) =>
        \E step \in {"assert", "retract", "retract_all", "wipe", "import"} : At(p, step)
  BY DEF Mutate, MutateUnknown
<1>9. EvalChange(p) => \E step \in {"eval_assert", "eval_retract", "eval_rule"} : At(p, step)
  BY DEF EvalChange
<1> QED BY <1>1, <1>2, <1>3, <1>4, <1>5, <1>6, <1>7, <1>8, <1>9

\* The actions that a step may be
LEMMA Labels ==
    ASSUME NEW p \in Slots, Step(p)
    PROVE  /\ At(p, "rename") => RenameDir(p)
           /\ At(p, "evict_under") => EvictUnder(p)
           /\ At(p, "share_paths") => SharePaths(p)
           /\ At(p, "collect") => Collect(p)
           /\ At(p, "evict_held") => EvictHeld(p)
           /\ At(p, "delete") => DeleteDir(p)
           /\ At(p, "delete_shares") => DeleteShares(p)
           /\ At(p, "delete_user") => DeleteUser(p)
           /\ At(p, "purge") => Purge(p)
           /\ At(p, "reset_evict") => ResetEvict(p)
           /\ At(p, "reset") => Reset(p)
           /\ At(p, "reset_shares") => ResetShares(p)
           /\ At(p, "session_dir") => SessionDir(p)
           /\ At(p, "session_rows") => SessionRows(p)
           /\ At(p, "peek") => Peek(p)
           /\ At(p, "fork_load") => ForkLoad(p)
           /\ At(p, "fork_insert") => ForkInsert(p)
<1>1. \A a, b : At(p, a) /\ At(p, b) => a = b
  BY DEF At
<1>2. \/ GuardRead(p) \/ GuardWrite(p) \/ GuardOwner(p)
      \/ Load(p) \/ Query(p) \/ McpQuery(p) \/ EvalQuery(p) \/ EvalQueryUnknown(p)
      \/ EvalRaw(p) \/ ToolBind(p) \/ ToolEval(p) \/ Schema(p) \/ Derived(p)
      \/ Mutate(p) \/ MutateUnknown(p) \/ Rebind(p) \/ EvalChange(p) \/ Precheck(p)
      \/ Evict(p) \/ Uncache(p)
      \/ Init_(p) \/ FolderNew(p) \/ ExomNew(p) \/ SessionDir(p) \/ SessionRows(p)
      \/ RenameDir(p) \/ EvictUnder(p) \/ SharePaths(p)
      \/ Collect(p) \/ EvictHeld(p) \/ DeleteDir(p) \/ DeleteShares(p)
      \/ DeleteUser(p) \/ Purge(p) \/ ResetEvict(p) \/ Reset(p) \/ ResetShares(p)
      \/ ForkCheck(p) \/ Snapshot(p) \/ Peek(p) \/ ForkLoad(p) \/ ForkInsert(p)
      \/ SnapshotCached(p) \/ ForkNew(p) \/ CopyFact(p)
  BY DEF Step
<1> QED BY <1>1, <1>2, Heads

\* What a step leaves of its request, and of the others
LEMMA After ==
    ASSUME Typed, NEW p \in Slots, Step(p)
    PROVE  /\ Busy(p) /\ Called(req[p]) /\ Others(p)
           /\ \A s : At(p, s)' => /\ Follows(Head(req[p].todo), s) /\ SameCall(req[p], req'[p])
                                  /\ \E n : Drops(req[p], req'[p], n)
           /\ \A q \in Slots \ {p} : req'[q] = req[q] /\ \A s : At(q, s)' <=> At(q, s)
<1>1. PathTree(tree) /\ ReqTyped
  BY DEF Typed
<1>2. Busy(p) /\ (Done(p) \/ GoesOn(p))
  BY <1>1, StepGoes
<1>3. Called(req[p]) /\ Others(p)
  BY <1>1, <1>2 DEF ReqTyped, GoesOn, Goes, Done
<1>4. ASSUME NEW s, At(p, s)'
      PROVE  /\ Follows(Head(req[p].todo), s) /\ SameCall(req[p], req'[p])
             /\ \E n : Drops(req[p], req'[p], n)
  <2>1. req'[p] # Nothing /\ Head(req'[p].todo) = s
    BY <1>4 DEF At, Busy, Idle
  <2>2. SameCall(req[p], req'[p]) /\ \E n : Drops(req[p], req'[p], n)
    BY <1>2, <2>1 DEF Done, GoesOn, Goes
  <2>3. Plan(req[p].todo)
    BY <1>3 DEF Called
  <2>4. Follows(Head(req[p].todo), Head(req'[p].todo))
    <3> DEFINE s1 == req'[p]
    <3>1. PICK n : Drops(req[p], s1, n)
      BY <2>2
    <3> HIDE DEF s1
    <3>2. Follows(Head(req[p].todo), Head(s1.todo))
      BY <2>3, <3>1, DropsBy
    <3> QED BY <3>2 DEF s1
  <2> QED BY <2>1, <2>2, <2>4
<1>5. ASSUME NEW q \in Slots \ {p}
      PROVE  req'[q] = req[q] /\ \A s : At(q, s)' <=> At(q, s)
  BY <1>3 DEF Others, At, Busy, Idle
<1> QED BY <1>2, <1>3, <1>4, <1>5

\* Steps that are still ahead were ahead before.
LEMMA AheadAfter ==
    ASSUME Typed, NEW p \in Slots, Step(p), Busy(p)', NEW steps, Ahead(req'[p], steps)
    PROVE  Ahead(req[p], steps)
<1>1. PathTree(tree) /\ ReqTyped
  BY DEF Typed
<1>2. Busy(p) /\ (Done(p) \/ GoesOn(p))
  BY <1>1, StepGoes
<1> DEFINE s == req'[p]
<1>3. PICK n : Drops(req[p], s, n)
  BY <1>2 DEF Done, GoesOn, Goes, Busy, Idle
<1>4. Plan(req[p].todo)
  BY <1>1, <1>2 DEF ReqTyped, Called
<1>5. Ahead(s, steps)
  OBVIOUS
<1> HIDE DEF s
<1> QED BY <1>3, <1>4, <1>5, AheadOn

\* The step itself is ahead.
LEMMA AtAhead ==
    ASSUME Typed, NEW p \in Slots, NEW steps, \E s \in steps : At(p, s)
    PROVE  Ahead(req[p], steps)
<1>1. PICK s \in steps : At(p, s)
  OBVIOUS
<1>2. Plan(req[p].todo) /\ Head(req[p].todo) = s
  BY <1>1 DEF Typed, ReqTyped, Called, At
<1>3. Len(req[p].todo) \in Nat \ {0} /\ req[p].todo[1] = s
  BY <1>2, PlanParts
<1> QED BY <1>3 DEF Ahead

-----------------------------------------------------------------------------
(* Each request has numbers of its own. *)

Numbered ==
    /\ \A p \in Slots : Busy(p) => \E k \in 0..(begun - 1) : req[p].id = FirstId + 2 * k
    /\ \A p, q \in Slots : Busy(p) /\ Busy(q) /\ p # q => req[p].id # req[q].id

\* No number is in use that a request is still to give out.
LEMMA StepNumbered ==
    ASSUME Typed, Numbered, NEW p \in Slots, Step(p)
    PROVE  Numbered'
<1>1. PathTree(tree) /\ ReqTyped /\ UNCHANGED begun
  BY DEF Typed, Step
<1>2. Busy(p) /\ (Done(p) \/ GoesOn(p))
  BY <1>1, StepGoes
<1>3. \A q \in Slots : Busy(q)' => Busy(q) /\ req'[q].id = req[q].id
  BY <1>2 DEF Done, GoesOn, Goes, SameCall, Others, Busy, Idle
<1> QED BY <1>1, <1>3 DEF Numbered

LEMMA BeginNumbered ==
    ASSUME Typed, Numbered, NEW p \in Slots, Begin(p)
    PROVE  Numbered'
<1>1. PathTree(tree) /\ ReqTyped /\ CacheTyped /\ begun \in Nat /\ FirstId \in Nat
  BY ExomsAssumption DEF Typed
<1>2. Others(p) /\ req'[p].id = FirstId + 2 * begun /\ begun' = begun + 1
  BY <1>1, BeginBy
<1>3. \A q \in Slots \ {p} : Busy(q)' => Busy(q) /\ req'[q].id = req[q].id
  BY <1>2 DEF Others, Busy, Idle
<1>4. \A q \in Slots \ {p} : Busy(q)' => \E k \in 0..(begun - 1) : req'[q].id = FirstId + 2 * k
  BY <1>3 DEF Numbered
<1>5. ASSUME NEW q \in Slots \ {p}, Busy(q)'
      PROVE  \E k \in 0..(begun' - 1) : req'[q].id = FirstId + 2 * k
  <2>1. PICK k \in 0..(begun - 1) : req'[q].id = FirstId + 2 * k
    BY <1>4, <1>5
  <2>2. k \in 0..(begun' - 1)
    BY <1>1, <1>2
  <2> QED BY <2>1, <2>2
<1>6. \E k \in 0..(begun' - 1) : req'[p].id = FirstId + 2 * k
  <2>1. begun \in 0..(begun' - 1)
    BY <1>1, <1>2
  <2> QED BY <1>2, <2>1
<1>7. ASSUME NEW q \in Slots \ {p}, Busy(q)'
      PROVE  req'[q].id # req'[p].id
  <2>1. PICK k \in 0..(begun - 1) : req'[q].id = FirstId + 2 * k
    BY <1>4, <1>7
  <2>2. FirstId + 2 * k # FirstId + 2 * begun
    BY <1>1
  <2> QED BY <1>2, <2>1, <2>2
<1>8. \A q \in Slots : Busy(q)' => \E k \in 0..(begun' - 1) : req'[q].id = FirstId + 2 * k
  BY <1>5, <1>6
<1>9. \A q, s \in Slots : Busy(q)' /\ Busy(s)' /\ q # s => req'[q].id # req'[s].id
  BY <1>3, <1>7 DEF Numbered
<1> QED BY <1>8, <1>9 DEF Numbered

-----------------------------------------------------------------------------
(* A request that deletes an account has dropped its grants. *)

AccountsFirst ==
    \A p \in Slots : At(p, "purge") => \A s \in shares : s.path[1] # req[p].path[1]

\* Only the rename's last step changes a grant; others take grants away at most.
LEMMA SharesAfter ==
    ASSUME Typed, NEW p \in Slots, Step(p)
    PROVE  shares' \subseteq shares \/ SharePaths(p)
<1>1. UNCHANGED disk => UNCHANGED shares
  BY DEF disk
<1>2. CASE \/ GuardRead(p) \/ GuardWrite(p) \/ GuardOwner(p) \/ EvalQueryUnknown(p) \/ ToolEval(p)
           \/ MutateUnknown(p) \/ Precheck(p) \/ Collect(p) \/ ForkCheck(p) \/ Peek(p)
           \/ SnapshotCached(p)
  BY <1>1, <1>2, Looking
<1>3. CASE \/ Load(p) \/ Query(p) \/ McpQuery(p) \/ EvalQuery(p) \/ ToolBind(p) \/ Schema(p)
           \/ Derived(p) \/ Snapshot(p)
  BY <1>1, <1>3, Reading
<1>4. CASE \/ Evict(p) \/ Uncache(p) \/ EvictUnder(p) \/ EvictHeld(p) \/ ResetEvict(p)
           \/ EvalRaw(p) \/ Rebind(p)
  BY <1>1, <1>4, Evicting
<1>5. CASE Mutate(p) \/ EvalChange(p) \/ CopyFact(p)
  BY <1>5 DEF Mutate, EvalChange, CopyFact
<1>6. CASE \/ Init_(p) \/ FolderNew(p) \/ ExomNew(p) \/ ForkNew(p) \/ SessionDir(p) \/ SessionRows(p)
           \/ RenameDir(p)
  BY <1>6 DEF Init_, FolderNew, ExomNew, ForkNew, SessionDir, SessionRows, RenameDir, Reshape
<1>7. CASE DeleteDir(p) \/ Purge(p) \/ Reset(p) \/ ForkLoad(p) \/ ForkInsert(p)
  BY <1>1, <1>7 DEF DeleteDir, Purge, Reset, ForkLoad, ForkInsert
<1>8. CASE DeleteShares(p) \/ DeleteUser(p) \/ ResetShares(p)
  BY <1>8, Revoking
<1> QED BY <1>2, <1>3, <1>4, <1>5, <1>6, <1>7, <1>8 DEF Step

\* A deleted account has no grants left when its directories are purged.
LEMMA StepAccounts ==
    ASSUME Typed, AccountsFirst, NEW p \in Slots, Step(p)
    PROVE  AccountsFirst'
<1>1. ASSUME At(p, "purge")'
      PROVE  \A s \in shares' : s.path[1] # req'[p].path[1]
  <2>1. Follows(Head(req[p].todo), "purge") /\ SameCall(req[p], req'[p]) /\ Busy(p)
    BY <1>1, After
  <2>2. At(p, "delete_user")
    BY <2>1 DEF Follows, Leads, At
  <2>3. DeleteUser(p)
    BY <2>2, Labels
  <2>4. \A s \in shares' : s.path[1] # req[p].path[1]
    BY <2>3 DEF DeleteUser
  <2> QED BY <2>1, <2>4 DEF SameCall
<1>2. ASSUME NEW q \in Slots \ {p}, At(q, "purge")'
      PROVE  \A s \in shares' : s.path[1] # req'[q].path[1]
  <2>1. req'[q] = req[q] /\ \A s \in shares : s.path[1] # req[q].path[1]
    BY <1>2, After DEF AccountsFirst
  <2>2. CASE SharePaths(p)
    <3>1. TAKE t \in shares'
    <3>2. /\ Beside(req[p].path, Renamed(req[p])) /\ Len(req[p].path) > 1
          /\ \E s \in shares : t.path = Moved(s.path, req[p].path, Renamed(req[p]))
      BY <2>2, SharePathsBy DEF Typed
    <3>3. PICK s \in shares : t.path = Moved(s.path, req[p].path, Renamed(req[p]))
      BY <3>2
    <3>4. IsPath(s.path)
      BY DEF Typed, SharesTyped, IsShare
    <3>5. t.path[1] = s.path[1]
      BY <3>2, <3>3, <3>4, MovedFirst
    <3> QED BY <2>1, <3>5
  <2> QED BY <2>1, <2>2, SharesAfter
<1> QED BY <1>1, <1>2 DEF AccountsFirst

-----------------------------------------------------------------------------
(* What is so until something is set apart *)

\* The number of an id; ids of directories that are there differ, and a request has not used
\* the numbers of directories it is still to make.
Number(x) == tree[x].id[1]

IdsDiffer ==
    /\ \A x \in DOMAIN tree : Number(x) \in 0..(FirstId + 2 * begun - 1)
    /\ \A x, y \in DOMAIN tree : tree[x].id = tree[y].id => x = y
    /\ \A p \in Slots : Busy(p) =>
          /\ Ahead(req[p], Makers) => \A x \in DOMAIN tree : Number(x) # req[p].id
          /\ Ahead(req[p], {"session_rows"}) => \A x \in DOMAIN tree : Number(x) # req[p].id + 1

\* A handler that has moved or removed the directory is about to evict the exom.
Leaving(path) == \E q \in Slots : At(q, "evict_under") /\ Under(path, req[q].path)

OnDisk(path) == IsExom(path) /\ cache[path].brain = tree[path].brain

CacheFollows == \A path \in DOMAIN cache : OnDisk(path) \/ Leaving(path)

\* What a handler has found or left between two of its steps
WindowOf(q) ==
    LET r == req[q]
    IN  /\ At(q, "evict_held") => \A path \in DOMAIN cache :
              Under(path, r.path) => path \in r.held \/ Nested(path) \/ Leaving(path)
        /\ At(q, "delete") => \A path \in DOMAIN cache :
              Under(path, r.path) => Nested(path) \/ Leaving(path)
        /\ At(q, "reset") => DOMAIN cache = {}
        /\ At(q, "session_rows") => SessionPath(r) \notin DOMAIN cache \/ Leaving(SessionPath(r))
        /\ At(q, "fork_load") => r.path \notin DOMAIN cache
        /\ At(q, "fork_insert") =>
              /\ r.path \notin DOMAIN cache /\ IsExom(r.path)
              /\ r.held.entry = FromDisk(tree[r.path].brain)
              /\ r.path \in DOMAIN env /\ env[r.path] = r.held.entry.datoms

Windows == \A q \in Slots : WindowOf(q)

Kept == \A a \in acked : \E path \in DOMAIN tree : tree[path].id = a.id /\ a.row \in tree[path].brain.rows

\* The directory of a grant, wherever it is
Placed(s, path) == There(path) /\ tree[path].id = s.id

GrantOf(q) ==
    LET r == req[q]
    IN  /\ At(q, "share_paths") \/ (At(q, "evict_under") /\ Len(r.todo) = 2) =>
              \A s \in shares : Placed(s, Moved(s.path, r.path, Renamed(r)))
        /\ At(q, "evict_under") /\ Len(r.todo) = 1 => \A s \in shares : Placed(s, s.path)
        /\ At(q, "delete_shares") => \A s \in shares : Under(s.path, r.path) \/ Placed(s, s.path)

GrantsFollow ==
    /\ \A p, q \in Slots : Moving(p) /\ Moving(q) => p = q
    /\ (\A q \in Slots : ~Moving(q)) => \A s \in shares : Placed(s, s.path)
    /\ \A q \in Slots : GrantOf(q)

InStep == IdsDiffer /\ CacheFollows /\ Fits(cache, env) /\ Windows /\ Kept /\ GrantsFollow

-----------------------------------------------------------------------------
(* Ids *)

\* No new id
LEMMA IdsFewer ==
    ASSUME Typed, IdsDiffer, NEW p \in Slots, Step(p),
           \A x \in DOMAIN tree' : \E y \in DOMAIN tree : tree'[x].id = tree[y].id,
           \A x, y \in DOMAIN tree' : tree'[x].id = tree'[y].id => x = y
    PROVE  IdsDiffer'
<1>1. UNCHANGED begun
  BY DEF Step
<1>2. \A x \in DOMAIN tree' : \E y \in DOMAIN tree : tree'[x].id[1] = Number(y)
  BY DEF Number
<1>3. \A x \in DOMAIN tree' : tree'[x].id[1] \in 0..(FirstId + 2 * begun - 1)
  BY <1>2 DEF IdsDiffer
<1>4. ASSUME NEW q \in Slots, Busy(q)'
      PROVE  /\ Ahead(req'[q], Makers) => \A x \in DOMAIN tree' : tree'[x].id[1] # req'[q].id
             /\ Ahead(req'[q], {"session_rows"}) =>
                   \A x \in DOMAIN tree' : tree'[x].id[1] # req'[q].id + 1
  <2>1. Busy(q) /\ req'[q].id = req[q].id /\ \A steps : Ahead(req'[q], steps) => Ahead(req[q], steps)
    <3>1. CASE q = p
      <4>1. PathTree(tree) /\ ReqTyped
        BY DEF Typed
      <4>2. Busy(p) /\ (Done(p) \/ GoesOn(p))
        BY <4>1, StepGoes
      <4>3. req'[p].id = req[p].id
        BY <1>4, <3>1, <4>2 DEF Done, GoesOn, Goes, SameCall, Busy, Idle
      <4> QED BY <1>4, <3>1, <4>2, <4>3, AheadAfter
    <3>2. CASE q # p
      BY <1>4, <3>2, After DEF Busy, Idle
    <3> QED BY <3>1, <3>2
  <2> QED BY <1>2, <2>1 DEF IdsDiffer
<1> QED BY <1>1, <1>3, <1>4 DEF IdsDiffer, Number

\* Ids differ after steps that make no directory.
LEMMA IdsSame ==
    ASSUME Typed, IdsDiffer, NEW p \in Slots, Step(p), DOMAIN tree' = DOMAIN tree,
           \A x \in DOMAIN tree : tree'[x].id = tree[x].id
    PROVE  IdsDiffer'
<1>1. \A x, y \in DOMAIN tree' : tree'[x].id = tree'[y].id => x = y
  BY DEF IdsDiffer
<1> QED BY <1>1, IdsFewer

\* A handler makes directories with just one of its steps, but a session with two.
LEMMA MakersPlan ==
    ASSUME NEW t, Plan(t), Head(t) \in Makers \union {"session_rows"}
    PROVE  \A i \in 2..Len(t) : t[i] \notin Makers /\ (t[i] = "session_rows" => Head(t) = "session_dir")
<1>1. Len(t) \in Nat \ {0} /\ Head(t) = t[1]
  BY PlanParts
<1>2. \A i \in 1..(Len(t) - 1) : Leads(t[i], t[i + 1])
  BY DEF Plan
<1>3. ASSUME Len(t) > 1
      PROVE  Leads(t[1], t[2])
  <2>1. 1 \in 1..(Len(t) - 1)
    BY <1>1, <1>3
  <2> QED BY <1>2, <2>1
<1>4. ASSUME Len(t) > 2
      PROVE  Leads(t[2], t[3])
  <2>1. 2 \in 1..(Len(t) - 1)
    BY <1>1, <1>4
  <2> QED BY <1>2, <2>1
<1>5. Len(t) > 1 => t[2] \in {"session_rows", "copy"} /\ (t[2] = "session_rows" => Head(t) = "session_dir")
  BY <1>1, <1>3 DEF Leads, Makers
<1>6. ~(Len(t) > 2)
  <2>1. Len(t) > 2 => Len(t) > 1
    BY <1>1
  <2> QED BY <1>4, <1>5, <2>1 DEF Leads
<1>7. \A i \in 2..Len(t) : i = 2 /\ Len(t) > 1
  BY <1>1, <1>6
<1> QED BY <1>5, <1>7 DEF Makers

\* Ids differ after steps that make one, with the number of its request.
LEMMA IdsGrow ==
    ASSUME Typed, Numbered, IdsDiffer, NEW p \in Slots, Step(p), NEW n, NEW S, Keeps(tree, tree', n, S),
           \/ n = req[p].id /\ \E s \in Makers : At(p, s)
           \/ n = req[p].id + 1 /\ At(p, "session_rows")
    PROVE  IdsDiffer'
<1>1. UNCHANGED begun /\ begun \in Nat /\ FirstId \in Nat
  BY ExomsAssumption DEF Step, Typed
<1>2. Busy(p) /\ Called(req[p]) /\ Plan(req[p].todo) /\ Head(req[p].todo) \in Makers \union {"session_rows"}
  BY After DEF Called, At
<1>3. PICK k \in 0..(begun - 1) : req[p].id = FirstId + 2 * k
  BY <1>2 DEF Numbered
<1>4. n \in 0..(FirstId + 2 * begun - 1)
  <2>1. n = FirstId + 2 * k \/ n = FirstId + 2 * k + 1
    BY <1>3
  <2> QED BY <1>1, <2>1
<1>5. \A x \in DOMAIN tree : Number(x) # n
  <2>1. (\E s \in Makers : At(p, s)) => Ahead(req[p], Makers)
    BY AtAhead
  <2>2. At(p, "session_rows") => Ahead(req[p], {"session_rows"})
    BY AtAhead
  <2> QED BY <1>2, <2>1, <2>2 DEF IdsDiffer
<1>6. \A x \in DOMAIN tree' :
          \/ x \in DOMAIN tree /\ tree'[x].id = tree[x].id
          \/ x \notin DOMAIN tree /\ tree'[x].id = <<n, x>>
  BY DEF Keeps
<1>7. \A x : <<n, x>>[1] = n /\ <<n, x>>[2] = x
  OBVIOUS
<1>8. \A x \in DOMAIN tree' : tree'[x].id[1] \in 0..(FirstId + 2 * begun - 1)
  BY <1>4, <1>6, <1>7 DEF IdsDiffer, Number
<1>9. ASSUME NEW x \in DOMAIN tree', NEW y \in DOMAIN tree', tree'[x].id = tree'[y].id
      PROVE  x = y
  <2>1. CASE x \in DOMAIN tree /\ y \in DOMAIN tree
    BY <1>6, <1>9, <2>1 DEF IdsDiffer
  <2>2. CASE x \notin DOMAIN tree /\ y \notin DOMAIN tree
    BY <1>6, <1>7, <1>9, <2>2
  <2>3. CASE x \in DOMAIN tree /\ y \notin DOMAIN tree
    BY <1>5, <1>6, <1>7, <1>9, <2>3 DEF Number
  <2>4. CASE x \notin DOMAIN tree /\ y \in DOMAIN tree
    BY <1>5, <1>6, <1>7, <1>9, <2>4 DEF Number
  <2> QED BY <2>1, <2>2, <2>3, <2>4
<1>10. \A m : (\A x \in DOMAIN tree : Number(x) # m) /\ n # m => \A x \in DOMAIN tree' : tree'[x].id[1] # m
  BY <1>6, <1>7 DEF Number
<1>11. ASSUME Busy(p)'
       PROVE  /\ ~Ahead(req'[p], Makers)
              /\ Ahead(req'[p], {"session_rows"}) => \A x \in DOMAIN tree' : tree'[x].id[1] # req'[p].id + 1
  <2> DEFINE s == req'[p]
             t == req[p].todo
  <2>1. PathTree(tree) /\ ReqTyped
    BY DEF Typed
  <2>2. Done(p) \/ GoesOn(p)
    BY <2>1, StepGoes
  <2>3. PICK m : Drops(req[p], s, m)
    BY <1>11, <2>2 DEF Done, GoesOn, Goes, Busy, Idle
  <2>4. s.id = req[p].id
    BY <1>11, <2>2 DEF Done, GoesOn, Goes, Busy, Idle, SameCall
  <2>5. m = 1
    BY <1>2, <2>3 DEF Drops, Makers
  <2> HIDE DEF s
  <2>6. Plan(t) /\ Len(t) \in Nat \ {0}
    BY <1>2, PlanParts
  <2>7. Len(s.todo) = Len(t) - 1 /\ \A i \in 1..(Len(t) - 1) : s.todo[i] = t[1 + i]
    <3> DEFINE r == req[p]
    <3>1. Plan(r.todo) /\ Drops(r, s, m)
      BY <1>2, <2>3
    <3> HIDE DEF r
    <3>2. Len(s.todo) = Len(r.todo) - m /\ \A i \in 1..(Len(r.todo) - m) : s.todo[i] = r.todo[m + i]
      BY <3>1, DropsBy
    <3> QED BY <2>5, <3>2 DEF r
  <2>8. \A i \in 2..Len(t) : t[i] \notin Makers /\ (t[i] = "session_rows" => Head(t) = "session_dir")
    BY <1>2, MakersPlan
  <2> HIDE DEF t
  <2>9. \A i \in 1..Len(s.todo) : 1 + i \in 2..Len(t) /\ s.todo[i] = t[1 + i]
    BY <2>6, <2>7
  <2>10. ~Ahead(s, Makers)
    BY <2>8, <2>9 DEF Ahead
  <2>11. ASSUME Ahead(s, {"session_rows"})
         PROVE  \A x \in DOMAIN tree' : tree'[x].id[1] # s.id + 1
    <3>1. Head(t) = "session_dir"
      BY <2>8, <2>9, <2>11 DEF Ahead
    <3>2. n = req[p].id
      BY <3>1 DEF At, t
    <3>3. Ahead(req[p], {"session_rows"})
      BY <1>2, <2>3, <2>11, AheadOn
    <3>4. \A x \in DOMAIN tree : Number(x) # req[p].id + 1
      BY <1>2, <3>3 DEF IdsDiffer
    <3>5. n # req[p].id + 1
      BY <1>1, <1>3, <3>2
    <3> QED BY <1>10, <2>4, <3>4, <3>5
  <2> QED BY <2>10, <2>11 DEF s
<1>12. ASSUME NEW q \in Slots \ {p}, Busy(q)'
       PROVE  /\ Ahead(req'[q], Makers) => \A x \in DOMAIN tree' : tree'[x].id[1] # req'[q].id
              /\ Ahead(req'[q], {"session_rows"}) =>
                    \A x \in DOMAIN tree' : tree'[x].id[1] # req'[q].id + 1
  <2>1. Busy(q) /\ req'[q] = req[q]
    BY <1>12, After DEF Busy, Idle
  <2>2. PICK j \in 0..(begun - 1) : req[q].id = FirstId + 2 * j
    BY <2>1 DEF Numbered
  <2>3. req[q].id # req[p].id
    BY <1>2, <2>1 DEF Numbered
  <2>4. n # req[q].id /\ (Ahead(req[q], {"session_rows"}) => n # req[q].id + 1)
    <3>1. k # j
      BY <1>3, <2>2, <2>3
    <3>2. n = FirstId + 2 * k \/ n = FirstId + 2 * k + 1
      BY <1>3
    <3>3. n # FirstId + 2 * j /\ n # FirstId + 2 * j + 1
      BY <1>1, <3>1, <3>2
    <3> QED BY <2>2, <3>3
  <2> QED BY <1>10, <2>1, <2>4 DEF IdsDiffer
<1>13. \A q \in Slots : Busy(q)' =>
          /\ Ahead(req'[q], Makers) => \A x \in DOMAIN tree' : tree'[x].id[1] # req'[q].id
          /\ Ahead(req'[q], {"session_rows"}) => \A x \in DOMAIN tree' : tree'[x].id[1] # req'[q].id + 1
  BY <1>11, <1>12
<1> QED BY <1>1, <1>8, <1>9, <1>13 DEF IdsDiffer, Number

-----------------------------------------------------------------------------
(* What other requests have found or left *)

\* An eviction is ahead until it is made.
LEMMA LeavingStays ==
    ASSUME Typed, NEW p \in Slots, Step(p), NEW x, Leaving(x),
           At(p, "evict_under") => ~Under(x, req[p].path)
    PROVE  Leaving(x)'
<1>1. PICK q \in Slots : At(q, "evict_under") /\ Under(x, req[q].path)
  BY DEF Leaving
<1>2. q # p
  BY <1>1
<1>3. At(q, "evict_under")' /\ req'[q] = req[q]
  BY <1>1, <1>2, After
<1> QED BY <1>1, <1>3 DEF Leaving

\* What is nested in an exom stays so while nothing is moved or removed.
LEMMA NestedStays ==
    ASSUME \A a \in DOMAIN tree : a \in DOMAIN tree' /\ tree'[a].kind = tree[a].kind, NEW x, Nested(x)
    PROVE  Nested(x)'
BY DEF Nested, IsExom, There

\* The exom that a step works on.
LEMMA TouchedBy ==
    ASSUME NEW p, NEW s, At(p, s)
    PROVE  /\ s = "copy" => Touched(p) = {req[p].held.target}
           /\ s \in {"load", "query", "mcp_query", "eval_query", "tool_bind", "schema", "derived",
                     "assert", "retract", "retract_all", "wipe", "import", "eval_assert",
                     "eval_retract", "eval_rule", "snapshot", "snapshot_cached", "fork_insert"} =>
                 Touched(p) = {req[p].path}
BY DEF Touched, At

\* The windows of the other requests
LEMMA WindowsOn ==
    ASSUME Typed, Windows, NEW p \in Slots, Step(p), ~SetsApart(p),
           \A x \in DOMAIN cache' : x \in DOMAIN cache \/ x \in Touched(p),
           \A x \in DOMAIN cache' : Leaving(x) => Leaving(x)',
           \A x \in DOMAIN cache' : Nested(x) => Nested(x)' \/ Leaving(x)',
           WindowOf(p)'
    PROVE  Windows'
<1>1. ASSUME NEW q \in Slots \ {p}
      PROVE  WindowOf(q)'
  <2> DEFINE r == req[q]
  <2>1. req'[q] = r /\ \A s : At(q, s)' <=> At(q, s)
    BY After
  <2>2. \A path \in Touched(p) : ~OutOfStep(q, path)
    BY DEF SetsApart
  <2>3. At(q, "fork_load") \/ At(q, "fork_insert") => UNCHANGED <<tree, cache, env>>
    BY DEF SetsApart, memory
  <2>4. WindowOf(q)
    BY DEF Windows
  <2>5. ASSUME At(q, "evict_held"), NEW x \in DOMAIN cache', Under(x, r.path)
        PROVE  x \in r.held \/ Nested(x)' \/ Leaving(x)'
    <3>1. x \in DOMAIN cache
      BY <2>2, <2>5 DEF OutOfStep
    <3> QED BY <2>4, <2>5, <3>1 DEF WindowOf
  <2>6. ASSUME At(q, "delete"), NEW x \in DOMAIN cache', Under(x, r.path)
        PROVE  Nested(x)' \/ Leaving(x)'
    <3>1. x \in DOMAIN cache
      BY <2>2, <2>6 DEF OutOfStep
    <3> QED BY <2>4, <2>6, <3>1 DEF WindowOf
  <2>7. ASSUME At(q, "reset")
        PROVE  DOMAIN cache' = {}
    <3>1. \A x \in DOMAIN cache' : x \in DOMAIN cache
      BY <2>2, <2>7 DEF OutOfStep
    <3> QED BY <2>4, <2>7, <3>1 DEF WindowOf
  <2>8. ASSUME At(q, "session_rows")
        PROVE  \/ SessionPath(r) \notin DOMAIN cache'
               \/ \E s \in Slots : At(s, "evict_under")' /\ Under(SessionPath(r), req'[s].path)
    <3>1. SUFFICES ASSUME NEW x \in DOMAIN cache', x = SessionPath(r)
                   PROVE  \E s \in Slots : At(s, "evict_under")' /\ Under(x, req'[s].path)
      OBVIOUS
    <3>2. x \in DOMAIN cache
      BY <2>2, <2>8, <3>1 DEF OutOfStep
    <3>3. Leaving(x)
      BY <2>4, <2>8, <3>1, <3>2 DEF WindowOf
    <3>4. Leaving(x)'
      BY <3>3
    <3> QED BY <3>4 DEF Leaving
  <2>9. At(q, "fork_load") => r.path \notin DOMAIN cache'
    BY <2>3, <2>4 DEF WindowOf
  <2>10. At(q, "fork_insert") =>
            /\ r.path \notin DOMAIN cache' /\ IsExom(r.path)'
            /\ r.held.entry = FromDisk(tree'[r.path].brain)
            /\ r.path \in DOMAIN env' /\ env'[r.path] = r.held.entry.datoms
    <3>1. UNCHANGED tree => (IsExom(r.path) => IsExom(r.path)')
      BY <2>1 DEF IsExom, There
    <3> QED BY <2>3, <2>4, <3>1 DEF WindowOf
  <2>11. UNCHANGED r
    BY <2>1
  <2> QED
    <3>1. At(q, "evict_held")' => \A path \in DOMAIN cache' :
              Under(path, req'[q].path) => path \in req'[q].held \/ Nested(path)' \/ Leaving(path)'
      BY <2>1, <2>5
    <3>2. At(q, "delete")' => \A path \in DOMAIN cache' :
              Under(path, req'[q].path) => Nested(path)' \/ Leaving(path)'
      BY <2>1, <2>6
    <3>3. At(q, "reset")' => DOMAIN cache' = {}
      BY <2>1, <2>7
    <3>4. At(q, "session_rows")' =>
              SessionPath(req'[q]) \notin DOMAIN cache' \/ Leaving(SessionPath(req[q]))'
      BY <2>1, <2>8 DEF Leaving
    <3>5. At(q, "fork_load")' => req'[q].path \notin DOMAIN cache'
      BY <2>1, <2>9
    <3>6. At(q, "fork_insert")' =>
            /\ req'[q].path \notin DOMAIN cache' /\ IsExom(req[q].path)'
            /\ req'[q].held.entry = FromDisk(tree'[req'[q].path].brain)
            /\ req'[q].path \in DOMAIN env' /\ env'[req'[q].path] = req'[q].held.entry.datoms
      BY <2>1, <2>10
    <3> QED BY <3>1, <3>2, <3>3, <3>4, <3>5, <3>6 DEF WindowOf
<1> QED BY <1>1 DEF Windows

\* Most steps open no window.
LEMMA NoWindow ==
    ASSUME Typed, NEW p \in Slots, Step(p),
           Head(req[p].todo) \notin {"collect", "evict_held", "reset_evict", "session_dir", "peek",
                                     "fork_load"}
    PROVE  WindowOf(p)'
<1>1. \A s \in {"evict_held", "delete", "reset", "session_rows", "fork_load", "fork_insert"} : ~At(p, s)'
  BY After DEF Follows, Leads
<1> QED BY <1>1 DEF WindowOf

-----------------------------------------------------------------------------
(* Grants, while no handler moves or removes a directory *)

Movers == {"rename", "delete", "purge", "reset"}
Movings == {"evict_under", "share_paths", "delete_shares", "reset_shares"}

\* Which requests move a directory, and which are between that and the grants.
LEMMA MovingBy ==
    ASSUME NEW q
    PROVE  /\ Moving(q) <=> \E s \in Movings : At(q, s)
           /\ Moving(q)' <=> \E s \in Movings : At(q, s)'
           /\ Moves(q) <=> \E s \in Movers : At(q, s)
BY DEF Moving, Moves, Movings, Movers

\* Grants follow through steps that move nothing.
LEMMA GrantsOrdinary ==
    ASSUME Typed, GrantsFollow, NEW p \in Slots, Step(p),
           Head(req[p].todo) \notin Movers \union Movings, shares' \subseteq shares,
           \A x \in DOMAIN tree : x \in DOMAIN tree' /\ tree'[x].id = tree[x].id
    PROVE  GrantsFollow'
<1>1. ~Moving(p) /\ ~Moving(p)'
  <2>1. \A s \in Movings : ~At(p, s)
    BY DEF At
  <2>2. \A s \in Movings : ~At(p, s)'
    BY After DEF Follows, Leads, Movers, Movings
  <2> QED BY <2>1, <2>2, MovingBy
<1>2. \A q \in Slots \ {p} : (Moving(q)' <=> Moving(q)) /\ req'[q] = req[q]
  BY After, MovingBy
<1>3. \A s, x : Placed(s, x) => Placed(s, x)'
  BY DEF Placed, There
<1>4. \A q, s \in Slots : Moving(q)' /\ Moving(s)' => q = s
  BY <1>1, <1>2 DEF GrantsFollow
<1>5. (\A q \in Slots : ~Moving(q)') => \A s \in shares' : Placed(s, s.path)'
  BY <1>1, <1>2, <1>3 DEF GrantsFollow
<1>6. GrantOf(p)'
  BY <1>1, MovingBy DEF GrantOf, Movings
<1>7. ASSUME NEW q \in Slots \ {p}
      PROVE  GrantOf(q)'
  <2> DEFINE r == req[q]
  <2>1. req'[q] = r /\ \A s : At(q, s)' <=> At(q, s)
    BY After
  <2>2. GrantOf(q)
    BY DEF GrantsFollow
  <2>3. At(q, "share_paths") \/ (At(q, "evict_under") /\ Len(r.todo) = 2) =>
            \A s \in shares' : Placed(s, Moved(s.path, r.path, Renamed(r)))'
    <3>1. \A s : Placed(s, Moved(s.path, r.path, Renamed(r))) => Placed(s, Moved(s.path, r.path, Renamed(r)))'
      <4>1. TAKE s
      <4> DEFINE m == Moved(s.path, r.path, Renamed(r))
      <4>2. Placed(s, m) => m \in DOMAIN tree' /\ tree'[m].id = s.id
        BY <1>3 DEF Placed, There
      <4>3. UNCHANGED m
        BY <2>1
      <4> HIDE DEF m
      <4> QED BY <4>2, <4>3 DEF Placed, There, m
    <3> QED BY <2>2, <3>1 DEF GrantOf
  <2>4. At(q, "evict_under") /\ Len(r.todo) = 1 => \A s \in shares' : Placed(s, s.path)'
    BY <1>3, <2>2 DEF GrantOf
  <2>5. At(q, "delete_shares") => \A s \in shares' : Under(s.path, r.path) \/ Placed(s, s.path)'
    BY <1>3, <2>2 DEF GrantOf
  <2> QED BY <2>1, <2>3, <2>4, <2>5 DEF GrantOf
<1> QED BY <1>4, <1>5, <1>6, <1>7 DEF GrantsFollow

-----------------------------------------------------------------------------
(* Steps that neither move nor remove a directory *)

\* A step that moves nothing keeps all in step, if the brains it changes are saved as cached.
LEMMA Ordinary ==
    ASSUME Typed, InStep, NEW p \in Slots, Step(p), ~SetsApart(p),
           Head(req[p].todo) \notin Movers \union Movings,
           IdsDiffer', Kept', Fits(cache', env'), shares' \subseteq shares,
           \A x \in DOMAIN tree :
               x \in DOMAIN tree' /\ tree'[x].id = tree[x].id /\ tree'[x].kind = tree[x].kind,
           \A x \in DOMAIN cache' :
               \/ x \in DOMAIN cache \/ x \in Touched(p),
           \A x \in DOMAIN cache' :
               (IsExom(x)' /\ cache'[x].brain = tree'[x].brain) \/ Leaving(x),
           WindowOf(p)'
    PROVE  InStep'
<1>1. ASSUME NEW x, Leaving(x)
      PROVE  Leaving(x)'
  <2>1. ~At(p, "evict_under")
    BY DEF At, Movings
  <2> QED BY <1>1, <2>1, LeavingStays
<1>2. CacheFollows'
  BY <1>1 DEF CacheFollows, OnDisk
<1>3. Windows'
  <2>1. \A x \in DOMAIN cache' : Nested(x) => Nested(x)'
    BY NestedStays
  <2>2. \A x \in DOMAIN cache' : Leaving(x) => Leaving(x)'
    BY <1>1
  <2> QED BY <2>1, <2>2, WindowsOn DEF InStep
<1>4. GrantsFollow'
  BY GrantsOrdinary DEF InStep
<1> QED BY <1>2, <1>3, <1>4 DEF InStep, Fits

\* Steps that change no table: a brain in the cache was there, or is read from its tables.
LEMMA ReaderStays ==
    ASSUME Typed, InStep, NEW p \in Slots, Step(p), ~SetsApart(p),
           Head(req[p].todo) \notin Movers \union Movings,
           UNCHANGED <<tree, acked>>, shares' \subseteq shares, Fits(cache', env'),
           \A x \in DOMAIN cache' : SameBrain(x) \/ (x \in Touched(p) /\ Fetched(x)),
           WindowOf(p)'
    PROVE  InStep'
<1>1. IdsDiffer'
  BY IdsSame DEF InStep
<1>2. Kept'
  BY DEF InStep, Kept
<1>3. ASSUME NEW x \in DOMAIN cache'
      PROVE  (IsExom(x)' /\ cache'[x].brain = tree'[x].brain) \/ Leaving(x)
  <2>1. CASE Fetched(x)
    BY <2>1 DEF Fetched, IsExom, There
  <2>2. CASE SameBrain(x)
    <3>1. OnDisk(x) \/ Leaving(x)
      BY <2>2 DEF InStep, CacheFollows, SameBrain
    <3> QED BY <2>2, <3>1 DEF OnDisk, SameBrain, IsExom, There
  <2> QED BY <1>3, <2>1, <2>2
<1>4. \A x \in DOMAIN cache' : x \in DOMAIN cache \/ x \in Touched(p)
  BY DEF SameBrain
<1> QED BY <1>1, <1>2, <1>3, <1>4, Ordinary

\* A touched exom is on disk as it is in the cache.
LEMMA TouchedOnDisk ==
    ASSUME Typed, InStep, NEW p \in Slots, Step(p), ~SetsApart(p), ~At(p, "evict_under"),
           NEW path \in Touched(p), Loadable(path)
    PROVE  IsExom(path) /\ Loaded(path)[path].brain = tree[path].brain
<1>1. CASE path \in DOMAIN cache
  <2>1. ~Leaving(path)
    BY DEF Leaving, SetsApart, OutOfStep
  <2>2. OnDisk(path)
    BY <1>1, <2>1 DEF InStep, CacheFollows
  <2>3. Loaded(path) = cache
    BY <1>1 DEF Loaded
  <2> QED BY <2>2, <2>3 DEF OnDisk
<1>2. CASE path \notin DOMAIN cache
  <2>1. IsExom(path) /\ Loaded(path)[path] = FromDisk(tree[path].brain)
    BY <1>2, LoadedBrain DEF Typed
  <2> QED BY <2>1 DEF FromDisk, Entry
<1> QED BY <1>1, <1>2

\* A save keeps all in step.
LEMMA SavingStays ==
    ASSUME Typed, InStep, NEW p \in Slots, Step(p), ~SetsApart(p),
           Head(req[p].todo) \notin Movers \union Movings,
           NEW path, Saves(p, path), Touched(p) = {path}, UNCHANGED shares, WindowOf(p)'
    PROVE  InStep'
<1> DEFINE old == Loaded(path)[path].brain
<1>1. PICK new, replaced, entry : SavesAs(p, path, new, replaced, entry)
  BY DEF Saves
<1>2. /\ Loadable(path) /\ IsBrain(new) /\ (~replaced => old.rows \subseteq new.rows)
      /\ tree' = Saved(tree, path, new, req[p].id)
      /\ Ack(tree', path, old, new, replaced)
      /\ IsEntry(entry) /\ entry.brain = new
      /\ \E b \in entry.brain.branches : entry.datoms = View(entry.brain, b)
      /\ Sets(Loaded(path), cache', path, entry) /\ Sets(env, env', path, entry.datoms)
  BY <1>1 DEF SavesAs
<1>3. ~At(p, "evict_under")
  BY DEF At, Movings
<1>4. PathTree(tree) /\ CacheTyped /\ IsPath(path)
  BY <1>2, LoadedBrain DEF Typed
<1>5. IsExom(path) /\ old = tree[path].brain
  BY <1>2, <1>3, TouchedOnDisk
<1> DEFINE u == Saved(tree, path, new, req[p].id)
<1>6. Keeps(tree, u, req[p].id, {path}) /\ u[path].brain = new /\ DOMAIN u = DOMAIN tree
  BY <1>2, <1>4, <1>5, SavedTree DEF IsExom, There
<1>7. u = tree'
  BY <1>2
<1> HIDE DEF u
<1>8. /\ DOMAIN tree' = DOMAIN tree /\ tree'[path].brain = new
      /\ \A x \in DOMAIN tree :
            /\ tree'[x].id = tree[x].id /\ tree'[x].kind = tree[x].kind
            /\ x # path => tree'[x].brain = tree[x].brain
  BY <1>6, <1>7 DEF Keeps
<1>9. IdsDiffer'
  BY <1>8, IdsSame DEF InStep
<1> HIDE DEF old
<1>10. Kept'
  <2> DEFINE id == tree'[path].id
  <2>1. acked' = {a \in acked : ~replaced \/ a.id # id} \union {[id |-> id, row |-> r] : r \in new.rows \ old.rows}
    BY <1>2 DEF Ack
  <2>2. ASSUME NEW a \in acked, ~replaced \/ a.id # id
        PROVE  \E x \in DOMAIN tree' : tree'[x].id = a.id /\ a.row \in tree'[x].brain.rows
    <3>1. PICK x \in DOMAIN tree : tree[x].id = a.id /\ a.row \in tree[x].brain.rows
      BY DEF InStep, Kept
    <3>2. CASE x # path
      BY <1>8, <3>1, <3>2
    <3>3. CASE x = path
      <4>1. a.row \in new.rows
        BY <1>2, <1>5, <1>8, <2>2, <3>1, <3>3
      <4> QED BY <1>8, <3>1, <3>3, <4>1
    <3> QED BY <3>2, <3>3
  <2>3. ASSUME NEW r \in new.rows \ old.rows
        PROVE  \E x \in DOMAIN tree' : tree'[x].id = id /\ r \in tree'[x].brain.rows
    BY <1>5, <1>8 DEF IsExom, There
  <2> HIDE DEF id
  <2>4. ASSUME NEW a \in acked'
        PROVE  \E x \in DOMAIN tree' : tree'[x].id = a.id /\ a.row \in tree'[x].brain.rows
    <3>1. CASE a \in acked /\ (~replaced \/ a.id # id)
      BY <2>2, <3>1
    <3>2. CASE \E r \in new.rows \ old.rows : a = [id |-> id, row |-> r]
      BY <2>3, <3>2
    <3> QED BY <2>1, <2>4, <3>1, <3>2
  <2> QED BY <2>4 DEF Kept
<1>11. \/ path \in DOMAIN cache /\ Loaded(path) = cache
       \/ path \notin DOMAIN cache /\ Sets(cache, Loaded(path), path, FromDisk(tree[path].brain))
  BY <1>2, <1>4, LoadedBrain, InsertSets
<1>12. /\ cache'[path] = entry /\ path \in DOMAIN cache'
       /\ \A x \in DOMAIN cache' : x = path \/ (x \in DOMAIN cache /\ cache'[x] = cache[x])
  BY <1>2, <1>11 DEF Sets
<1>13. Fits(cache', env')
  <2>1. \A x \in DOMAIN env : x # path => x \in DOMAIN env' /\ env'[x] = env[x]
    BY <1>2 DEF Sets
  <2>2. path \in DOMAIN env' /\ env'[path] = entry.datoms
    BY <1>2 DEF Sets
  <2>3. Fits(cache, env)
    BY DEF InStep
  <2>4. ASSUME NEW x \in DOMAIN cache'
        PROVE  /\ x \in DOMAIN env' /\ env'[x] = cache'[x].datoms
               /\ \E b \in cache'[x].brain.branches : cache'[x].datoms = View(cache'[x].brain, b)
    <3>1. CASE x = path
      BY <1>2, <1>12, <2>2, <3>1
    <3>2. CASE x # path
      <4>1. x \in DOMAIN cache /\ cache'[x] = cache[x]
        BY <1>12, <2>4, <3>2
      <4> QED BY <2>1, <2>3, <3>2, <4>1 DEF Fits
    <3> QED BY <3>1, <3>2
  <2> QED BY <2>4 DEF Fits
<1>14. ASSUME NEW x \in DOMAIN cache'
       PROVE  (IsExom(x)' /\ cache'[x].brain = tree'[x].brain) \/ Leaving(x)
  <2>1. CASE x = path
    <3>1. IsExom(path)'
      BY <1>5, <1>8 DEF IsExom, There
    <3> QED BY <1>2, <1>8, <1>12, <2>1, <3>1
  <2>2. CASE x # path
    <3>1. x \in DOMAIN cache /\ cache'[x] = cache[x]
      BY <1>12, <1>14, <2>2
    <3>2. OnDisk(x) \/ Leaving(x)
      BY <3>1 DEF InStep, CacheFollows
    <3>3. OnDisk(x) => IsExom(x)' /\ tree'[x].brain = tree[x].brain
      BY <1>8, <2>2 DEF OnDisk, IsExom, There
    <3> QED BY <3>1, <3>2, <3>3 DEF OnDisk
  <2> QED BY <2>1, <2>2
<1>15. \A x \in DOMAIN cache' : x \in DOMAIN cache \/ x \in Touched(p)
  BY <1>12
<1> QED BY <1>8, <1>9, <1>10, <1>13, <1>14, <1>15, Ordinary

\* Steps that make directories
LEMMA GrowingStays ==
    ASSUME Typed, Numbered, InStep, NEW p \in Slots, Step(p), ~SetsApart(p),
           NEW n, NEW S, Keeps(tree, tree', n, S),
           \/ n = req[p].id /\ \E s \in Makers : At(p, s)
           \/ n = req[p].id + 1 /\ At(p, "session_rows"),
           UNCHANGED <<memory, shares, acked>>,
           \A x \in S : /\ x \notin DOMAIN cache \/ Leaving(x)
                        /\ There(x) => tree[x].brain.rows \subseteq tree'[x].brain.rows,
           WindowOf(p)'
    PROVE  InStep'
<1>1. IdsDiffer'
  BY IdsGrow DEF InStep
<1>2. \A x \in DOMAIN tree :
         x \in DOMAIN tree' /\ tree'[x].id = tree[x].id /\ tree'[x].kind = tree[x].kind
  BY DEF Keeps
<1>3. \A x \in DOMAIN tree : tree[x].brain.rows \subseteq tree'[x].brain.rows
  BY DEF Keeps, There
<1>4. Kept'
  BY <1>2, <1>3 DEF InStep, Kept
<1>5. UNCHANGED <<cache, env>>
  BY DEF memory
<1>6. Fits(cache', env')
  BY <1>5 DEF InStep
<1>7. ASSUME NEW x \in DOMAIN cache'
      PROVE  (IsExom(x)' /\ cache'[x].brain = tree'[x].brain) \/ Leaving(x)
  <2>1. OnDisk(x) \/ Leaving(x)
    BY <1>5, <1>7 DEF InStep, CacheFollows
  <2>2. OnDisk(x) /\ x \notin S => IsExom(x)' /\ cache'[x].brain = tree'[x].brain
    BY <1>5 DEF OnDisk, IsExom, There, Keeps
  <2> QED BY <1>5, <1>7, <2>1, <2>2
<1>8. Head(req[p].todo) \notin Movers \union Movings
  BY DEF Makers, Movers, Movings, At
<1>9. \A x \in DOMAIN cache' : x \in DOMAIN cache \/ x \in Touched(p)
  BY <1>5
<1>10. shares' \subseteq shares
  OBVIOUS
<1> QED BY <1>1, <1>2, <1>4, <1>6, <1>7, <1>8, <1>9, <1>10, Ordinary

-----------------------------------------------------------------------------
(* What a request finds or leaves for its next step *)

\* Where a handler that has come to a step came from. The windows of the steps follow.
LEMMA WindowAfter ==
    ASSUME Typed, NEW p \in Slots, Step(p), NEW s,
           At(p, s)'
    PROVE  /\ req'[p].path = req[p].path /\ SessionPath(req[p])' = SessionPath(req[p])
           /\ Follows(Head(req[p].todo), s) /\ Busy(p)'
BY After DEF SameCall, At, SessionPath

LEMMA CollectWindow ==
    ASSUME Typed, InStep, NEW p \in Slots, Step(p), Collect(p)
    PROVE  WindowOf(p)'
<1>1. At(p, "collect") /\ UNCHANGED <<tree, cache>> /\ Busy(p) /\ Head(req[p].todo) = "collect"
  BY DEF Collect, At, disk, memory
<1>2. \A s \in {"delete", "reset", "session_rows", "fork_load", "fork_insert"} : ~At(p, s)'
  BY <1>1, After DEF Follows, Leads
<1>3. ASSUME At(p, "evict_held")', NEW x \in DOMAIN cache', Under(x, req'[p].path)
      PROVE  x \in req'[p].held \/ Nested(x)' \/ Leaving(x)'
  <2>1. req'[p].path = req[p].path
    BY <1>3, WindowAfter
  <2>2. ReqTyped /\ PathTree(tree)
    BY DEF Typed
  <2>3. req'[p].held = Walk(tree, req[p].path)
    <3>1. CASE There(req[p].path)
      <4>1. Holding(p, Walk(tree, req[p].path))
        BY <3>1 DEF Collect
      <4> QED BY <1>1, <2>2, <4>1, HoldingBy DEF Lasts
    <3>2. CASE ~There(req[p].path)
      <4>1. Done(p)
        BY <2>2, <3>2, LeaveBy DEF Collect
      <4> QED BY <1>3, <4>1 DEF Done, At, Busy, Idle
    <3> QED BY <3>1, <3>2
  <2>4. OnDisk(x) \/ Leaving(x)
    BY <1>1, <1>3 DEF InStep, CacheFollows
  <2>5. CASE Leaving(x)
    <3>1. Leaving(x)'
      BY <1>1, <2>5, LeavingStays DEF At
    <3> QED BY <3>1
  <2>6. CASE OnDisk(x) /\ Nested(x)
    BY <1>1, <2>6 DEF Nested, IsExom, There
  <2>7. CASE OnDisk(x) /\ ~Nested(x)
    <3>1. x \in DOMAIN tree /\ tree[x].kind # "folder"
      BY <2>7 DEF OnDisk, IsExom, There
    <3>2. Above(x) \subseteq DOMAIN tree
      BY <2>2, <3>1, NodeParts
    <3>3. \A a \in Above(x) : tree[a].kind = "folder"
      BY <2>7, <3>2 DEF Nested, IsExom, There
    <3> QED BY <1>3, <2>1, <2>3, <3>1, <3>3 DEF Walk
  <2> QED BY <2>4, <2>5, <2>6, <2>7
<1> QED BY <1>2, <1>3 DEF WindowOf

LEMMA EvictHeldWindow ==
    ASSUME Typed, InStep, NEW p \in Slots, Step(p), EvictHeld(p)
    PROVE  WindowOf(p)'
<1>1. At(p, "evict_held") /\ UNCHANGED tree /\ Head(req[p].todo) = "evict_held"
  BY DEF EvictHeld, At, disk
<1>2. DOMAIN cache' = DOMAIN cache \ req[p].held
  BY EvictWhereBy DEF EvictHeld
<1>3. \A s \in {"evict_held", "reset", "session_rows", "fork_load", "fork_insert"} : ~At(p, s)'
  BY <1>1, After DEF Follows, Leads
<1>4. ASSUME At(p, "delete")', NEW x \in DOMAIN cache', Under(x, req'[p].path)
      PROVE  Nested(x)' \/ Leaving(x)'
  <2>1. req'[p].path = req[p].path
    BY <1>4, WindowAfter
  <2>2. Nested(x) \/ Leaving(x)
    BY <1>1, <1>2, <1>4, <2>1 DEF InStep, Windows, WindowOf
  <2>3. Leaving(x) => Leaving(x)'
    BY <1>1, LeavingStays DEF At
  <2>4. Nested(x) => Nested(x)'
    BY <1>1 DEF Nested, IsExom, There
  <2> QED BY <2>2, <2>3, <2>4
<1> QED BY <1>3, <1>4 DEF WindowOf

LEMMA ResetEvictWindow ==
    ASSUME Typed, NEW p \in Slots, Step(p), ResetEvict(p)
    PROVE  WindowOf(p)'
<1>1. Head(req[p].todo) = "reset_evict"
  BY DEF ResetEvict, At
<1>2. DOMAIN cache' = {}
  <2>1. DOMAIN cache' = DOMAIN cache \ DOMAIN cache
    BY EvictWhereBy DEF ResetEvict
  <2> QED BY <2>1
<1>3. \A s \in {"evict_held", "delete", "session_rows", "fork_load", "fork_insert"} : ~At(p, s)'
  BY <1>1, After DEF Follows, Leads
<1> QED BY <1>2, <1>3 DEF WindowOf

LEMMA SessionDirWindow ==
    ASSUME Typed, InStep, NEW p \in Slots, Step(p), ~SetsApart(p), SessionDir(p)
    PROVE  WindowOf(p)'
<1>1. At(p, "session_dir") /\ UNCHANGED cache /\ Head(req[p].todo) = "session_dir"
  BY DEF SessionDir, Reshape, At, memory
<1>2. \A s \in {"evict_held", "delete", "reset", "fork_load", "fork_insert"} : ~At(p, s)'
  BY <1>1, After DEF Follows, Leads
<1> DEFINE path == SessionPath(req[p])
<1>3. ~There(path)
  BY <1>1 DEF SetsApart
<1> HIDE DEF path
<1>4. path \in DOMAIN cache => \E s \in Slots : At(s, "evict_under")' /\ Under(path, req'[s].path)
  <2>1. path \in DOMAIN cache => Leaving(path)
    BY <1>3 DEF InStep, CacheFollows, OnDisk, IsExom
  <2>2. ASSUME NEW x, Leaving(x)
        PROVE  \E s \in Slots : At(s, "evict_under")' /\ Under(x, req'[s].path)
    <3>1. Leaving(x)'
      BY <1>1, <2>2, LeavingStays DEF At
    <3> QED BY <3>1 DEF Leaving
  <2> QED BY <2>1, <2>2
<1>5. ASSUME At(p, "session_rows")'
      PROVE  SessionPath(req'[p]) \notin DOMAIN cache' \/ Leaving(SessionPath(req[p]))'
  <2>1. SessionPath(req'[p]) = path
    BY <1>5, WindowAfter DEF path
  <2>2. path \in DOMAIN cache => Leaving(SessionPath(req[p]))'
    BY <1>4, <2>1 DEF Leaving
  <2> QED BY <1>1, <2>1, <2>2
<1> QED BY <1>2, <1>5 DEF WindowOf

LEMMA PeekWindow ==
    ASSUME Typed, NEW p \in Slots, Step(p), Peek(p)
    PROVE  WindowOf(p)'
<1>1. At(p, "peek") /\ UNCHANGED cache /\ Head(req[p].todo) = "peek" /\ Busy(p)
  BY DEF Peek, At, memory
<1>2. \A s \in {"evict_held", "delete", "reset", "session_rows", "fork_insert"} : ~At(p, s)'
  BY <1>1, After DEF Follows, Leads
<1>3. ReqTyped /\ Plan(req[p].todo)
  BY <1>1 DEF Typed, ReqTyped, Called
<1>4. ASSUME At(p, "fork_load")', req[p].path \in DOMAIN cache
      PROVE  FALSE
  <2> DEFINE t == req[p].todo
             s == req'[p]
  <2>1. Skip(p, 3)
    BY <1>4 DEF Peek
  <2>2. Len(t) \in Nat /\ 3 < Len(t) /\ t[1] = "peek"
    BY <1>1, <1>3, PeekPlan, PlanParts
  <2>3. 3 \in 1..Len(t)
    BY <2>2
  <2>4. s # Nothing /\ Head(s.todo) = "fork_load"
    BY <1>4 DEF At, Busy, Idle
  <2>5. s.todo = SubSeq(t, 3 + 1, Len(t))
    BY <1>1, <1>3, <2>1, <2>3, <2>4, SkipBy DEF Done
  <2>6. \A i \in 1..(Len(t) - 1) : Leads(t[i], t[i + 1])
    BY <1>3 DEF Plan
  <2> HIDE DEF t, s
  <2>7. 1 \in 1..(Len(t) - 1) /\ 2 \in 1..(Len(t) - 1) /\ 3 \in 1..(Len(t) - 1)
    BY <2>2
  <2>8. Leads(t[1], t[2]) /\ Leads(t[2], t[3]) /\ Leads(t[3], t[4])
    BY <2>6, <2>7
  <2>9. t[2] = "fork_load"
    BY <2>2, <2>8 DEF Leads
  <2>10. t[3] = "fork_insert"
    BY <2>8, <2>9 DEF Leads
  <2>11. t[4] = "snapshot_cached"
    BY <2>8, <2>10 DEF Leads
  <2>12. Plan(SubSeq(t, 3 + 1, Len(t))) /\ SubSeq(t, 3 + 1, Len(t))[1] = t[4]
    <3>1. 3 \in 0..(Len(t) - 1) /\ 1 \in 1..(Len(t) - 3)
      BY <2>2
    <3>2. Plan(SubSeq(t, 3 + 1, Len(t))) /\ \A i \in 1..(Len(t) - 3) : SubSeq(t, 3 + 1, Len(t))[i] = t[3 + i]
      BY <1>3, <3>1, PlanOn DEF t
    <3> QED BY <3>1, <3>2
  <2>13. Head(s.todo) = s.todo[1]
    BY <2>5, <2>12, PlanParts
  <2> QED BY <2>4, <2>5, <2>11, <2>12, <2>13
<1>5. ASSUME At(p, "fork_load")'
      PROVE  req'[p].path \notin DOMAIN cache'
  BY <1>1, <1>4, <1>5, WindowAfter
<1> QED BY <1>2, <1>5 DEF WindowOf

LEMMA ForkLoadWindow ==
    ASSUME Typed, InStep, NEW p \in Slots, Step(p), ~SetsApart(p), ForkLoad(p)
    PROVE  /\ WindowOf(p)' /\ Fits(cache', env')
           /\ req[p].path \notin DOMAIN cache
<1> DEFINE r == req[p]
           path == r.path
           entry == FromDisk(IF There(path) THEN tree[path].brain ELSE EmptyBrain)
           held == [target |-> r.held.target, facts |-> {}, entry |-> entry]
<1>1. /\ At(p, "fork_load") /\ Head(r.todo) = "fork_load" /\ Busy(p)
      /\ env' = Insert(env, path, entry.datoms) /\ Holding(p, held)
      /\ UNCHANGED <<tree, cache>>
  BY DEF ForkLoad, At, disk
<1>2. IsExom(path) /\ path \notin DOMAIN cache
  BY <1>1 DEF SetsApart, InStep, Windows, WindowOf
<1>3. entry = FromDisk(tree[path].brain)
  BY <1>2 DEF IsExom
<1>4. \A s \in {"evict_held", "delete", "reset", "session_rows", "fork_load"} : ~At(p, s)'
  BY <1>1, After DEF Follows, Leads
<1> HIDE DEF entry
<1>5. req'[p].held = held /\ held.entry = entry
  <2>1. ReqTyped /\ Head(r.todo) \notin Lasts
    BY <1>1 DEF Typed, Lasts
  <2> HIDE DEF held
  <2>2. req'[p].held = held
    BY <1>1, <2>1, HoldingBy
  <2> QED BY <2>2 DEF held
<1> HIDE DEF held
<1>6. ASSUME At(p, "fork_insert")'
      PROVE  /\ req'[p].path \notin DOMAIN cache' /\ IsExom(req[p].path)'
             /\ req'[p].held.entry = FromDisk(tree'[req'[p].path].brain)
             /\ req'[p].path \in DOMAIN env' /\ env'[req'[p].path] = req'[p].held.entry.datoms
  <2>1. req'[p].path = path
    BY <1>6, WindowAfter
  <2>2. IsExom(req[p].path)'
    BY <1>1, <1>2, <2>1 DEF IsExom, There
  <2> QED BY <1>1, <1>2, <1>3, <1>5, <2>1, <2>2 DEF Insert
<1>7. WindowOf(p)'
  BY <1>4, <1>6 DEF WindowOf
<1>8. Fits(cache', env')
  BY <1>1, <1>2 DEF InStep, Fits, Insert
<1> QED BY <1>2, <1>7, <1>8

-----------------------------------------------------------------------------
(* Steps that move or remove a directory, and those that follow them *)

\* A handler that is not at its last step goes on to the next.
LEMMA AdvancesTo ==
    ASSUME Typed, NEW p \in Slots, Busy(p), Advance(p), Head(req[p].todo) \notin Lasts
    PROVE  /\ Busy(p)' /\ SameCall(req[p], req'[p]) /\ Plan(req'[p].todo)
           /\ Len(req'[p].todo) = Len(req[p].todo) - 1
           /\ Follows(Head(req[p].todo), Head(req'[p].todo))
<1> DEFINE r == req[p]
           s == req'[p]
<1>1. ReqTyped /\ Plan(r.todo)
  BY DEF Typed, ReqTyped, Called
<1>2. Len(r.todo) \in Nat \ {0} /\ Len(r.todo) > 1
  BY <1>1, PlanParts
<1>3. Goes(p) /\ Drops(r, s, 1)
  <2>1. Len(r.todo) = 1 => FALSE
    <3> HIDE DEF r
    <3>1. PICK n \in Nat \ {0} : n = Len(r.todo)
      BY <1>2
    <3>2. n > 1
      BY <1>2, <3>1
    <3>3. n # 1
      BY <3>2
    <3> QED BY <3>1, <3>3
  <2> QED BY <1>1, <2>1, AdvanceBy
<1>4. SameCall(r, s)
  BY <1>3 DEF Goes
<1> HIDE DEF s, r
<1>5. Plan(s.todo) /\ s.todo # <<>> /\ Len(s.todo) = Len(r.todo) - 1 /\ Follows(Head(r.todo), Head(s.todo))
  BY <1>1, <1>3, DropsBy
<1>6. s # Nothing
  BY <1>5 DEF Nothing
<1> QED BY <1>4, <1>5, <1>6 DEF Busy, Idle, s, r

\* One that is, and has no step that could follow, is done.
LEMMA LastOne ==
    ASSUME NEW t, Plan(t), \A s : ~Leads(Head(t), s)
    PROVE  Len(t) = 1
<1>1. PICK n \in Nat \ {0} : n = Len(t)
  BY PlanParts
<1>2. \A i \in 1..(n - 1) : Leads(t[i], t[i + 1])
  BY <1>1 DEF Plan
<1>3. ~Leads(t[1], t[1 + 1])
  BY PlanParts
<1>4. n = 1
  BY <1>2, <1>3
<1> QED BY <1>1, <1>4

\* A step that nothing follows ends its handler.
LEMMA LastDone ==
    ASSUME Typed, NEW p \in Slots, Busy(p), Advance(p), \A s : ~Leads(Head(req[p].todo), s)
    PROVE  Done(p)
<1>1. ReqTyped /\ Plan(req[p].todo)
  BY DEF Typed, ReqTyped, Called
<1>2. Len(req[p].todo) = 1
  BY <1>1, LastOne
<1> DEFINE r == req[p]
<1>3. Done(p) \/ (Goes(p) /\ Drops(req[p], req'[p], 1))
  BY <1>1, AdvanceBy
<1>4. ~Drops(req[p], req'[p], 1)
  BY <1>2 DEF Drops
<1> QED BY <1>3, <1>4

\* The grants, when no other handler moves or removes
LEMMA OnlyMover ==
    ASSUME Typed, NEW p \in Slots, Step(p), \A q \in Slots \ {p} : ~Moving(q),
           GrantOf(p)', ~Moving(p)' => \A s \in shares' : Placed(s, s.path)'
    PROVE  GrantsFollow'
<1>1. \A q \in Slots \ {p} : ~Moving(q)'
  BY After, MovingBy
<1>2. \A q \in Slots \ {p} : GrantOf(q)'
  BY <1>1, MovingBy DEF GrantOf, Movings
<1> QED BY <1>1, <1>2 DEF GrantsFollow

\* A directory moves only while no other move is under way.
LEMMA MoverAlone ==
    ASSUME GrantsFollow, NEW p \in Slots, ~SetsApart(p), Moves(p)
    PROVE  (\A q \in Slots : ~Moving(q)) /\ \A s \in shares : Placed(s, s.path)
<1>1. \A q \in Slots \ {p} : ~Moving(q)
  BY DEF SetsApart
<1>2. ~Moving(p)
  BY DEF Moving, Moves, At
<1> QED BY <1>1, <1>2 DEF GrantsFollow

\* Steps that change no table, after a directory has moved or gone
LEMMA MovingStays ==
    ASSUME Typed, InStep, NEW p \in Slots, Step(p), ~SetsApart(p), Moving(p),
           UNCHANGED <<tree, acked>>, Fewer,
           At(p, "evict_under") => \A x \in DOMAIN cache' : ~Under(x, req[p].path),
           GrantOf(p)', ~Moving(p)' => \A s \in shares' : Placed(s, s.path)'
    PROVE  InStep'
<1>1. IdsDiffer'
  BY IdsSame DEF InStep
<1>2. Kept'
  BY DEF InStep, Kept
<1>3. Fits(cache', env') /\ \A x \in DOMAIN cache' : SameBrain(x)
  BY FewerBy DEF InStep, Typed
<1>4. \A x \in DOMAIN cache' : x \in DOMAIN cache /\ (Leaving(x) => Leaving(x)')
  BY LeavingStays DEF Fewer
<1>5. CacheFollows'
  <2>1. ASSUME NEW x \in DOMAIN cache'
        PROVE  OnDisk(x)' \/ Leaving(x)'
    <3>1. OnDisk(x) \/ Leaving(x)
      BY <1>4, <2>1 DEF InStep, CacheFollows
    <3>2. OnDisk(x) => OnDisk(x)'
      BY <1>3, <2>1 DEF OnDisk, IsExom, There, SameBrain
    <3> QED BY <1>4, <2>1, <3>1, <3>2
  <2> QED BY <2>1 DEF CacheFollows
<1>6. Windows'
  <2>1. \A x \in DOMAIN cache' : Nested(x) => Nested(x)'
    BY NestedStays
  <2>2. WindowOf(p)'
    <3>1. Head(req[p].todo) \notin {"collect", "evict_held", "reset_evict", "session_dir", "peek", "fork_load"}
      BY DEF Moving, At
    <3> QED BY <3>1, NoWindow
  <2> QED BY <1>4, <2>1, <2>2, WindowsOn DEF InStep
<1>7. GrantsFollow'
  <2>1. \A q \in Slots \ {p} : ~Moving(q)
    BY DEF InStep, GrantsFollow
  <2> QED BY <2>1, OnlyMover
<1> QED BY <1>1, <1>2, <1>3, <1>5, <1>6, <1>7 DEF InStep, Fits

\* After an eviction under a path there is at most the step that moves the grants.
LEMMA EvictUnderPlan ==
    ASSUME NEW t, Plan(t), Head(t) = "evict_under"
    PROVE  Len(t) \in {1, 2}
<1>1. Head(t) = t[1]
  BY PlanParts
<1>2. PICK n \in Nat \ {0} : n = Len(t)
  BY PlanParts
<1>3. ASSUME n > 2
      PROVE  FALSE
  <2>1. 1 \in 1..(n - 1) /\ 2 \in 1..(n - 1)
    BY <1>3
  <2>2. Leads(t[1], t[2]) /\ Leads(t[2], t[3])
    BY <1>2, <2>1 DEF Plan
  <2>3. t[2] = "share_paths"
    BY <1>1, <2>2 DEF Leads
  <2> QED BY <2>2, <2>3 DEF Leads
<1>4. n \in {1, 2}
  BY <1>3
<1> QED BY <1>2, <1>4

LEMMA AtHead ==
    ASSUME NEW p, Busy(p)', NEW b, b = Head(req'[p].todo)
    PROVE  At(p, b)'
BY DEF At

LEMMA EvictUnderStays ==
    ASSUME Typed, InStep, NEW p \in Slots, Step(p), ~SetsApart(p), EvictUnder(p)
    PROVE  InStep'
<1> DEFINE r == req[p]
<1>1. /\ At(p, "evict_under") /\ Busy(p) /\ Head(r.todo) = "evict_under" /\ Advance(p)
      /\ EvictWhere(CachedUnder(r.path)) /\ UNCHANGED <<tree, shares, acked>>
  BY DEF EvictUnder, At, disk
<1>2. Fewer /\ DOMAIN cache' = DOMAIN cache \ CachedUnder(r.path)
  BY <1>1, EvictWhereBy
<1>3. \A x \in DOMAIN cache' : ~Under(x, r.path)
  BY <1>2 DEF CachedUnder
<1>4. Moving(p) /\ GrantOf(p)
  BY <1>1, MovingBy DEF Movings, InStep, GrantsFollow
<1>5. \A s, x : Placed(s, x) => Placed(s, x)'
  BY <1>1 DEF Placed, There
<1>6. ReqTyped /\ Plan(r.todo)
  BY <1>1 DEF Typed, ReqTyped, Called
<1>7. Len(r.todo) \in {1, 2}
  BY <1>1, <1>6, EvictUnderPlan
<1>8. GrantOf(p)' /\ (~Moving(p)' => \A s \in shares' : Placed(s, s.path)')
  <2>1. CASE Len(r.todo) = 1
    <3>1. ~Drops(req[p], req'[p], 1)
      BY <2>1 DEF Drops
    <3>2. Done(p)
      BY <1>1, <1>6, <3>1, AdvanceBy
    <3>3. \A s : ~At(p, s)'
      BY <3>2 DEF Done, At, Busy, Idle
    <3>4. \A s \in shares' : Placed(s, s.path)'
      BY <1>1, <1>4, <1>5, <2>1 DEF GrantOf
    <3> QED BY <3>3, <3>4 DEF GrantOf
  <2>2. CASE Len(r.todo) = 2
    <3> DEFINE s == req'[p]
    <3>1. Goes(p)
      BY <1>1, <1>6, <2>2, AdvanceBy
    <3>2. SameCall(r, s) /\ \A b : At(p, b)' => Follows("evict_under", b)
      BY <1>1, <3>1, After DEF Goes
    <3>3. \A b : At(p, b)' => b = "share_paths"
      BY <3>2 DEF Follows, Leads
    <3>4. At(p, "share_paths")'
      <4>1. PICK n : Drops(r, s, n)
        BY <3>1 DEF Goes
      <4> HIDE DEF s, r
      <4>2. s.todo # <<>>
        BY <1>6, <4>1, DropsBy
      <4>3. s # Nothing
        BY <4>2 DEF Nothing
      <4>4. Busy(p)'
        BY <4>3 DEF Busy, Idle, s
      <4>5. \E b : At(p, b)'
        BY <4>4, AtHead
      <4> QED BY <3>3, <4>5
    <3>5. s.path = r.path /\ Renamed(s) = Renamed(r)
      BY <3>2 DEF SameCall, Renamed
    <3>6. ASSUME NEW g \in shares'
          PROVE  Placed(g, Moved(g.path, req[p].path, Renamed(req[p])))'
      <4> DEFINE m == Moved(g.path, r.path, Renamed(r))
                 k == Moved(g.path, s.path, Renamed(s))
      <4>1. Placed(g, m)
        BY <1>1, <1>4, <2>2 DEF GrantOf
      <4>2. k = m
        BY <3>5
      <4> HIDE DEF m
      <4>3. m \in DOMAIN tree' /\ tree'[m].id = g.id
        BY <1>1, <4>1 DEF Placed, There
      <4> QED BY <4>2, <4>3 DEF Placed, There
    <3>7. Moving(p)'
      BY <3>4, MovingBy DEF Movings
    <3> HIDE DEF s
    <3>8. ~At(p, "evict_under")' /\ ~At(p, "delete_shares")'
      BY <3>3
    <3> QED BY <3>6, <3>7, <3>8 DEF GrantOf
  <2> QED BY <1>7, <2>1, <2>2
<1> QED BY <1>1, <1>2, <1>3, <1>4, <1>8, MovingStays

LEMMA LastMoving ==
    ASSUME NEW p, NEW s \in {"share_paths", "delete_shares", "reset_shares"}, At(p, s)
    PROVE  /\ Busy(p) /\ ~At(p, "evict_under") /\ Moving(p)
           /\ \A b : ~Leads(Head(req[p].todo), b)
BY DEF At, Moving, Leads

\* The steps that move or take away the grants close the window of a move.
LEMMA SharesStay ==
    ASSUME Typed, InStep, NEW p \in Slots, Step(p), ~SetsApart(p),
           SharePaths(p) \/ DeleteShares(p) \/ ResetShares(p)
    PROVE  InStep'
<1>1. /\ Busy(p) /\ ~At(p, "evict_under") /\ Moving(p) /\ Advance(p)
      /\ \A b : ~Leads(Head(req[p].todo), b)
  BY LastMoving DEF SharePaths, DeleteShares, ResetShares
<1>2. UNCHANGED <<tree, acked, cache, env>>
  BY DEF SharePaths, DeleteShares, ResetShares, memory
<1>3. Done(p)
  BY <1>1, LastDone
<1>4. GrantOf(p)'
  BY <1>3 DEF Done, GrantOf, At, Busy, Idle
<1>5. GrantOf(p)
  BY DEF InStep, GrantsFollow
<1>6. \A s \in shares' : Placed(s, s.path)'
  <2>1. CASE SharePaths(p)
    <3>1. TAKE g \in shares'
    <3>2. PICK s \in shares : g.id = s.id /\ g.path = Moved(s.path, req[p].path, Renamed(req[p]))
      BY <2>1, SharePathsBy DEF Typed
    <3>3. Placed(s, g.path)
      BY <1>5, <2>1, <3>2 DEF SharePaths, GrantOf
    <3> QED BY <1>2, <3>2, <3>3 DEF Placed, There
  <2>2. CASE DeleteShares(p)
    BY <1>2, <1>5, <2>2 DEF DeleteShares, GrantOf, Placed, There
  <2>3. CASE ResetShares(p)
    BY <2>3 DEF ResetShares
  <2> QED BY <2>1, <2>2, <2>3
<1>7. Fewer
  BY <1>2 DEF Fewer
<1> QED BY <1>1, <1>2, <1>4, <1>6, <1>7, MovingStays

\* A directory is renamed.
LEMMA RenameStays ==
    ASSUME Typed, InStep, NEW p \in Slots, Step(p), ~SetsApart(p), RenameDir(p)
    PROVE  InStep'
<1> DEFINE r == req[p]
           from == r.path
           to == Renamed(r)
           M(x) == Moved(x, from, to)
<1>1. /\ At(p, "rename") /\ Busy(p) /\ Head(r.todo) = "rename" /\ ~At(p, "evict_under") /\ Moves(p)
  BY Heads DEF At, Moves
<1>2. /\ Beside(from, to) /\ Len(from) > 1 /\ UNCHANGED <<memory, shares, acked>>
      /\ \/ UNCHANGED tree /\ Leave(p)
         \/ /\ MovesTo(tree, tree', from, to) /\ Advance(p)
            /\ \A x, y \in DOMAIN tree : M(x) = M(y) => x = y
  BY RenameDirBy DEF Typed
<1>3. PathTree(tree) /\ CacheTyped /\ SharesTyped /\ ReqTyped
  BY DEF Typed
<1>4. (\A q \in Slots : ~Moving(q)) /\ \A s \in shares : Placed(s, s.path)
  BY <1>1, MoverAlone DEF InStep
<1>5. \A x : Leaving(x) => Leaving(x)'
  BY <1>1, LeavingStays
<1>6. UNCHANGED <<cache, env>> /\ Fits(cache', env')
  BY <1>2 DEF memory, InStep
<1>7. WindowOf(p)'
  BY <1>1, NoWindow
<1>8. CASE UNCHANGED tree /\ Leave(p)
  <2>1. IdsDiffer'
    BY <1>8, IdsSame DEF InStep
  <2>2. Kept'
    BY <1>2, <1>8 DEF InStep, Kept
  <2>3. CacheFollows'
    BY <1>5, <1>6, <1>8 DEF InStep, CacheFollows, OnDisk, IsExom, There
  <2>4. Windows'
    <3>1. \A x \in DOMAIN cache' : x \in DOMAIN cache
      BY <1>6
    <3>2. \A x \in DOMAIN cache' : Nested(x) => Nested(x)'
      BY <1>8, NestedStays
    <3> QED BY <1>5, <1>7, <3>1, <3>2, WindowsOn DEF InStep
  <2>5. GrantsFollow'
    <3>1. \A b : ~At(p, b)'
      BY <1>3, <1>8, LeaveBy DEF Done, At, Busy, Idle
    <3>2. \A s \in shares' : Placed(s, s.path)'
      BY <1>2, <1>4, <1>8 DEF Placed, There
    <3> QED BY <1>4, <3>1, <3>2, OnlyMover DEF GrantOf
  <2> QED BY <1>6, <2>1, <2>2, <2>3, <2>4, <2>5 DEF InStep, Fits
<1>9. CASE /\ MovesTo(tree, tree', from, to) /\ Advance(p)
           /\ \A x, y \in DOMAIN tree : M(x) = M(y) => x = y
  <2> DEFINE s == req'[p]
  <2>1. /\ Busy(p)' /\ SameCall(r, s) /\ Len(s.todo) = Len(r.todo) - 1
        /\ Follows(Head(r.todo), Head(s.todo))
    BY <1>1, <1>9, AdvancesTo DEF Lasts
  <2>2. At(p, "evict_under")' /\ Len(s.todo) = 2
    <3>1. Head(s.todo) = "evict_under"
      BY <1>1, <2>1 DEF Follows, Leads
    <3>2. Len(r.todo) = 3
      <4>1. Plan(r.todo)
        BY <1>1 DEF Typed, ReqTyped, Called
      <4>2. r.todo[1] = "rename"
        BY <1>1, <4>1, PlanParts
      <4>3. PICK n \in Nat \ {0} : n = Len(r.todo)
        BY <4>1, PlanParts
      <4>4. \A i \in 1..n : r.todo[i] = "rename" => i + 2 = n
        BY <4>1, <4>3 DEF Plan
      <4>5. n = 3
        BY <4>2, <4>4
      <4> QED BY <4>3, <4>5
    <3> QED BY <2>1, <3>1, <3>2 DEF At
  <2>3. s.path = from /\ Renamed(s) = to
    BY <2>1 DEF SameCall, Renamed
  <2> HIDE DEF s
  <2>4. /\ DOMAIN tree' = {M(x) : x \in DOMAIN tree}
        /\ \A x \in DOMAIN tree : M(x) \in DOMAIN tree' /\ tree'[M(x)] = tree[x]
    BY <1>9 DEF MovesTo
  <2>5. \A x : ~Under(x, from) => M(x) = x
    BY MovedAway
  <2> HIDE DEF M, to
  <2>6. IdsDiffer'
    <3>1. \A y \in DOMAIN tree' : \E x \in DOMAIN tree : y = M(x) /\ tree'[y].id = tree[x].id
      BY <2>4
    <3>2. \A x, y \in DOMAIN tree' : tree'[x].id = tree'[y].id => x = y
      BY <3>1 DEF InStep, IdsDiffer
    <3> QED BY <3>1, <3>2, IdsFewer DEF InStep
  <2>7. Kept'
    <3>1. ASSUME NEW a \in acked
          PROVE  \E y \in DOMAIN tree' : tree'[y].id = a.id /\ a.row \in tree'[y].brain.rows
      <4>1. PICK x \in DOMAIN tree : tree[x].id = a.id /\ a.row \in tree[x].brain.rows
        BY <3>1 DEF InStep, Kept
      <4>2. M(x) \in DOMAIN tree' /\ tree'[M(x)] = tree[x]
        BY <2>4
      <4> QED BY <4>1, <4>2
    <3> QED BY <1>2, <3>1 DEF Kept
  <2>8. \A x : Under(x, from) => Leaving(x)'
    BY <2>2, <2>3 DEF Leaving, s
  <2>9. \A x \in DOMAIN tree : ~Under(x, from) => x \in DOMAIN tree' /\ tree'[x] = tree[x]
    BY <2>4, <2>5
  <2>10. CacheFollows'
    <3>1. ASSUME NEW x \in DOMAIN cache'
          PROVE  OnDisk(x)' \/ Leaving(x)'
      <4>1. OnDisk(x) \/ Leaving(x)
        BY <1>6, <3>1 DEF InStep, CacheFollows
      <4>2. OnDisk(x) /\ ~Under(x, from) => OnDisk(x)'
        BY <1>6, <2>9 DEF OnDisk, IsExom, There
      <4> QED BY <1>5, <2>8, <4>1, <4>2
    <3> QED BY <3>1 DEF CacheFollows
  <2>11. Windows'
    <3>1. \A x \in DOMAIN cache' : x \in DOMAIN cache
      BY <1>6
    <3>2. ASSUME NEW x \in DOMAIN cache', Nested(x)
          PROVE  Nested(x)' \/ Leaving(x)'
      <4>1. PICK a \in Above(x) : IsExom(a)
        BY <3>2 DEF Nested
      <4>2. IsPath(x) /\ IsPath(a) /\ Under(x, a) /\ IsPath(from)
        <5>1. IsPath(x)
          BY <1>6, <3>2, <1>3 DEF CacheTyped
        <5> QED BY <1>2, <4>1, <5>1, AboveBy DEF Beside
      <4>3. CASE Under(a, from)
        BY <2>8, <4>2, <4>3, UnderUnder
      <4>4. CASE ~Under(a, from)
        BY <2>9, <4>1, <4>4 DEF IsExom, There, Nested
      <4> QED BY <4>3, <4>4
    <3> QED BY <1>5, <1>7, <3>1, <3>2, WindowsOn DEF InStep
  <2>12. GrantsFollow'
    <3>1. ASSUME NEW g \in shares'
          PROVE  Placed(g, Moved(g.path, req[p].path, Renamed(req[p])))'
      <4> DEFINE m == M(g.path)
                 k == Moved(g.path, s.path, Renamed(s))
      <4>1. k = m
        BY <2>3 DEF M
      <4>2. g.path \in DOMAIN tree /\ tree[g.path].id = g.id
        BY <1>2, <1>4 DEF Placed, There
      <4>3. m \in DOMAIN tree' /\ tree'[m].id = g.id
        BY <2>4, <4>2
      <4> HIDE DEF m
      <4> QED BY <4>1, <4>3 DEF Placed, There, s
    <3>2. ~At(p, "share_paths")' /\ ~At(p, "delete_shares")'
      BY <2>2 DEF At
    <3>3. Len(req'[p].todo) # 1
      BY <2>2 DEF s
    <3>4. GrantOf(p)'
      BY <3>1, <3>2, <3>3 DEF GrantOf
    <3>5. Moving(p)'
      BY <2>2, MovingBy DEF Movings
    <3> QED BY <1>4, <3>4, <3>5, OnlyMover
  <2> QED BY <1>6, <2>6, <2>7, <2>10, <2>11, <2>12 DEF InStep, Fits
<1> QED BY <1>2, <1>8, <1>9

\* Directories are removed.
LEMMA RemovalStays ==
    ASSUME Typed, InStep, NEW p \in Slots, Step(p), ~SetsApart(p), ~At(p, "evict_under"),
           NEW top, RemoveDirs(top), IsPath(top) \/ top = <<>>, UNCHANGED memory,
           \A x \in DOMAIN cache : Under(x, top) => Leaving(x)',
           WindowOf(p)', GrantsFollow'
    PROVE  InStep'
<1>1. /\ tree' = Removed(tree, top)
      /\ acked' = {a \in acked : \E q \in DOMAIN Removed(tree, top) : Removed(tree, top)[q].id = a.id}
  BY DEF RemoveDirs
<1>2. /\ DOMAIN tree' = {x \in DOMAIN tree : ~Under(x, top)}
      /\ \A x \in DOMAIN tree' : tree'[x] = tree[x]
      /\ acked' = {a \in acked : \E q \in DOMAIN tree' : tree'[q].id = a.id}
  BY <1>1 DEF Removed
<1>3. IdsDiffer'
  <2>1. \A x \in DOMAIN tree' : x \in DOMAIN tree /\ tree'[x].id = tree[x].id
    BY <1>2
  <2>2. \A x, y \in DOMAIN tree' : tree'[x].id = tree'[y].id => x = y
    BY <2>1 DEF InStep, IdsDiffer
  <2> QED BY <2>1, <2>2, IdsFewer DEF InStep
<1>4. Kept'
  <2>1. ASSUME NEW a \in acked'
        PROVE  \E x \in DOMAIN tree' : tree'[x].id = a.id /\ a.row \in tree'[x].brain.rows
    <3>1. PICK q \in DOMAIN tree' : tree'[q].id = a.id
      BY <1>2, <2>1
    <3>2. PICK x \in DOMAIN tree : tree[x].id = a.id /\ a.row \in tree[x].brain.rows
      BY <1>2, <2>1 DEF InStep, Kept
    <3>3. q = x
      BY <1>2, <3>1, <3>2 DEF InStep, IdsDiffer
    <3> QED BY <1>2, <3>1, <3>2, <3>3
  <2> QED BY <2>1 DEF Kept
<1>5. UNCHANGED <<cache, env>> /\ Fits(cache', env')
  BY DEF memory, InStep
<1>6. \A x : Leaving(x) => Leaving(x)'
  BY LeavingStays
<1>7. CacheFollows'
  <2>1. ASSUME NEW x \in DOMAIN cache'
        PROVE  OnDisk(x)' \/ Leaving(x)'
    <3>1. OnDisk(x) \/ Leaving(x)
      BY <1>5, <2>1 DEF InStep, CacheFollows
    <3>2. OnDisk(x) /\ ~Under(x, top) => OnDisk(x)'
      BY <1>2, <1>5 DEF OnDisk, IsExom, There
    <3> QED BY <1>5, <1>6, <2>1, <3>1, <3>2
  <2> QED BY <2>1 DEF CacheFollows
<1>8. Windows'
  <2>1. \A x \in DOMAIN cache' : x \in DOMAIN cache
    BY <1>5
  <2>2. ASSUME NEW x \in DOMAIN cache', Nested(x)
        PROVE  Nested(x)' \/ Leaving(x)'
    <3>1. PICK a \in Above(x) : IsExom(a)
      BY <2>2 DEF Nested
    <3>2. IsPath(x)
      BY <2>1, <2>2 DEF Typed, CacheTyped
    <3>3. IsPath(a) /\ Under(x, a)
      BY <3>1, <3>2, AboveBy
    <3>4. CASE Under(a, top)
      <4>1. Under(x, top)
        BY <3>2, <3>3, <3>4, UnderUnder, UnderEmpty
      <4> QED BY <2>1, <2>2, <4>1
    <3>5. CASE ~Under(a, top)
      BY <1>2, <3>1, <3>5 DEF IsExom, There, Nested
    <3> QED BY <3>4, <3>5
  <2> QED BY <1>6, <2>1, <2>2, WindowsOn DEF InStep
<1> QED BY <1>3, <1>4, <1>5, <1>7, <1>8 DEF InStep, Fits

\* Deleting keeps all in step: the exoms in the directory were evicted just before.
LEMMA DeleteStays ==
    ASSUME Typed, InStep, NEW p \in Slots, Step(p), ~SetsApart(p), DeleteDir(p)
    PROVE  InStep'
<1> DEFINE top == req[p].path
<1>1. /\ At(p, "delete") /\ Busy(p) /\ Head(req[p].todo) = "delete" /\ ~At(p, "evict_under") /\ Moves(p)
      /\ RemoveDirs(top) /\ Pass(p, There(top)) /\ UNCHANGED <<memory, shares>>
  BY DEF DeleteDir, At, Moves
<1>2. PathTree(tree) /\ ReqTyped /\ IsPath(top) /\ SharesTyped
  BY <1>1, PathsOf DEF Typed, Resets
<1>3. (\A q \in Slots : ~Moving(q)) /\ \A s \in shares : Placed(s, s.path)
  BY <1>1, MoverAlone DEF InStep
<1>4. ASSUME NEW x \in DOMAIN cache, Under(x, top)
      PROVE  Leaving(x)'
  <2>1. ~Nested(x)
    BY <1>1, <1>4 DEF SetsApart
  <2>2. Leaving(x)
    BY <1>1, <1>4, <2>1 DEF InStep, Windows, WindowOf
  <2> QED BY <1>1, <2>2, LeavingStays
<1>5. WindowOf(p)'
  BY <1>1, NoWindow
<1>6. \A b : At(p, b)' => b = "delete_shares" /\ req'[p].path = top
  BY <1>1, After DEF Follows, Leads, SameCall
<1>7. \A x \in DOMAIN tree : ~Under(x, top) => x \in DOMAIN tree' /\ tree'[x] = tree[x]
  BY <1>1 DEF RemoveDirs, Removed
<1>8. \A s \in shares' : Under(s.path, top) \/ Placed(s, s.path)'
  BY <1>1, <1>3, <1>7 DEF Placed, There
<1>9. GrantOf(p)'
  BY <1>6, <1>8 DEF GrantOf
<1>10. ~Moving(p)' => \A s \in shares' : Placed(s, s.path)'
  <2>1. CASE There(top)
    <3>1. Advance(p)
      BY <1>1, <2>1 DEF Pass
    <3>2. Busy(p)'
      BY <1>1, <3>1, AdvancesTo DEF Lasts
    <3>3. \E b : At(p, b)'
      BY <3>2, AtHead
    <3>4. At(p, "delete_shares")'
      BY <1>6, <3>3
    <3> QED BY <3>4, MovingBy DEF Movings
  <2>2. CASE ~There(top)
    <3>1. ASSUME NEW s \in shares
          PROVE  ~Under(s.path, top)
      <4>1. s.path \in DOMAIN tree
        BY <1>3, <3>1 DEF Placed, There
      <4>2. IsPath(s.path) /\ Above(s.path) \subseteq DOMAIN tree
        BY <1>2, <4>1, NodeParts
      <4> QED BY <1>2, <2>2, <4>1, <4>2, UnderOr DEF There
    <3> QED BY <1>1, <1>8, <3>1
  <2> QED BY <2>1, <2>2
<1>11. GrantsFollow'
  BY <1>3, <1>9, <1>10, OnlyMover
<1> QED BY <1>1, <1>2, <1>4, <1>5, <1>11, RemovalStays

\* Purging does: the eviction is ahead, and there are no grants left.
LEMMA PurgeStays ==
    ASSUME Typed, AccountsFirst, InStep, NEW p \in Slots, Step(p), ~SetsApart(p), Purge(p)
    PROVE  InStep'
<1> DEFINE top == req[p].path
           s == req'[p]
<1>1. /\ At(p, "purge") /\ Busy(p) /\ Head(req[p].todo) = "purge" /\ ~At(p, "evict_under") /\ Moves(p)
      /\ RemoveDirs(top) /\ Advance(p) /\ UNCHANGED <<memory, shares>>
  BY DEF Purge, At, Moves
<1>2. PathTree(tree) /\ ReqTyped /\ IsPath(top) /\ SharesTyped /\ Called(req[p]) /\ Plan(req[p].todo)
  BY <1>1, PathsOf DEF Typed, Resets, ReqTyped, Called
<1>3. (\A q \in Slots : ~Moving(q)) /\ \A g \in shares : Placed(g, g.path)
  BY <1>1, MoverAlone DEF InStep
<1>4. /\ Busy(p)' /\ SameCall(req[p], s) /\ Len(s.todo) = Len(req[p].todo) - 1
      /\ Follows(Head(req[p].todo), Head(s.todo))
  BY <1>1, AdvancesTo DEF Lasts
<1>5. Len(req[p].todo) = 2
  <2>1. PICK n \in Nat \ {0} : n = Len(req[p].todo)
    BY <1>2, PlanParts
  <2>2. req[p].todo[1] = "purge"
    BY <1>1, <1>2, PlanParts
  <2>3. \A i \in 1..n : req[p].todo[i] = "purge" => i + 1 = n
    BY <1>2, <2>1 DEF Plan
  <2>4. n = 2
    BY <2>2, <2>3
  <2> QED BY <2>1, <2>4
<1>6. At(p, "evict_under")' /\ Len(s.todo) = 1 /\ s.path = top
  BY <1>1, <1>4, <1>5 DEF Follows, Leads, At, SameCall
<1>7. \A x : Under(x, top) => Leaving(x)'
  BY <1>6 DEF Leaving
<1>8. WindowOf(p)'
  BY <1>1, NoWindow
<1>9. \A x \in DOMAIN tree : ~Under(x, top) => x \in DOMAIN tree' /\ tree'[x] = tree[x]
  BY <1>1 DEF RemoveDirs, Removed
<1>10. ASSUME NEW g \in shares
       PROVE  ~Under(g.path, top)
  <2>1. g.path[1] # top[1]
    BY <1>1 DEF AccountsFirst
  <2>2. IsPath(g.path)
    BY <1>2 DEF SharesTyped, IsShare
  <2> QED BY <1>2, <2>1, <2>2, UnderFirst
<1>11. \A g \in shares' : Placed(g, g.path)'
  BY <1>1, <1>3, <1>9, <1>10 DEF Placed, There
<1>12. GrantOf(p)'
  <2>1. ~At(p, "share_paths")' /\ ~At(p, "delete_shares")' /\ Len(req'[p].todo) # 2
    BY <1>6 DEF At
  <2> QED BY <1>11, <2>1 DEF GrantOf
<1>13. GrantsFollow'
  BY <1>3, <1>11, <1>12, OnlyMover
<1> QED BY <1>1, <1>2, <1>7, <1>8, <1>13, RemovalStays

\* A reset does: the cache and the grants go with the tree.
LEMMA ResetStays ==
    ASSUME Typed, InStep, NEW p \in Slots, Step(p), ~SetsApart(p), Reset(p)
    PROVE  InStep'
<1>1. /\ At(p, "reset") /\ Busy(p) /\ Head(req[p].todo) = "reset" /\ ~At(p, "evict_under") /\ Moves(p)
      /\ RemoveDirs(<<>>) /\ Advance(p) /\ UNCHANGED <<memory, shares>>
  BY DEF Reset, At, Moves
<1>2. (\A q \in Slots : ~Moving(q)) /\ \A g \in shares : Placed(g, g.path)
  BY <1>1, MoverAlone DEF InStep
<1>3. DOMAIN cache = {}
  BY <1>1 DEF InStep, Windows, WindowOf
<1>4. /\ Busy(p)' /\ Follows(Head(req[p].todo), Head(req'[p].todo))
  BY <1>1, AdvancesTo DEF Lasts
<1>5. At(p, "reset_shares")'
  BY <1>1, <1>4 DEF Follows, Leads, At
<1>6. WindowOf(p)'
  BY <1>1, NoWindow
<1>7. GrantsFollow'
  <2>1. ~At(p, "share_paths")' /\ ~At(p, "delete_shares")' /\ ~At(p, "evict_under")'
    BY <1>5 DEF At
  <2>2. GrantOf(p)'
    BY <2>1 DEF GrantOf
  <2>3. Moving(p)'
    BY <1>5, MovingBy DEF Movings
  <2> QED BY <1>2, <2>2, <2>3, OnlyMover
<1> QED BY <1>1, <1>3, <1>6, <1>7, RemovalStays

-----------------------------------------------------------------------------
(* Every step, by what it does *)

\* Steps that only look.
LEMMA LookingStays ==
    ASSUME Typed, InStep, NEW p \in Slots, Step(p), ~SetsApart(p),
           \/ GuardRead(p) \/ GuardWrite(p) \/ GuardOwner(p) \/ EvalQueryUnknown(p) \/ ToolEval(p)
           \/ MutateUnknown(p) \/ Precheck(p) \/ Collect(p) \/ ForkCheck(p) \/ Peek(p)
           \/ SnapshotCached(p)
    PROVE  InStep'
<1>1. UNCHANGED <<tree, shares, acked, cache, env>>
  BY Looking DEF disk, memory
<1>2. Head(req[p].todo) \in {"guard_read", "guard_write", "guard_owner", "eval_query", "tool_eval",
                             "assert", "retract", "retract_all", "wipe", "import", "precheck",
                             "collect", "fork_check", "peek", "snapshot_cached"}
  BY Heads DEF At
<1>3. WindowOf(p)'
  <2>1. CASE Collect(p)
    BY <2>1, CollectWindow
  <2>2. CASE Peek(p)
    BY <2>2, PeekWindow
  <2>3. CASE ~Collect(p) /\ ~Peek(p)
    <3>1. Head(req[p].todo) \notin {"collect", "peek"}
      BY <1>2, <2>3, After, Labels DEF At
    <3> QED BY <1>2, <3>1, NoWindow
  <2> QED BY <2>1, <2>2, <2>3
<1>4. Head(req[p].todo) \notin Movers \union Movings
  BY <1>2 DEF Movers, Movings
<1>5. Fits(cache', env') /\ \A x \in DOMAIN cache' : SameBrain(x)
  BY <1>1 DEF InStep, SameBrain
<1> QED BY <1>1, <1>3, <1>4, <1>5, ReaderStays

\* Steps that fetch and bind.
LEMMA ReadingStays ==
    ASSUME Typed, InStep, NEW p \in Slots, Step(p), ~SetsApart(p),
           \/ Load(p) \/ Query(p) \/ McpQuery(p) \/ EvalQuery(p) \/ ToolBind(p) \/ Schema(p)
           \/ Derived(p) \/ Snapshot(p)
    PROVE  InStep'
<1>1. Serves(req[p].path) /\ UNCHANGED <<tree, shares, acked>>
  BY Reading DEF disk
<1>2. PICK s \in {"load", "query", "mcp_query", "eval_query", "tool_bind", "schema", "derived",
                  "snapshot"} : At(p, s)
  BY Heads
<1>3. Touched(p) = {req[p].path}
  BY <1>2, TouchedBy
<1>4. Head(req[p].todo) = s
  BY <1>2 DEF At
<1>5. WindowOf(p)'
  BY <1>4, NoWindow
<1>6. Head(req[p].todo) \notin Movers \union Movings
  BY <1>4 DEF Movers, Movings
<1>7. Fits(cache', env') /\ \A x \in DOMAIN cache' : SameBrain(x) \/ (x = req[p].path /\ Fetched(x))
  BY <1>1, ServesBy DEF InStep, Typed
<1> QED BY <1>1, <1>3, <1>5, <1>6, <1>7, ReaderStays

\* Steps that evict.
LEMMA EvictingStays ==
    ASSUME Typed, InStep, NEW p \in Slots, Step(p), ~SetsApart(p),
           Evict(p) \/ Uncache(p) \/ EvictHeld(p) \/ ResetEvict(p) \/ EvalRaw(p) \/ Rebind(p)
    PROVE  InStep'
<1>1. Fewer /\ UNCHANGED <<tree, shares, acked>>
  BY Evicting DEF disk
<1>2. Head(req[p].todo) \in {"evict", "uncache", "evict_held", "reset_evict", "eval_raw", "rebind"}
  BY Heads DEF At
<1>3. WindowOf(p)'
  <2>1. CASE EvictHeld(p)
    BY <2>1, EvictHeldWindow
  <2>2. CASE ResetEvict(p)
    BY <2>2, ResetEvictWindow
  <2>3. CASE ~EvictHeld(p) /\ ~ResetEvict(p)
    <3>1. Head(req[p].todo) \notin {"evict_held", "reset_evict"}
      BY <2>3, After, Labels DEF At
    <3> QED BY <1>2, <3>1, NoWindow
  <2> QED BY <2>1, <2>2, <2>3
<1>4. Head(req[p].todo) \notin Movers \union Movings
  BY <1>2 DEF Movers, Movings
<1>5. Fits(cache', env') /\ \A x \in DOMAIN cache' : SameBrain(x)
  BY <1>1, FewerBy DEF InStep, Typed
<1> QED BY <1>1, <1>3, <1>4, <1>5, ReaderStays

\* Steps that save.
LEMMA WritingStays ==
    ASSUME Typed, InStep, NEW p \in Slots, Step(p), ~SetsApart(p),
           Mutate(p) \/ EvalChange(p) \/ CopyFact(p)
    PROVE  InStep'
<1>1. UNCHANGED shares
  BY DEF Mutate, EvalChange, CopyFact
<1>2. PICK s \in {"assert", "retract", "retract_all", "wipe", "import", "eval_assert",
                  "eval_retract", "eval_rule", "copy"} : At(p, s)
  BY Heads
<1>3. Head(req[p].todo) = s
  BY <1>2 DEF At
<1>4. WindowOf(p)'
  BY <1>3, NoWindow
<1>5. Head(req[p].todo) \notin Movers \union Movings
  BY <1>3 DEF Movers, Movings
<1> DEFINE path == IF CopyFact(p) THEN req[p].held.target ELSE req[p].path
<1>6. Touched(p) = {path}
  <2>1. CASE CopyFact(p)
    <3>1. At(p, "copy")
      BY <2>1, Heads
    <3> QED BY <2>1, <3>1, TouchedBy
  <2>2. CASE ~CopyFact(p)
    <3>1. \E b \in {"assert", "retract", "retract_all", "wipe", "import", "eval_assert",
                    "eval_retract", "eval_rule"} : At(p, b)
      BY <2>2, Heads
    <3> QED BY <2>2, <3>1, TouchedBy
  <2> QED BY <2>1, <2>2
<1>7. \/ Saves(p, path)
      \/ /\ UNCHANGED <<tree, acked>> /\ Fits(cache', env')
         /\ \A x \in DOMAIN cache' : SameBrain(x) \/ (x = path /\ Fetched(x))
  <2>1. CASE Mutate(p)
    <3>1. Loadable(req[p].path)
      BY <2>1 DEF Mutate
    <3>2. ~At(p, "wipe") /\ ~(At(p, "import") /\ req'[p] = Nothing)
      BY <3>1 DEF SetsApart
    <3>3. (Reads(req[p].path) /\ UNCHANGED <<tree, acked>>) \/ Saves(p, req[p].path)
      BY <2>1, <3>2, MutateBy DEF Typed
    <3>4. ~CopyFact(p)
      BY <2>1, Heads DEF At
    <3> QED BY <3>3, <3>4 DEF Reads, InStep
  <2>2. CASE EvalChange(p)
    <3>1. (Fewer /\ UNCHANGED <<tree, acked>>) \/ Saves(p, req[p].path)
      BY <2>2, EvalChangeBy DEF Typed
    <3>2. ~CopyFact(p)
      BY <2>2, Heads DEF At
    <3> QED BY <3>1, <3>2, FewerBy DEF Typed, InStep
  <2>3. CASE CopyFact(p)
    <3>1. UNCHANGED <<cache, env, tree, acked>> \/ Saves(p, req[p].held.target)
      BY <2>3, CopyFactBy DEF Typed
    <3> QED BY <2>3, <3>1 DEF InStep, SameBrain
  <2> QED BY <2>1, <2>2, <2>3
<1> HIDE DEF path
<1>8. CASE Saves(p, path)
  BY <1>1, <1>4, <1>5, <1>6, <1>8, SavingStays
<1>9. CASE /\ UNCHANGED <<tree, acked>> /\ Fits(cache', env')
           /\ \A x \in DOMAIN cache' : SameBrain(x) \/ (x = path /\ Fetched(x))
  BY <1>1, <1>4, <1>5, <1>6, <1>9, ReaderStays
<1> QED BY <1>7, <1>8, <1>9

\* Steps that make directories.
LEMMA MakingStays ==
    ASSUME Typed, Numbered, InStep, NEW p \in Slots, Step(p), ~SetsApart(p),
           \/ Init_(p) \/ FolderNew(p) \/ ExomNew(p) \/ ForkNew(p) \/ SessionDir(p) \/ SessionRows(p)
    PROVE  InStep'
<1>1. UNCHANGED <<memory, shares, acked>>
  BY Growing DEF Typed
<1>2. CASE SessionRows(p)
  <2>1. At(p, "session_rows") /\ Head(req[p].todo) = "session_rows"
    BY <1>2, Heads DEF At
  <2>2. WindowOf(p)'
    BY <2>1, NoWindow
  <2>3. SessionPath(req[p]) \notin DOMAIN cache \/ Leaving(SessionPath(req[p]))
    BY <2>1 DEF InStep, Windows, WindowOf
  <2> DEFINE x == SessionPath(req[p])
             n == req[p].id + 1
  <2>4. /\ Keeps(tree, tree', n, {x})
        /\ There(x) => tree[x].brain.rows \subseteq tree'[x].brain.rows
    BY <1>2, SessionRowsTree DEF Typed
  <2>5. x \notin DOMAIN cache \/ Leaving(x)
    BY <2>3
  <2>6. n = req[p].id + 1
    OBVIOUS
  <2> HIDE DEF x, n
  <2>7. \A y \in {x} : /\ y \notin DOMAIN cache \/ Leaving(y)
                       /\ There(y) => tree[y].brain.rows \subseteq tree'[y].brain.rows
    BY <2>4, <2>5
  <2> QED BY <1>1, <2>1, <2>2, <2>4, <2>6, <2>7, GrowingStays
<1>3. CASE ~SessionRows(p)
  <2>1. \E s \in Makers : At(p, s)
    BY <1>3, Heads DEF Makers
  <2>2. Keeps(tree, tree', req[p].id, {})
    <3>1. CASE SessionDir(p)
      <4>1. ~There(SessionPath(req[p]))
        BY <3>1, Heads DEF SetsApart
      <4> QED BY <3>1, <4>1, SessionDirTree DEF Typed
    <3>2. CASE ~SessionDir(p)
      BY <1>3, <3>2, Growing DEF Typed
    <3> QED BY <3>1, <3>2
  <2>3. WindowOf(p)'
    <3>1. CASE SessionDir(p)
      BY <3>1, SessionDirWindow
    <3>2. CASE ~SessionDir(p)
      <4>1. Head(req[p].todo) \in {"init", "folder_new", "exom_new", "fork_new"}
        BY <1>3, <3>2, Heads DEF At
      <4> QED BY <4>1, NoWindow
    <3> QED BY <3>1, <3>2
  <2> DEFINE n == req[p].id
             S == {}
  <2>4. Keeps(tree, tree', n, S) /\ n = req[p].id /\ \A x \in S : FALSE
    BY <2>2
  <2> HIDE DEF n, S
  <2> QED BY <1>1, <2>1, <2>3, <2>4, GrowingStays
<1> QED BY <1>2, <1>3

\* The steps of MCP's fork that fetch its source without the lock and then cache it.
LEMMA LoadingStays ==
    ASSUME Typed, InStep, NEW p \in Slots, Step(p), ~SetsApart(p), ForkLoad(p) \/ ForkInsert(p)
    PROVE  InStep'
<1>1. CASE ForkLoad(p)
  <2>1. Head(req[p].todo) = "fork_load" /\ UNCHANGED <<tree, shares, acked, cache>>
    BY <1>1, Heads, ForkLoadBy DEF At, disk
  <2>2. Head(req[p].todo) \notin Movers \union Movings
    BY <2>1 DEF Movers, Movings
  <2>3. WindowOf(p)' /\ Fits(cache', env')
    BY <1>1, ForkLoadWindow
  <2>4. \A x \in DOMAIN cache' : SameBrain(x)
    BY <2>1 DEF SameBrain
  <2> QED BY <2>1, <2>2, <2>3, <2>4, ReaderStays
<1>2. CASE ForkInsert(p)
  <2> DEFINE path == req[p].path
             entry == req[p].held.entry
  <2>1. At(p, "fork_insert") /\ Head(req[p].todo) = "fork_insert"
    BY <1>2, Heads DEF At
  <2>2. Head(req[p].todo) \notin Movers \union Movings
    BY <2>1 DEF Movers, Movings
  <2>3. WindowOf(p)'
    BY <2>1, NoWindow
  <2>4. Touched(p) = {path}
    BY <2>1, TouchedBy
  <2>5. /\ path \notin DOMAIN cache /\ IsExom(path) /\ entry = FromDisk(tree[path].brain)
        /\ path \in DOMAIN env /\ env[path] = entry.datoms
    BY <2>1 DEF InStep, Windows, WindowOf
  <2>6. UNCHANGED <<tree, shares, acked, env>> /\ Sets(cache, cache', path, entry)
    BY <1>2, ForkInsertBy DEF Typed, disk
  <2>7. IsBrain(tree[path].brain)
    BY <2>5, NodeParts DEF Typed, IsExom, There, IsNode
  <2>8. entry.brain = tree[path].brain /\ \E b \in entry.brain.branches : entry.datoms = View(entry.brain, b)
    <3> HIDE DEF path, entry
    <3> DEFINE brain == tree[path].brain
    <3>1. entry = FromDisk(brain) /\ IsBrain(brain)
      BY <2>5, <2>7
    <3> HIDE DEF brain
    <3>2. entry.brain = brain /\ \E b \in entry.brain.branches : entry.datoms = View(entry.brain, b)
      BY <3>1, FromDiskBy
    <3> QED BY <3>2 DEF brain
  <2> HIDE DEF path, entry
  <2>9. Fits(cache', env')
    <3>1. Sets(env, env', path, entry.datoms)
      BY <2>5, <2>6 DEF Sets
    <3> QED BY <2>6, <2>8, <3>1, SetsFits DEF InStep
  <2>10. \A x \in DOMAIN cache' : SameBrain(x) \/ (x \in Touched(p) /\ Fetched(x))
    BY <2>4, <2>5, <2>6, <2>8 DEF Sets, SameBrain, Fetched
  <2> QED BY <2>2, <2>3, <2>6, <2>9, <2>10, ReaderStays
<1> QED BY <1>1, <1>2

LEMMA DeleteUserStays ==
    ASSUME Typed, InStep, NEW p \in Slots, Step(p), ~SetsApart(p), DeleteUser(p)
    PROVE  InStep'
<1>1. Head(req[p].todo) = "delete_user" /\ UNCHANGED <<tree, acked, cache, env>> /\ shares' \subseteq shares
  BY Heads, Revoking DEF At, memory
<1>2. Head(req[p].todo) \notin Movers \union Movings
  BY <1>1 DEF Movers, Movings
<1>3. WindowOf(p)'
  BY <1>1, NoWindow
<1>4. Fits(cache', env') /\ \A x \in DOMAIN cache' : SameBrain(x)
  BY <1>1 DEF InStep, SameBrain
<1> QED BY <1>1, <1>2, <1>3, <1>4, ReaderStays

\* So every step that sets nothing apart keeps all in step.
LEMMA StepInStep ==
    ASSUME Typed, Numbered, AccountsFirst, InStep, NEW p \in Slots, Step(p), ~SetsApart(p)
    PROVE  InStep'
<1>1. CASE \/ GuardRead(p) \/ GuardWrite(p) \/ GuardOwner(p) \/ EvalQueryUnknown(p) \/ ToolEval(p)
           \/ MutateUnknown(p) \/ Precheck(p) \/ Collect(p) \/ ForkCheck(p) \/ Peek(p)
           \/ SnapshotCached(p)
  BY <1>1, LookingStays
<1>2. CASE \/ Load(p) \/ Query(p) \/ McpQuery(p) \/ EvalQuery(p) \/ ToolBind(p) \/ Schema(p)
           \/ Derived(p) \/ Snapshot(p)
  BY <1>2, ReadingStays
<1>3. CASE Evict(p) \/ Uncache(p) \/ EvictHeld(p) \/ ResetEvict(p) \/ EvalRaw(p) \/ Rebind(p)
  BY <1>3, EvictingStays
<1>4. CASE EvictUnder(p)
  BY <1>4, EvictUnderStays
<1>5. CASE Mutate(p) \/ EvalChange(p) \/ CopyFact(p)
  BY <1>5, WritingStays
<1>6. CASE \/ Init_(p) \/ FolderNew(p) \/ ExomNew(p) \/ ForkNew(p) \/ SessionDir(p) \/ SessionRows(p)
  BY <1>6, MakingStays
<1>7. CASE RenameDir(p)
  BY <1>7, RenameStays
<1>8. CASE DeleteDir(p)
  BY <1>8, DeleteStays
<1>9. CASE Purge(p)
  BY <1>9, PurgeStays
<1>10. CASE Reset(p)
  BY <1>10, ResetStays
<1>11. CASE SharePaths(p) \/ DeleteShares(p) \/ ResetShares(p)
  BY <1>11, SharesStay
<1>12. CASE DeleteUser(p)
  BY <1>12, DeleteUserStays
<1>13. CASE ForkLoad(p) \/ ForkInsert(p)
  BY <1>13, LoadingStays
<1> QED
  BY <1>1, <1>2, <1>3, <1>4, <1>5, <1>6, <1>7, <1>8, <1>9, <1>10, <1>11, <1>12, <1>13 DEF Step

-----------------------------------------------------------------------------
(* Requests that begin, restarts, and the start *)

\* A new request does: nothing holds a number of its own yet.
LEMMA BeginInStep ==
    ASSUME Typed, Numbered, InStep, NEW p \in Slots, Begin(p)
    PROVE  InStep'
<1>1. /\ Others(p) /\ ~Busy(p) /\ Opens(req'[p]) /\ req'[p].id = FirstId + 2 * begun
      /\ begun' = begun + 1 /\ UNCHANGED <<tree, shares, acked, cache, env>>
      /\ begun \in Nat /\ FirstId \in Nat
  BY BeginBy, ExomsAssumption DEF Typed, disk, memory
<1>2. \A q \in Slots \ {p} : req'[q] = req[q] /\ (Busy(q)' <=> Busy(q)) /\ \A s : At(q, s)' <=> At(q, s)
  BY <1>1 DEF Others, At, Busy, Idle
<1>3. \A s : ~At(p, s)
  BY <1>1 DEF At
<1>4. \A s : At(p, s)' => s \in Openers
  BY <1>1 DEF At, Opens
<1>5. \A s \in Movings \union {"evict_held", "delete", "reset", "session_rows", "fork_load", "fork_insert"} :
          ~At(p, s)'
  BY <1>4 DEF Openers, Movings
<1>6. IdsDiffer'
  <2>1. \A x \in DOMAIN tree' : tree'[x].id[1] \in 0..(FirstId + 2 * begun - 1)
    BY <1>1 DEF InStep, IdsDiffer, Number
  <2>2. \A x \in DOMAIN tree' : tree'[x].id[1] \in 0..(FirstId + 2 * begun' - 1)
    BY <1>1, <2>1
  <2>3. \A x \in DOMAIN tree' : tree'[x].id[1] # req'[p].id /\ tree'[x].id[1] # req'[p].id + 1
    BY <1>1, <2>1
  <2>4. \A q \in Slots \ {p} : Busy(q)' =>
          /\ Ahead(req'[q], Makers) => \A x \in DOMAIN tree' : tree'[x].id[1] # req'[q].id
          /\ Ahead(req'[q], {"session_rows"}) => \A x \in DOMAIN tree' : tree'[x].id[1] # req'[q].id + 1
    BY <1>1, <1>2 DEF InStep, IdsDiffer, Number
  <2>5. \A q \in Slots : Busy(q)' =>
          /\ Ahead(req'[q], Makers) => \A x \in DOMAIN tree' : tree'[x].id[1] # req'[q].id
          /\ Ahead(req'[q], {"session_rows"}) => \A x \in DOMAIN tree' : tree'[x].id[1] # req'[q].id + 1
    BY <2>3, <2>4
  <2>6. \A x, y \in DOMAIN tree' : tree'[x].id = tree'[y].id => x = y
    BY <1>1 DEF InStep, IdsDiffer
  <2> QED BY <2>2, <2>5, <2>6 DEF IdsDiffer, Number
<1>7. \A x : Leaving(x) => Leaving(x)'
  BY <1>2, <1>3 DEF Leaving
<1>8. CacheFollows'
  BY <1>1, <1>7 DEF InStep, CacheFollows, OnDisk, IsExom, There
<1>9. Kept' /\ Fits(cache', env')
  BY <1>1 DEF InStep, Kept
<1>10. Windows'
  <2>1. WindowOf(p)'
    BY <1>5 DEF WindowOf
  <2>2. ASSUME NEW q \in Slots \ {p}
        PROVE  WindowOf(q)'
    <3> DEFINE r == req[q]
               s == SessionPath(r)
    <3>1. UNCHANGED <<r, s>> /\ WindowOf(q) /\ \A b : At(q, b)' <=> At(q, b)
      BY <1>2 DEF InStep, Windows
    <3>2. \A x : Nested(x) => Nested(x)'
      BY <1>1 DEF Nested, IsExom, There
    <3>3. At(q, "evict_held")' => \A path \in DOMAIN cache' :
              Under(path, req'[q].path) => path \in req'[q].held \/ Nested(path)' \/ Leaving(path)'
      BY <1>1, <1>2, <1>7, <3>1, <3>2 DEF WindowOf
    <3>4. At(q, "delete")' => \A path \in DOMAIN cache' :
              Under(path, req'[q].path) => Nested(path)' \/ Leaving(path)'
      BY <1>1, <1>2, <1>7, <3>1, <3>2 DEF WindowOf
    <3>5. At(q, "reset")' => DOMAIN cache' = {}
      BY <1>1, <3>1 DEF WindowOf
    <3>6. At(q, "session_rows")' => SessionPath(req'[q]) \notin DOMAIN cache' \/ Leaving(SessionPath(req[q]))'
      <4>1. At(q, "session_rows") => s \notin DOMAIN cache \/ Leaving(s)
        BY <3>1 DEF WindowOf
      <4>2. Leaving(s) => \E b \in Slots : At(b, "evict_under")' /\ Under(s, req'[b].path)
        BY <1>2, <1>3 DEF Leaving
      <4>3. SessionPath(req'[q]) = s
        BY <1>2
      <4> HIDE DEF s
      <4> QED BY <1>1, <3>1, <4>1, <4>2, <4>3 DEF Leaving
    <3>7. At(q, "fork_load")' => req'[q].path \notin DOMAIN cache'
      BY <1>1, <1>2, <3>1 DEF WindowOf
    <3>8. At(q, "fork_insert")' =>
            /\ req'[q].path \notin DOMAIN cache' /\ IsExom(req[q].path)'
            /\ req'[q].held.entry = FromDisk(tree'[req'[q].path].brain)
            /\ req'[q].path \in DOMAIN env' /\ env'[req'[q].path] = req'[q].held.entry.datoms
      BY <1>1, <1>2, <3>1 DEF WindowOf, IsExom, There
    <3> QED BY <3>3, <3>4, <3>5, <3>6, <3>7, <3>8 DEF WindowOf
  <2> QED BY <2>1, <2>2 DEF Windows
<1>11. GrantsFollow'
  <2>1. ~Moving(p) /\ ~Moving(p)'
    BY <1>3, <1>5, MovingBy
  <2>2. \A q \in Slots \ {p} : Moving(q)' <=> Moving(q)
    BY <1>2, MovingBy
  <2>3. \A s, x : Placed(s, x) => Placed(s, x)'
    BY <1>1 DEF Placed, There
  <2>4. GrantOf(p)'
    BY <1>5 DEF GrantOf, Movings
  <2>5. ASSUME NEW q \in Slots \ {p}
        PROVE  GrantOf(q)'
    <3> DEFINE r == req[q]
               M(s) == Moved(s.path, r.path, Renamed(r))
    <3>1. UNCHANGED r /\ GrantOf(q) /\ \A b : At(q, b)' <=> At(q, b)
      BY <1>2 DEF InStep, GrantsFollow
    <3>2. At(q, "share_paths") \/ (At(q, "evict_under") /\ Len(r.todo) = 2) =>
            \A s \in shares' : Placed(s, Moved(s.path, r.path, Renamed(r)))'
      <4>1. ASSUME NEW s, Placed(s, M(s))
            PROVE  Placed(s, Moved(s.path, r.path, Renamed(r)))'
        <5> DEFINE m == M(s)
        <5>1. m \in DOMAIN tree' /\ tree'[m].id = s.id
          BY <1>1, <4>1 DEF Placed, There
        <5>2. UNCHANGED m
          BY <3>1
        <5> HIDE DEF m
        <5> QED BY <5>1, <5>2 DEF Placed, There, m
      <4> QED BY <1>1, <3>1, <4>1 DEF GrantOf
    <3>3. At(q, "evict_under") /\ Len(r.todo) = 1 => \A s \in shares' : Placed(s, s.path)'
      BY <1>1, <2>3, <3>1 DEF GrantOf
    <3>4. At(q, "delete_shares") => \A s \in shares' : Under(s.path, r.path) \/ Placed(s, s.path)'
      BY <1>1, <2>3, <3>1 DEF GrantOf
    <3> QED BY <3>1, <3>2, <3>3, <3>4 DEF GrantOf
  <2>6. (\A q \in Slots : ~Moving(q)') => \A s \in shares' : Placed(s, s.path)'
    BY <1>1, <2>1, <2>2, <2>3 DEF InStep, GrantsFollow
  <2>7. \A q, s \in Slots : Moving(q)' /\ Moving(s)' => q = s
    BY <2>1, <2>2 DEF InStep, GrantsFollow
  <2> QED BY <2>4, <2>5, <2>6, <2>7 DEF GrantsFollow
<1> QED BY <1>6, <1>8, <1>9, <1>10, <1>11 DEF InStep, Fits

\* When nobody is in the middle of anything
Alone ==
    /\ \A q \in Slots : Idle(q)
    /\ \A x \in DOMAIN tree : Number(x) \in 0..(FirstId + 2 * begun - 1)
    /\ \A x, y \in DOMAIN tree : tree[x].id = tree[y].id => x = y
    /\ \A x \in DOMAIN cache : OnDisk(x)
    /\ Fits(cache, env) /\ Kept
    /\ \A s \in shares : Placed(s, s.path)

\* With no request in progress, all is in step if the cache and the grants are those of the tree.
LEMMA AloneInStep == Alone => InStep
<1> SUFFICES ASSUME Alone
             PROVE  InStep
  OBVIOUS
<1>1. \A q \in Slots : \A s : ~At(q, s)
  BY DEF Alone, At, Busy
<1>2. \A q \in Slots : ~Moving(q)
  BY <1>1, MovingBy DEF Movings
<1>3. IdsDiffer
  BY DEF Alone, IdsDiffer, Busy
<1>4. CacheFollows
  BY DEF Alone, CacheFollows
<1>5. Windows
  BY <1>1 DEF Windows, WindowOf
<1>6. GrantsFollow
  BY <1>1, <1>2 DEF Alone, GrantsFollow, GrantOf
<1> QED BY <1>3, <1>4, <1>5, <1>6 DEF Alone, InStep

LEMMA AloneNext == Alone' => InStep'
BY AloneInStep, PTL

\* A restart builds the cache from the tree.
LEMMA RestartInStep ==
    ASSUME Typed, InStep, Restart, ~apart'
    PROVE  InStep'
<1>1. /\ UNCHANGED <<tree, shares, acked, begun>> /\ cache' = Booted(tree) /\ env' = Bindings(cache')
      /\ req' = [p \in Slots |-> Nothing] /\ \A q \in Slots : ~Moving(q)
  BY DEF Restart, disk
<1> DEFINE c == Booted(tree)
<1>2. /\ Fits(c, Bindings(c))
      /\ \A x \in DOMAIN c : x \in DOMAIN tree /\ tree[x].kind # "folder" /\ c[x].brain = tree[x].brain
  BY BootedBy DEF Typed
<1>3. c = cache'
  BY <1>1
<1> HIDE DEF c
<1>4. \A x \in DOMAIN cache' : OnDisk(x)'
  BY <1>1, <1>2, <1>3 DEF OnDisk, IsExom, There
<1>5. Fits(cache', env')
  BY <1>1, <1>2, <1>3
<1>6. \A q \in Slots : Idle(q)'
  BY <1>1 DEF Idle
<1>7. \A x \in DOMAIN tree' : tree'[x].id[1] \in 0..(FirstId + 2 * begun' - 1)
  BY <1>1 DEF InStep, IdsDiffer, Number
<1>8. \A x, y \in DOMAIN tree' : tree'[x].id = tree'[y].id => x = y
  BY <1>1 DEF InStep, IdsDiffer
<1>9. Kept'
  BY <1>1 DEF InStep, Kept
<1>10. \A s \in shares' : Placed(s, s.path)'
  BY <1>1 DEF InStep, GrantsFollow, Placed, There
<1>11. Alone'
  BY <1>4, <1>5, <1>6, <1>7, <1>8, <1>9, <1>10 DEF Alone, Number, Fits
<1> QED BY <1>11, AloneNext

\* So does the first start.
LEMMA InitInStep ==
    ASSUME Init
    PROVE  InStep
<1>1. PICK s \in Starts : tree = s.tree /\ shares = s.shares
  BY DEF Init
<1>2. /\ \A x \in DOMAIN tree : \E n \in 0..(FirstId - 1) : tree[x].id = <<n, x>>
      /\ \A g \in shares : g.path \in DOMAIN tree /\ tree[g.path].id = g.id
  BY <1>1, StartsAssumption
<1>3. PathTree(tree) /\ begun = 0 /\ FirstId \in Nat
  BY InitTyped, ExomsAssumption DEF Typed, Init
<1>4. \A n, x : <<n, x>>[1] = n /\ <<n, x>>[2] = x
  OBVIOUS
<1>5. \A x \in DOMAIN tree : Number(x) \in 0..(FirstId + 2 * begun - 1)
  <2>1. \A x \in DOMAIN tree : Number(x) \in 0..(FirstId - 1)
    BY <1>2, <1>4 DEF Number
  <2> QED BY <1>3, <2>1
<1>6. \A x, y \in DOMAIN tree : tree[x].id = tree[y].id => x = y
  BY <1>2, <1>4
<1>7. (\A x \in DOMAIN cache : OnDisk(x)) /\ Fits(cache, env)
  <2> DEFINE c == Booted(tree)
  <2>1. /\ Fits(c, Bindings(c))
        /\ \A x \in DOMAIN c : x \in DOMAIN tree /\ tree[x].kind # "folder" /\ c[x].brain = tree[x].brain
    BY <1>3, BootedBy
  <2>2. c = cache /\ env = Bindings(cache)
    BY DEF Init
  <2> HIDE DEF c
  <2> QED BY <2>1, <2>2 DEF OnDisk, IsExom, There
<1>8. Kept
  <2>1. acked = AckedIn(tree)
    BY DEF Init
  <2>2. ASSUME NEW a \in AckedIn(tree)
        PROVE  \E x \in DOMAIN tree : tree[x].id = a.id /\ a.row \in tree[x].brain.rows
    <3>1. PICK x \in DOMAIN tree : a \in {[id |-> tree[x].id, row |-> r] : r \in tree[x].brain.rows}
      BY DEF AckedIn
    <3> QED BY <3>1
  <2> QED BY <2>1, <2>2 DEF Kept
<1>9. \A g \in shares : Placed(g, g.path)
  BY <1>2 DEF Placed, There
<1>10. \A q \in Slots : Idle(q)
  BY DEF Init, Idle
<1> QED BY <1>5, <1>6, <1>7, <1>8, <1>9, <1>10, AloneInStep DEF Alone

-----------------------------------------------------------------------------
(* What is answered *)

\* A query is evaluated over what it has just bound.
LEMMA EvaluateAnswers ==
    ASSUME Typed, InStep, NEW p \in Slots, Step(p), ~SetsApart(p), ~At(p, "evict_under"),
           Touched(p) = {req[p].path}, NEW outcomes, QueryOn(p, outcomes)
    PROVE  answer' = NoAnswer \/ answer'.got = answer'.due
<1> DEFINE r == req[p]
           path == r.path
           b == r.branch
           brain == Loaded(path)[path].brain
           c == Rebound(Loaded(path), path, b)
           d == View(brain, b)
<1>1. CASE ~Loadable(path) \/ b \notin brain.branches
  BY <1>1 DEF QueryOn, UnknownBranch, Quiet
<1>2. CASE Loadable(path) /\ b \in brain.branches
  <2>1. Evaluate(p, c, outcomes)
    BY <1>2 DEF QueryOn
  <2>2. IsExom(path) /\ brain = tree[path].brain
    BY <1>2, TouchedOnDisk
  <2>3. c[path].datoms = d /\ c[path].typed = d
    <3>1. path \in DOMAIN Loaded(path)
      BY <1>2, LoadedBrain DEF Typed
    <3>2. Sets(Loaded(path), c, path, Entry(brain, d))
      BY <3>1, ReboundSets
    <3> HIDE DEF c, d, brain
    <3> QED BY <3>2 DEF Sets, Entry
  <2> HIDE DEF c
  <2>4. \/ Quiet
        \/ /\ env' = Insert(Bound(path), path, c[path].datoms) /\ typed' = c[path].typed
           /\ Answer(p, env'[path], typed')
    BY <2>1 DEF Evaluate
  <2>5. ASSUME env' = Insert(Bound(path), path, c[path].datoms), typed' = c[path].typed,
               Answer(p, env'[path], typed')
        PROVE  answer'.got = answer'.due
    <3>1. env'[path] = d /\ typed' = d
      BY <2>3, <2>5 DEF Insert
    <3>2. Answer(p, d, d)
      BY <2>5, <3>1
    <3>3. View(tree[path].brain, b) = d
      BY <2>2
    <3> HIDE DEF d
    <3> QED BY <2>2, <3>2, <3>3 DEF Answer, IsExom
  <2> QED BY <2>4, <2>5 DEF Quiet
<1> QED BY <1>1, <1>2

LEMMA LoadAnswers ==
    ASSUME Typed, InStep, NEW p \in Slots, Step(p), ~SetsApart(p), ~At(p, "evict_under"),
           Touched(p) = {req[p].path}, Load(p)
    PROVE  answer' = NoAnswer \/ answer'.got = answer'.due
<1> DEFINE r == req[p]
           path == r.path
           brain == Loaded(path)[path].brain
           d == View(brain, r.branch)
<1>1. Quiet \/ (Loadable(path) /\ Answer(p, d, d))
  BY DEF Load
<1>2. ASSUME Loadable(path), Answer(p, d, d)
      PROVE  answer'.got = answer'.due
  <2>1. IsExom(path) /\ brain = tree[path].brain
    BY <1>2, TouchedOnDisk
  <2>2. View(tree[path].brain, r.branch) = d
    BY <2>1
  <2> HIDE DEF d
  <2> QED BY <1>2, <2>1, <2>2 DEF Answer, IsExom
<1> QED BY <1>1, <1>2 DEF Quiet

\* The other steps answer nothing, or something else.
LEMMA OtherAnswers ==
    ASSUME NEW p \in Slots, Step(p), ~(Load(p) \/ Query(p) \/ McpQuery(p) \/ EvalQuery(p))
    PROVE  answer' = NoAnswer \/ answer'.op \in {"tool_eval", "schema", "derived"}
<1>1. CASE \/ GuardRead(p) \/ GuardWrite(p) \/ GuardOwner(p) \/ EvalQueryUnknown(p)
           \/ MutateUnknown(p) \/ Precheck(p) \/ Collect(p) \/ ForkCheck(p) \/ Peek(p)
           \/ SnapshotCached(p) \/ Snapshot(p)
  BY <1>1 DEF GuardRead, GuardWrite, GuardOwner, Guard, EvalQueryUnknown, MutateUnknown, Precheck,
              Collect, ForkCheck, Peek, SnapshotCached, Snapshot, Quiet
<1>2. CASE ToolEval(p) \/ Schema(p) \/ Derived(p)
  <2>1. Head(req[p].todo) \in {"tool_eval", "schema", "derived"}
    BY <1>2, Heads DEF At
  <2>2. Quiet \/ \E d, t : Answer(p, d, t)
    <3>1. CASE ToolEval(p)
      BY <3>1 DEF ToolEval
    <3>2. CASE Schema(p)
      BY <3>2 DEF Schema, UnknownBranch
    <3>3. CASE Derived(p)
      BY <3>3 DEF Derived
    <3> QED BY <1>2, <3>1, <3>2, <3>3
  <2> QED BY <2>1, <2>2 DEF Answer, Quiet
<1>3. CASE ToolBind(p) \/ EvalRaw(p) \/ Rebind(p) \/ Evict(p) \/ Uncache(p)
  BY <1>3 DEF ToolBind, EvalRaw, Rebind, Evict, Uncache, Quiet
<1>4. CASE Mutate(p) \/ EvalChange(p) \/ CopyFact(p)
  BY <1>4 DEF Mutate, EvalChange, CopyFact, Quiet
<1>5. CASE \/ Init_(p) \/ FolderNew(p) \/ ExomNew(p) \/ ForkNew(p) \/ SessionDir(p) \/ SessionRows(p)
           \/ RenameDir(p)
  BY <1>5 DEF Init_, FolderNew, ExomNew, ForkNew, SessionDir, SessionRows, RenameDir, Reshape, Quiet
<1>6. CASE \/ EvictUnder(p) \/ SharePaths(p) \/ EvictHeld(p) \/ DeleteDir(p) \/ DeleteShares(p)
           \/ DeleteUser(p) \/ Purge(p) \/ ResetEvict(p) \/ Reset(p) \/ ResetShares(p)
           \/ ForkLoad(p) \/ ForkInsert(p)
  BY <1>6 DEF EvictUnder, SharePaths, EvictHeld, DeleteDir, DeleteShares, DeleteUser, Purge,
              ResetEvict, Reset, ResetShares, ForkLoad, ForkInsert, Quiet
<1> QED BY <1>1, <1>2, <1>3, <1>4, <1>5, <1>6 DEF Step

Right == answer.op \in {"load", "query", "mcp_query", "eval_query"} => answer.got = answer.due

\* Every step that sets nothing apart answers rightly.
LEMMA StepRight ==
    ASSUME Typed, InStep, NEW p \in Slots, Step(p), ~SetsApart(p)
    PROVE  Right'
<1>1. NoAnswer.op = "none"
  BY DEF NoAnswer
<1>2. CASE Load(p) \/ Query(p) \/ McpQuery(p) \/ EvalQuery(p)
  <2>1. PICK s \in {"load", "query", "mcp_query", "eval_query"} : At(p, s)
    BY <1>2, Heads
  <2>2. Touched(p) = {req[p].path}
    BY <2>1, TouchedBy
  <2>3. ~At(p, "evict_under")
    BY <2>1 DEF At
  <2>4. answer' = NoAnswer \/ answer'.got = answer'.due
    <3>1. CASE Load(p)
      BY <2>2, <2>3, <3>1, LoadAnswers
    <3>2. CASE Query(p) \/ McpQuery(p) \/ EvalQuery(p)
      <4>1. PICK outcomes : QueryOn(p, outcomes)
        BY <3>2 DEF Query, McpQuery, EvalQuery
      <4> QED BY <2>2, <2>3, <4>1, EvaluateAnswers
    <3> QED BY <1>2, <3>1, <3>2
  <2> QED BY <1>1, <2>4 DEF Right
<1>3. CASE ~(Load(p) \/ Query(p) \/ McpQuery(p) \/ EvalQuery(p))
  BY <1>1, <1>3, OtherAnswers DEF Right
<1> QED BY <1>2, <1>3

-----------------------------------------------------------------------------
(* The inductive invariant *)

Inv ==
    /\ Typed /\ Numbered /\ AccountsFirst
    /\ ~apart => InStep /\ Right

\* Inv is inductive.
LEMMA InitInv == Init => Inv
<1> SUFFICES ASSUME Init
             PROVE  Inv
  OBVIOUS
<1>1. \A q \in Slots : ~Busy(q) /\ \A s : ~At(q, s)
  BY DEF Init, At, Busy, Idle
<1>2. Numbered /\ AccountsFirst
  BY <1>1 DEF Numbered, AccountsFirst
<1>3. Right
  BY DEF Init, Right, NoAnswer
<1> QED BY <1>2, <1>3, InitTyped, InitInStep DEF Inv

LEMMA StutterInStep ==
    ASSUME InStep, UNCHANGED vars
    PROVE  InStep'
<1>1. UNCHANGED <<tree, shares, cache, env, req, begun, acked>>
  BY DEF vars
<1>2. IdsDiffer'
  BY <1>1 DEF InStep, IdsDiffer, Number, Busy, Idle, Ahead
<1>3. CacheFollows'
  BY <1>1 DEF InStep, CacheFollows, OnDisk, IsExom, There, Leaving, At, Busy, Idle
<1>4. Fits(cache, env)' /\ Kept'
  BY <1>1 DEF InStep, Fits, Kept, View
<1>5. Windows'
  <2>1. SUFFICES ASSUME NEW q \in Slots
                 PROVE  WindowOf(q)'
    BY DEF Windows
  <2> DEFINE r == req[q]
             s == SessionPath(r)
  <2>2. UNCHANGED <<r, s>> /\ WindowOf(q) /\ \A b : At(q, b)' <=> At(q, b)
    BY <1>1 DEF InStep, Windows, At, Busy, Idle
  <2>3. \A x : (Nested(x) => Nested(x)') /\ (IsExom(x) => IsExom(x)')
    BY <1>1 DEF Nested, IsExom, There
  <2>4. \A x : Leaving(x) => \E b \in Slots : At(b, "evict_under")' /\ Under(x, req'[b].path)
    BY <1>1 DEF Leaving, At, Busy, Idle
  <2>5. \A x : Leaving(x) => Leaving(x)'
    BY <2>4 DEF Leaving
  <2>6. At(q, "evict_held")' => \A path \in DOMAIN cache' :
            Under(path, req'[q].path) => path \in req'[q].held \/ Nested(path)' \/ Leaving(path)'
    BY <1>1, <2>2, <2>3, <2>5 DEF WindowOf
  <2>7. At(q, "delete")' => \A path \in DOMAIN cache' :
            Under(path, req'[q].path) => Nested(path)' \/ Leaving(path)'
    BY <1>1, <2>2, <2>3, <2>5 DEF WindowOf
  <2>8. At(q, "reset")' => DOMAIN cache' = {}
    BY <1>1, <2>2 DEF WindowOf
  <2>9. At(q, "session_rows")' => SessionPath(req'[q]) \notin DOMAIN cache' \/ Leaving(SessionPath(req[q]))'
    <3>1. At(q, "session_rows") => s \notin DOMAIN cache \/ Leaving(s)
      BY <2>2 DEF WindowOf
    <3>2. SessionPath(req'[q]) = s
      BY <1>1
    <3> HIDE DEF s
    <3> QED BY <1>1, <2>2, <2>4, <3>1, <3>2 DEF Leaving
  <2>10. At(q, "fork_load")' => req'[q].path \notin DOMAIN cache'
    BY <1>1, <2>2 DEF WindowOf
  <2>11. At(q, "fork_insert")' =>
            /\ req'[q].path \notin DOMAIN cache' /\ IsExom(req[q].path)'
            /\ req'[q].held.entry = FromDisk(tree'[req'[q].path].brain)
            /\ req'[q].path \in DOMAIN env' /\ env'[req'[q].path] = req'[q].held.entry.datoms
    BY <1>1, <2>2 DEF WindowOf, IsExom, There
  <2> QED BY <2>6, <2>7, <2>8, <2>9, <2>10, <2>11 DEF WindowOf
<1>6. GrantsFollow'
  BY <1>1 DEF InStep, GrantsFollow, Moving, GrantOf, At, Busy, Idle, Placed, There, Renamed
<1> QED BY <1>2, <1>3, <1>4, <1>5, <1>6 DEF InStep

LEMMA NextInv == Inv /\ [Next]_vars => Inv'
<1> SUFFICES ASSUME Inv, [Next]_vars
             PROVE  Inv'
  OBVIOUS
<1>1. Typed'
  BY NextTyped DEF Inv
<1>2. ASSUME NEW p \in Slots, Step(p)
      PROVE  Inv'
  <2>1. Numbered' /\ AccountsFirst'
    BY <1>2, StepNumbered, StepAccounts DEF Inv
  <2>2. ASSUME ~apart'
        PROVE  InStep' /\ Right'
    <3>1. ~apart /\ ~SetsApart(p)
      BY <1>2, <2>2 DEF Step
    <3> QED BY <1>2, <3>1, StepInStep, StepRight DEF Inv
  <2> QED BY <1>1, <2>1, <2>2 DEF Inv
<1>3. ASSUME NEW p \in Slots, Begin(p)
      PROVE  Inv'
  <2>1. Numbered'
    BY <1>3, BeginNumbered DEF Inv
  <2>2. Others(p) /\ Opens(req'[p]) /\ answer' = NoAnswer /\ UNCHANGED <<disk, memory, apart>>
    BY <1>3, BeginBy, ExomsAssumption DEF Inv, Typed
  <2>3. AccountsFirst'
    <3>1. ~At(p, "purge")'
      BY <2>2 DEF At, Opens, Openers
    <3>2. \A q \in Slots \ {p} : At(q, "purge")' => At(q, "purge") /\ req'[q] = req[q]
      BY <2>2 DEF Others, At, Busy, Idle
    <3> QED BY <2>2, <3>1, <3>2 DEF AccountsFirst, Inv, disk
  <2>4. Right'
    BY <2>2 DEF Right, NoAnswer
  <2>5. ~apart' => InStep'
    BY <1>3, <2>2, BeginInStep DEF Inv
  <2> QED BY <1>1, <2>1, <2>3, <2>4, <2>5 DEF Inv
<1>4. ASSUME Restart
      PROVE  Inv'
  <2>1. \A q \in Slots : Idle(q)' /\ \A s : ~At(q, s)'
    BY <1>4 DEF Restart, At, Busy, Idle
  <2>2. Numbered' /\ AccountsFirst'
    BY <2>1 DEF Numbered, AccountsFirst, Busy
  <2>3. Right'
    BY <1>4 DEF Restart, Quiet, Right, NoAnswer
  <2>4. ASSUME ~apart'
        PROVE  InStep'
    <3>1. ~apart
      BY <1>4, <2>4 DEF Restart
    <3> QED BY <1>4, <2>4, <3>1, RestartInStep DEF Inv
  <2> QED BY <1>1, <2>2, <2>3, <2>4 DEF Inv
<1>5. ASSUME UNCHANGED vars
      PROVE  Inv'
  <2>1. Numbered'
    BY <1>5 DEF Inv, vars, Numbered, Busy, Idle
  <2>2. AccountsFirst'
    BY <1>5 DEF Inv, vars, AccountsFirst, At, Busy, Idle
  <2>3. UNCHANGED apart /\ (Right => Right')
    BY <1>5 DEF vars, Right
  <2> QED BY <1>1, <1>5, <2>1, <2>2, <2>3, StutterInStep DEF Inv
<1> QED BY <1>2, <1>3, <1>4, <1>5 DEF Next

LEMMA ExomsInv == Spec => []Inv
BY InitInv, NextInv, PTL DEF Spec

-----------------------------------------------------------------------------
(* The level that grants give *)

\* A set of numbers has a least one.
LEMMA Least ==
    ASSUME NEW S \in SUBSET Nat, S # {}
    PROVE  \E m \in S : \A n \in S : m <= n
<1> DEFINE less == {pair \in Nat \X Nat : pair[1] < pair[2]}
<1>1. less = OpToRel(<, Nat)
  BY DEF OpToRel
<1>2. IsWellFoundedOn(less, Nat)
  BY <1>1, NatLessThanWellFounded
<1>3. \A m, n \in Nat : <<m, n>> \in less <=> m < n
  OBVIOUS
<1> HIDE DEF less
<1>4. PICK m \in S : \A n \in S : <<n, m>> \notin less
  BY <1>2, WFMin
<1>5. ASSUME NEW n \in S
      PROVE  m <= n
  <2>1. m \in Nat /\ n \in Nat /\ ~(n < m)
    BY <1>3, <1>4
  <2> QED BY <2>1
<1> QED BY <1>5

\* The grants of a user in a sequence are all of them.
LEMMA SharesInTurn ==
    ASSUME NEW S, IsFiniteSet(S)
    PROVE  /\ DOMAIN SetToSeq(S) = 1..Cardinality(S) /\ Cardinality(S) \in Nat
           /\ S = {SetToSeq(S)[i] : i \in DOMAIN SetToSeq(S)}
<1> DEFINE N == Cardinality(S)
           f == SetToSeq(S)
<1>1. N \in Nat /\ ExistsBijection(1..N, S)
  BY FS_CardinalityType
<1>2. PICK b \in [1..N -> S] : IsInjective(b)
  BY <1>1 DEF ExistsBijection, Bijection, Injection
<1>3. f \in [1..N -> S] /\ IsInjective(f)
  BY <1>2 DEF SetToSeq
<1> HIDE DEF f, N
<1>4. f \in Surjection(1..N, S)
  <2>1. f \in Injection(1..N, S)
    BY <1>3 DEF IsInjective, Injection
  <2>2. IsFiniteSet(1..N) /\ Cardinality(1..N) = N
    BY <1>1, FS_Interval
  <2> QED BY <1>1, <2>1, <2>2, FS_Injection DEF N
<1>5. S = {f[i] : i \in DOMAIN f}
  BY <1>3, <1>4 DEF Surjection
<1> QED BY <1>1, <1>3, <1>5 DEF f, N

\* The deepest of the grants that match decides, the first of them.
LEMMA OneDecides ==
    ASSUME NEW path, IsPath(path), NEW G, NEW N \in Nat, DOMAIN G = 1..N,
           \A i \in DOMAIN G : IsPath(G[i].path), Matching(path, G) # {}
    PROVE  \E i \in Matching(path, G) : \A j \in Matching(path, G) :
              \/ Len(G[i].path) > Len(G[j].path)
              \/ Len(G[i].path) = Len(G[j].path) /\ i <= j
<1> DEFINE m == Matching(path, G)
           up(i) == Len(path) - Len(G[i].path)
           ups == {up(i) : i \in m}
<1>1. Len(path) \in Nat /\ \A i \in m : Len(G[i].path) \in Nat /\ Len(G[i].path) <= Len(path)
  <2>1. \A i \in m : i \in DOMAIN G /\ Under(path, G[i].path)
    BY DEF Matching, Under
  <2> HIDE DEF m
  <2> QED BY <2>1, PathLen, UnderBy
<1>2. \A i \in m : i \in Nat
  BY DEF Matching
<1>3. m # {}
  OBVIOUS
<1> HIDE DEF m
<1>4. \A i \in m : up(i) \in Nat
  BY <1>1
<1>5. ups \in SUBSET Nat /\ ups # {}
  BY <1>3, <1>4
<1>6. PICK u \in ups : \A v \in ups : u <= v
  <2> HIDE DEF ups
  <2> QED BY <1>5, Least
<1> DEFINE deepest == {i \in m : up(i) = u}
<1>7. deepest \in SUBSET Nat /\ deepest # {}
  BY <1>2, <1>6
<1>8. PICK i \in deepest : \A j \in deepest : i <= j
  <2> HIDE DEF deepest
  <2> QED BY <1>7, Least
<1>9. ASSUME NEW j \in m
      PROVE  Len(G[i].path) > Len(G[j].path) \/ (Len(G[i].path) = Len(G[j].path) /\ i <= j)
  <2>1. i \in m /\ up(i) <= up(j) /\ (up(j) = up(i) => i <= j)
    BY <1>6, <1>8, <1>9
  <2>2. PICK a \in Nat : a = Len(G[i].path)
    BY <1>1, <2>1
  <2>3. PICK b \in Nat : b = Len(G[j].path)
    BY <1>1, <1>9
  <2>4. PICK c \in Nat : c = Len(path)
    BY <1>1
  <2>5. c - a <= c - b /\ (c - b = c - a => i <= j)
    BY <2>1, <2>2, <2>3, <2>4
  <2>6. a > b \/ (a = b /\ i <= j)
    BY <2>5
  <2> QED BY <2>2, <2>3, <2>6
<1> QED BY <1>8, <1>9 DEF m

\* What a user may read
Readable(user, path) ==
    path[1] \in {Public, user} \/ \E g \in SharedWith(user) : Under(path, g)

\* What a user may read: the own namespace, the public one, and what is under a grant.
LEMMA ReadableBy ==
    ASSUME Typed, NEW user \in Users, NEW path, IsPath(path)
    PROVE  CanRead(Level(user, path)) <=> Readable(user, path)
<1> DEFINE S == {s \in shares : s.to = user}
           G == GrantsOf(user)
<1>1. /\ DOMAIN G = 1..Cardinality(S) /\ Cardinality(S) \in Nat /\ S = {G[i] : i \in DOMAIN G}
  <2>1. IsFiniteSet(S)
    BY FS_Subset DEF Typed, SharesTyped
  <2> QED BY <2>1, SharesInTurn DEF GrantsOf
<1>2. \A s \in S : IsPath(s.path) /\ s.permission \in {"read", "read-write"}
  BY DEF Typed, SharesTyped, IsShare
<1>3. SharedWith(user) = {s.path : s \in S}
  BY DEF SharedWith
<1>4. Level(user, path) = ResolveAccess(user, path, G, Unknown)
  BY DEF Level
<1> HIDE DEF S, G
<1>5. CASE path[1] = Public
  BY <1>4, <1>5 DEF ResolveAccess, PublicLevel, Unknown, CanRead, FullAccess, ReadOnly, Readable
<1>6. CASE path[1] # Public /\ path[1] = user
  BY <1>4, <1>6 DEF ResolveAccess, CanRead, FullAccess, ReadOnly, Readable
<1>7. CASE path[1] \notin {Public, user}
  <2>1. Level(user, path) = ResolveFromGrants(path, G)
    BY <1>4, <1>7 DEF ResolveAccess
  <2>2. Readable(user, path) <=> Matching(path, G) # {}
    BY <1>1, <1>3, <1>7 DEF Readable, Matching, Under
  <2>3. CASE Matching(path, G) = {}
    BY <2>1, <2>2, <2>3 DEF ResolveFromGrants, Denied, CanRead, ReadOnly
  <2>4. CASE Matching(path, G) # {}
    <3> DEFINE m == Matching(path, G)
               Beats(i, j) == \/ Len(G[i].path) > Len(G[j].path)
                              \/ Len(G[i].path) = Len(G[j].path) /\ i <= j
               k == CHOOSE i \in m : \A j \in m : Beats(i, j)
    <3>1. \A i \in DOMAIN G : IsPath(G[i].path)
      BY <1>1, <1>2
    <3>2. \E i \in m : \A j \in m : Beats(i, j)
      BY <1>1, <2>4, <3>1, OneDecides
    <3>3. k \in m
      BY <3>2
    <3>4. ResolveFromGrants(path, G) = PermissionLevel(G[k].permission)
      BY <2>4 DEF ResolveFromGrants
    <3> HIDE DEF k
    <3>5. G[k] \in S
      BY <1>1, <3>3 DEF Matching
    <3>6. PermissionLevel(G[k].permission) \in {ReadOnly, ReadWrite}
      BY <1>2, <3>5 DEF PermissionLevel
    <3> QED BY <2>1, <2>2, <2>4, <3>4, <3>6 DEF CanRead, ReadOnly, ReadWrite
  <2> QED BY <2>3, <2>4
<1> QED BY <1>5, <1>6, <1>7

-----------------------------------------------------------------------------
(* The walks *)

\* Below a directory that is not inside an exom, a walk finds what the walk from the root does.
LEMMA WalkBelow ==
    ASSUME PathTree(tree), NEW g, IsPath(g), ~Nested(g)
    PROVE  Walk(tree, g) = {q \in Walk(tree, <<>>) : Under(q, g)}
<1>1. ASSUME NEW q \in Walk(tree, g)
      PROVE  q \in Walk(tree, <<>>) /\ Under(q, g)
  <2>1. /\ q \in DOMAIN tree /\ Under(q, g) /\ tree[q].kind # "folder"
        /\ \A a \in Above(q) : Under(a, g) => tree[a].kind = "folder"
    BY <1>1 DEF Walk
  <2>2. IsPath(q) /\ Above(q) \subseteq DOMAIN tree
    BY <2>1, NodeParts
  <2>3. ASSUME NEW a \in Above(q)
        PROVE  tree[a].kind = "folder"
    <3>1. IsPath(a) /\ Under(q, a)
      BY <2>2, AboveBy
    <3>2. CASE Under(a, g)
      BY <2>1, <3>2
    <3>3. CASE ~Under(a, g)
      <4>1. Under(g, a) /\ a # g
        BY <2>1, <2>2, <3>1, <3>3, Chain, UnderSelf
      <4>2. a \in Above(g)
        BY <3>1, <4>1, UnderOr
      <4> QED BY <2>2, <4>2 DEF Nested, IsExom, There
    <3> QED BY <3>2, <3>3
  <2> QED BY <2>1, <2>2, <2>3, UnderEmpty DEF Walk
<1>2. ASSUME NEW q \in Walk(tree, <<>>), Under(q, g)
      PROVE  q \in Walk(tree, g)
  <2>1. q \in DOMAIN tree /\ tree[q].kind # "folder" /\ IsPath(q)
    BY <1>2, NodeParts DEF Walk
  <2>2. ASSUME NEW a \in Above(q)
        PROVE  tree[a].kind = "folder"
    <3>1. IsPath(a)
      BY <2>1, AboveBy
    <3> QED BY <1>2, <3>1, UnderEmpty DEF Walk
  <2> QED BY <1>2, <2>1, <2>2 DEF Walk
<1> QED BY <1>1, <1>2

\* What grants show below a directory
LEMMA ProjectionShows ==
    ASSUME PathTree(tree), NEW top, IsPath(top), ~Nested(top),
           NEW grants, \A g \in grants : IsPath(g) /\ ~Nested(g)
    PROVE  walk_shared_projection(top, grants)
               = {q \in Walk(tree, <<>>) : Under(q, top) /\ \E g \in grants : Under(q, g)}
<1>1. \A q \in Walk(tree, <<>>) : IsPath(q)
  BY NodeParts DEF Walk
<1>2. CASE \E g \in grants : Under(top, g)
  <2>1. PICK g \in grants : Under(top, g)
    BY <1>2
  <2>2. walk_shared_projection(top, grants) = {q \in Walk(tree, <<>>) : Under(q, top)}
    BY <1>2, WalkBelow DEF walk_shared_projection
  <2>3. \A q \in Walk(tree, <<>>) : Under(q, top) => Under(q, g)
    BY <1>1, <2>1, UnderUnder
  <2> QED BY <2>2, <2>3
<1>3. CASE ~\E g \in grants : Under(top, g)
  <2> DEFINE below == {g \in grants : Under(g, top)}
  <2>1. walk_shared_projection(top, grants) = UNION {Walk(tree, g) : g \in below}
    BY <1>3 DEF walk_shared_projection
  <2>2. \A g \in below : Walk(tree, g) = {q \in Walk(tree, <<>>) : Under(q, g)}
    BY WalkBelow
  <2>3. ASSUME NEW q \in Walk(tree, <<>>), NEW g \in grants
        PROVE  g \in below /\ Under(q, g) <=> Under(q, top) /\ Under(q, g)
    <3>1. g \in below /\ Under(q, g) => Under(q, top)
      BY <1>1, UnderUnder
    <3>2. Under(q, top) /\ Under(q, g) => Under(g, top)
      BY <1>1, <1>3, Chain
    <3> QED BY <3>1, <3>2
  <2>4. \A g \in below : g \in grants
    OBVIOUS
  <2> HIDE DEF below
  <2>5. ASSUME NEW q
        PROVE  q \in UNION {Walk(tree, g) : g \in below}
                  <=> q \in Walk(tree, <<>>) /\ Under(q, top) /\ \E g \in grants : Under(q, g)
    <3>1. q \in UNION {Walk(tree, g) : g \in below} <=> \E g \in below : q \in Walk(tree, g)
      OBVIOUS
    <3>2. (\E g \in below : q \in Walk(tree, g)) <=> q \in Walk(tree, <<>>) /\ \E g \in below : Under(q, g)
      BY <2>2
    <3>3. q \in Walk(tree, <<>>) =>
            ((\E g \in below : Under(q, g)) <=> Under(q, top) /\ \E g \in grants : Under(q, g))
      BY <2>3, <2>4
    <3> QED BY <3>1, <3>2, <3>3
  <2> QED BY <2>1, <2>5
<1> QED BY <1>2, <1>3

-----------------------------------------------------------------------------
(* The tree a user is shown *)

\* The walks from the namespace, from the public one and along the grants find all of that.
LEMMA TreeShows ==
    ASSUME Typed
    PROVE  TreeShowsWhatIsReadable
<1> SUFFICES ASSUME NEW user \in Users, \A g \in SharedWith(user) : ~Nested(g)
             PROVE  LET readable == {q \in Walk(tree, <<>>) : CanRead(Level(user, q))}
                    IN  /\ build_tree_root_for_user(user) = readable
                        /\ \A top \in {top \in DOMAIN tree : ~Nested(top)} :
                              /\ build_tree_path_for_user(user, top) = {q \in readable : Under(q, top)}
                              /\ tool_tree(user, top) \in {{}, {q \in readable : Under(q, top)}}
  BY DEF TreeShowsWhatIsReadable
<1> DEFINE all == Walk(tree, <<>>)
           grants == SharedWith(user)
           readable == {q \in all : CanRead(Level(user, q))}
<1>1. PathTree(tree)
  BY DEF Typed
<1>2. \A q \in all : IsPath(q)
  BY <1>1, NodeParts DEF Walk
<1>3. \A g \in grants : IsPath(g) /\ ~Nested(g)
  BY DEF SharedWith, Typed, SharesTyped, IsShare
<1>4. \A q \in all : q \in readable <=> Readable(user, q)
  BY <1>2, ReadableBy
<1>5. \A e : IsPath(<<e>>) /\ ~Nested(<<e>>)
  <2>1. TAKE e
  <2>2. Above(<<e>>) = {}
    BY DEF Above
  <2>3. <<e>> \in Seq({e}) /\ <<e>> # <<>>
    OBVIOUS
  <2> QED BY <2>2, <2>3, PathOf DEF Nested
<1> HIDE DEF readable, all, grants
<1>6. build_tree_root_for_user(user) = readable
  <2> DEFINE others == {g \in grants : g[1] # user}
             owners == {g[1] : g \in others}
             Of(owner) == {g \in others : g[1] = owner}
             shown == UNION {walk_shared_projection(<<owner>>, Of(owner)) : owner \in owners}
  <2>1. build_tree_root_for_user(user) = Walk(tree, <<user>>) \union Walk(tree, <<Public>>) \union shown
    BY DEF build_tree_root_for_user, grants
  <2>2. ASSUME NEW e, NEW q
        PROVE  q \in Walk(tree, <<e>>) <=> q \in all /\ q[1] = e
    <3>1. Walk(tree, <<e>>) = {x \in all : Under(x, <<e>>)}
      BY <1>1, <1>5, WalkBelow DEF all
    <3> QED BY <1>2, <3>1, UnderRoot
  <2>3. ASSUME NEW q, NEW owner \in owners
        PROVE  q \in walk_shared_projection(<<owner>>, Of(owner))
                  <=> q \in all /\ q[1] = owner /\ \E g \in Of(owner) : Under(q, g)
    <3>1. \A g \in Of(owner) : IsPath(g) /\ ~Nested(g)
      BY <1>3
    <3> HIDE DEF Of
    <3>2. walk_shared_projection(<<owner>>, Of(owner))
              = {x \in all : Under(x, <<owner>>) /\ \E g \in Of(owner) : Under(x, g)}
      BY <1>1, <1>5, <3>1, ProjectionShows DEF all
    <3> QED BY <1>2, <3>2, UnderRoot
  <2>4. ASSUME NEW q \in all
        PROVE  q \in shown <=> q[1] # user /\ \E g \in grants : Under(q, g)
    <3>1. ASSUME q \in shown
          PROVE  q[1] # user /\ \E g \in grants : Under(q, g)
      <4>1. PICK owner \in owners : q \in walk_shared_projection(<<owner>>, Of(owner))
        BY <3>1
      <4>2. q[1] = owner /\ \E g \in Of(owner) : Under(q, g)
        BY <2>3, <4>1
      <4> QED BY <4>1, <4>2
    <3>2. ASSUME q[1] # user, NEW g \in grants, Under(q, g)
          PROVE  q \in shown
      <4>1. g[1] = q[1]
        BY <1>2, <1>3, <3>2, UnderFirst
      <4>2. g \in others /\ g[1] \in owners /\ g \in Of(g[1])
        BY <3>2, <4>1
      <4> HIDE DEF Of, owners
      <4>3. q \in walk_shared_projection(<<g[1]>>, Of(g[1]))
        BY <2>3, <3>2, <4>1, <4>2
      <4> QED BY <4>2, <4>3
    <3> QED BY <3>1, <3>2
  <2> DEFINE built == build_tree_root_for_user(user)
  <2>5. ASSUME NEW q, q \in shown
        PROVE  q \in all
    <3>1. PICK owner \in owners : q \in walk_shared_projection(<<owner>>, Of(owner))
      BY <2>5
    <3> HIDE DEF shown, owners, Of
    <3> QED BY <2>3, <3>1
  <2> HIDE DEF shown
  <2>6. ASSUME NEW q
        PROVE  q \in built <=> q \in readable
    <3>1. q \in built => q \in all
      BY <2>1, <2>2, <2>5
    <3>2. q \in readable => q \in all
      BY DEF readable
    <3>3. ASSUME q \in all
          PROVE  q \in built <=> q \in readable
      <4>1. q \in readable <=> q[1] \in {Public, user} \/ \E g \in grants : Under(q, g)
        BY <1>4, <3>3 DEF Readable, grants
      <4>2. q \in built <=> q[1] = user \/ q[1] = Public \/ q \in shown
        BY <2>1, <2>2, <3>3
      <4> HIDE DEF built
      <4> QED BY <2>4, <3>3, <4>1, <4>2
    <3> QED BY <3>1, <3>2, <3>3
  <2> QED BY <2>6
<1>7. ASSUME NEW top \in DOMAIN tree, ~Nested(top)
      PROVE  /\ build_tree_path_for_user(user, top) = {q \in readable : Under(q, top)}
             /\ tool_tree(user, top) \in {{}, {q \in readable : Under(q, top)}}
  <2>1. IsPath(top)
    BY <1>1, NodeParts
  <2>2. Walk(tree, top) = {q \in all : Under(q, top)}
    BY <1>1, <1>7, <2>1, WalkBelow DEF all
  <2>3. \A q \in readable : q \in all
    BY DEF readable
  <2>4. CanRead(Level(user, top)) <=> Readable(user, top)
    BY <2>1, ReadableBy
  <2>5. \A q \in all : Under(q, top) => q[1] = top[1]
    BY <1>2, <2>1, UnderFirst
  <2>6. CASE Readable(user, top)
    <3>1. \A q \in all : Under(q, top) => Readable(user, q)
      BY <1>2, <1>3, <2>1, <2>5, <2>6, UnderUnder DEF Readable, grants
    <3>2. Walk(tree, top) = {q \in readable : Under(q, top)}
      BY <1>4, <2>2, <2>3, <3>1
    <3> QED BY <2>4, <2>6, <3>2 DEF build_tree_path_for_user, tool_tree
  <2>7. CASE ~Readable(user, top)
    <3>1. \A q \in all : Under(q, top) => (Readable(user, q) <=> \E g \in grants : Under(q, g))
      BY <2>5, <2>7 DEF Readable, grants
    <3>2. walk_shared_projection(top, grants)
              = {q \in all : Under(q, top) /\ \E g \in grants : Under(q, g)}
      BY <1>1, <1>3, <1>7, <2>1, ProjectionShows DEF all
    <3>3. walk_shared_projection(top, grants) = {q \in readable : Under(q, top)}
      BY <1>4, <2>3, <3>1, <3>2
    <3> QED BY <2>4, <2>7, <3>3 DEF build_tree_path_for_user, tool_tree, grants
  <2> QED BY <2>6, <2>7
<1> QED BY <1>6, <1>7 DEF readable, all

-----------------------------------------------------------------------------
(* The properties *)

\* Every cached exom is an exom on disk with the rows and branches of its tables (get_or_load_exom,
\* mutate_exom and the evictions of the handlers that rename, delete or reset), until a step
\* outside the lock sets them apart.
THEOREM CacheIsOnDisk == Spec => []CachedIsOnDisk
<1>1. Inv => CachedIsOnDisk
  <2> SUFFICES ASSUME Inv, ~apart, NEW path \in DOMAIN cache
               PROVE  \/ IsExom(path) /\ cache[path].brain = tree[path].brain
                      \/ \E q \in Slots : OutOfStep(q, path)
    BY DEF CachedIsOnDisk
  <2>1. OnDisk(path) \/ Leaving(path)
    BY DEF Inv, InStep, CacheFollows
  <2> QED BY <2>1 DEF OnDisk, Leaving, OutOfStep
<1> QED BY <1>1, ExomsInv, PTL

\* A row reported saved is in the tables of its directory, wherever the directory was renamed to,
\* until it is deleted, wiped or replaced by an import.
THEOREM NothingIsLost == Spec => []NothingLost
<1>1. Inv => NothingLost
  BY DEF Inv, InStep, Kept, NothingLost
<1> QED BY <1>1, ExomsInv, PTL

\* The engine holds for each cached exom the datoms the cache holds, those of one branch of its
\* brain (refresh_exom_binding, rebind_datoms_only, reconcile_engine).
THEOREM EngineIsInStep == Spec => []EngineShowsTheBrain
<1>1. Inv => EngineShowsTheBrain
  <2> SUFFICES ASSUME Inv, ~apart, NEW path \in DOMAIN cache
               PROVE  /\ path \in DOMAIN env /\ env[path] = cache[path].datoms
                      /\ \E b \in cache[path].brain.branches : env[path] = View(cache[path].brain, b)
    BY DEF EngineShowsTheBrain
  <2>1. Fits(cache, env)
    BY DEF Inv, InStep
  <2> QED BY <2>1 DEF Fits
<1> QED BY <1>1, ExomsInv, PTL

\* A query of one exom and branch is evaluated over datoms and typed tables of just that branch,
\* as they are on disk.
THEOREM QueriesAreTheirs == Spec => []QueriesAnswerTheirBranch
<1>1. Inv => QueriesAnswerTheirBranch
  BY DEF Inv, Right, QueriesAnswerTheirBranch
<1> QED BY <1>1, ExomsInv, PTL

\* A grant stays on the directory it was given for (update_share_paths, delete_share_paths and
\* delete_user), whatever is renamed, deleted and made again.
THEOREM GrantsStay == Spec => []GrantsFollowTheirDirectory
<1>1. Inv => GrantsFollowTheirDirectory
  <2> SUFFICES ASSUME Inv, ~apart, \A p \in Slots : Idle(p), NEW s \in shares
               PROVE  There(s.path) /\ tree[s.path].id = s.id
    BY DEF GrantsFollowTheirDirectory
  <2>1. \A q \in Slots : ~Moving(q)
    BY DEF Moving, At, Busy
  <2> QED BY <2>1 DEF Inv, InStep, GrantsFollow, Placed
<1> QED BY <1>1, ExomsInv, PTL

\* The tree a user is shown has the exoms the user may read, all of them and no other; and of the
\* subtree at a path just those in it (walk_shared_projection against resolve_access).
THEOREM TreeIsReadable == Spec => []TreeShowsWhatIsReadable
<1>1. Inv => TreeShowsWhatIsReadable
  BY TreeShows DEF Inv
<1> QED BY <1>1, ExomsInv, PTL
=============================================================================
