-------------------------- MODULE AuthStore_proofs --------------------------
(***************************************************************************)
(* Proofs about AuthStore, for any number of accounts, ids and requests,   *)
(* over each of the backends.                                              *)
(***************************************************************************)
EXTENDS AuthStore, FiniteSetTheorems, SequenceTheorems, WellFoundedInduction, TLAPS

(***************************************************************************)
(* The inductive invariant.                                                *)
(***************************************************************************)

\* Steps, with what they are about.
Plain == {"lookup", "confirm", "allowed", "login_role", "is_active", "cache_session",
          "record_user", "record_session", "seed", "cache_key", "owns_key", "drop_key", "label",
          "update_share_paths", "delete_shares_under", "remove_tree", "clear", "reset_db"}
Cleanup == {"drop_sessions", "delete_rows", "drop_keys"}

Steps ==
    [do : Plain, x : [kind : {"none"}]]
    \union [do : {"append", "apply"}, x : Entries]
    \union [do : Cleanup \union {"exists"}, x : [kind : {"none"}, email : Emails]]
    \union [do : {"delete_session", "delete_row"}, x : [kind : {"none"}, email : Sessions]]
    \union [do : {"owns_share", "revoke_share"}, x : [kind : {"share-revoke"}, id : Shares]]

AccountOps == {"deactivate", "activate", "delete_user", "grant_admin", "revoke_admin",
               "add_email", "remove_email"}
PolicyOps == {"add_domain", "remove_domain"}
KeyOps == {"create_api_key", "revoke_api_key", "rename_api_key"}
Ops == UserOps \union AccountOps \union PolicyOps \union {"login", "kill_session", "factory_reset"}

\* What a request is asked with fits its operation.
Called(r) ==
    /\ r = [op |-> r.op, cred |-> r.cred, arg |-> r.arg, user |-> r.user, cached |-> r.cached,
            alone |-> r.alone, todo |-> r.todo]
    /\ r.cached \in BOOLEAN /\ r.alone \in BOOLEAN
    /\ r.op \in Ops
    /\ r.cred \in Sessions \union Keys
    /\ r.op = "login" => r.cred \in Sessions
    /\ r.op \in AccountOps \union {"login"} => r.arg \in Emails
    /\ r.op \in PolicyOps => r.arg \in SeedDomains
    /\ r.op = "kill_session" => r.arg \in Sessions
    /\ r.op \in KeyOps => r.arg \in [key : Keys, label : Labels]
    /\ r.op = "revoke_share" => r.arg \in Shares
    /\ r.op = "create_share" => r.arg \in [share : Shares, grantee : Emails, folder : {Old, New},
                                            permission : Permissions]
    /\ r.op = "delete" => r.arg \in Seq(STRING)

\* Which entries an operation writes.
Writes(r, x) ==
    /\ x.kind \in {"user", "top-admin"} => r.op = "login" /\ x.email = r.user.email
    /\ x.kind = "top-admin" => r.user.role = "top"
    /\ x.kind = "user-deactivate" => r.op = "deactivate" /\ x.email = r.arg
    /\ x.kind = "user-activate" => r.op = "activate" /\ x.email = r.arg
    /\ x.kind = "user-delete" => r.op = "delete_user" /\ x.email = r.arg
    /\ x.kind = "api-key" => r.op = "create_api_key" /\ x = KeyEntry(r.arg.key, r.user.email, r.arg.label)
    /\ x.kind = "api-key-revoke" => r.op = "revoke_api_key" /\ x = KeyRevoke(r.arg.key)
    /\ x.kind = "api-key-relabel" => r.op = "rename_api_key" /\ x = Relabel(r.arg.key, r.arg.label)

\* Which steps it takes.
LoginSteps == {"allowed", "login_role", "is_active", "cache_session", "record_user",
               "record_session", "seed"}

\* Requests about accounts and keys take steps that add no others.
Straight == {"lookup", "confirm", "append", "apply", "exists", "owns_key", "cache_key", "drop_key",
             "label"} \union Cleanup

Fits(b, r, s) ==
    /\ s \in Steps
    /\ r.op \in AccountOps \union KeyOps => s.do \in Straight
    /\ s.do = "append" => b # "pg"
    /\ s.do \in LoginSteps <=> (r.op = "login" /\ s.do \notin {"append", "apply"})
    /\ s.do = "owns_key" => r.op \in {"revoke_api_key", "rename_api_key"}
    /\ s.do = "cache_key" => r.op = "create_api_key"
    /\ s.do = "drop_key" => r.op = "revoke_api_key"
    /\ s.do = "label" => r.op = "rename_api_key"
    /\ s.do = "delete_shares_under" => r.op = "delete"
    /\ s.do \in {"remove_tree", "clear", "reset_db"} => r.op = "factory_reset"
    /\ s.do \in Cleanup => r.op \in {"deactivate", "activate", "delete_user"} /\ s.x.email = r.arg
    /\ s.do \in {"append", "apply"} => Writes(r, s.x)

\* In which order: what is applied behind a log has been written to it.
Follows(b, r, before, after) ==
    /\ after.do = "apply" /\ b # "pg" => before = AppendEntry(after.x)
    /\ after.do = "record_session" =>
          before.do = "record_user" \/ (before.do = "apply" /\ before.x.kind = "user")
    /\ after.do = "drop_sessions" =>
          before.do = "apply" /\ before.x.kind \in {"user-deactivate", "user-activate", "user-delete"}
    /\ after.do = "delete_rows" => before.do = "drop_sessions"
    /\ after.do = "drop_keys" => before.do = "delete_rows"
    /\ after.do = "cache_key" => before = ApplyEntry(KeyEntry(r.arg.key, r.user.email, r.arg.label))
    /\ after.do = "drop_key" => before = ApplyEntry(KeyRevoke(r.arg.key))
    /\ after.do = "label" => before.do = (IF b = "store" THEN "append" ELSE "apply")
    /\ after.do = "reset_db" => before.do = "clear"

Opening == {"lookup", "confirm", "allowed", "login_role", "is_active"}

\* A user whose account is known; of a session row the role is not.
Known == [email : Emails, role : Roles \union {"none"}, label : Labels \union {"none"}]

\* What is known of the user at each step of the way in.
Entered(r, step) ==
    /\ step = "lookup" => r.todo = Identified
    /\ step = "confirm" =>
          /\ r.todo = <<Do("confirm")>>
          /\ r.user \in Known
          /\ r.cached \/ r.cred \notin Sessions => r.user \in Users
    /\ step = "allowed" => r.todo = LoggingIn
    /\ step = "login_role" => r.todo = <<Do("login_role"), Do("is_active")>>
    /\ step = "is_active" => r.todo = <<Do("is_active")>>
    /\ step \notin {"lookup", "confirm", "allowed", "login_role"} =>
          r.user \in Users /\ (r.op = "login" => r.user.email = r.arg)
    /\ step \notin Opening => \A i \in 1..Len(r.todo) : r.todo[i].do \notin Opening

InProgress(b, r) ==
    /\ Called(r)
    /\ r.todo \in Seq(Steps) /\ r.todo # <<>>
    /\ \A i \in 1..Len(r.todo) : Fits(b, r, r.todo[i])
    /\ \A i \in 1..Len(r.todo) : i > 1 => Follows(b, r, r.todo[i - 1], r.todo[i])
    /\ Entered(r, Head(r.todo).do)

\* Requests in progress at once have met, and neither is alone.
RequestsInv ==
    /\ DOMAIN req = Slots
    /\ \A p \in Slots : Busy(p) => InProgress(backend, req[p])
    /\ \A p, q \in Slots : p # q /\ Busy(p) /\ Busy(q) =>
          {req[p].op, req[q].op} \in met /\ ~req[p].alone

AuthInv ==
    /\ TypeOK
    /\ backend \in {"store", "jsonl", "pg"}
    /\ RequestsInv

-----------------------------------------------------------------------------
(* Deactivated accounts *)

Lets(x, e) ==
    \/ x.kind = "user" /\ x.email = e /\ x.active
    \/ x.kind = "user-activate" /\ x.email = e
Bars(x, e) == x.kind \in {"user-deactivate", "user-delete"} /\ x.email = e

\* Replayed, the entries do not make e active.
ShutOut(entries, e) ==
    \A i \in 1..Len(entries) : Lets(entries[i], e) =>
        \E j \in 1..Len(entries) : j > i /\ Bars(entries[j], e)

\* A request writes an account back as active only if it is not barred.
Activates(step) == step.do \in {"append", "apply"} /\ step.x.kind = "user" /\ step.x.active
Passing(todo, out) == \A i \in 1..Len(todo) : Activates(todo[i]) => todo[i].x.email \notin out

\* Of a request that has been barred since it began, and of what it will do: out are the
\* barred accounts, ever those that were so since the request began.
Kept(b, r, out, ever, entries) ==
    /\ b # "pg" => Passing(r.todo, out)
    /\ r.cred \notin Sessions /\ ~r.cached /\ Head(r.todo).do # "lookup" => r.user.email \notin ever
    /\ b # "pg" /\ r.alone /\ Head(r.todo).do = "apply" /\ Head(r.todo).x.kind = "user-deactivate" =>
          ShutOut(entries, Head(r.todo).x.email)

BarredInv ==
    /\ \A e \in barred : tables.users[e] = "inactive"
    /\ backend # "pg" => \A e \in barred : ShutOut(log, e)
    /\ ~stored => backend = "store" /\ log = <<>>
    /\ \A p \in Slots : since[p] \subseteq barred
    /\ \A p \in Slots : Busy(p) => Kept(backend, req[p], barred, since[p], log)

-----------------------------------------------------------------------------
(* The top administrator *)

TopInv ==
    {"login"} \notin met =>
        /\ \A e, f \in tables.top : e = f
        /\ backend = "pg" => \A e \in tables.top : IsUser(tables, e)
        /\ backend = "pg" => \A p \in Slots :
              Busy(p) /\ req[p].op = "login" /\ req[p].user.role = "top" => tables.top \subseteq {Who(p)}

-----------------------------------------------------------------------------
(* Recursive functions *)

\* Induction up to N, over a set instead of a predicate.
LEMMA UpTo ==
  ASSUME NEW N \in Nat, NEW S, 0 \in S, \A k \in 0..N : k \in S /\ k # N => k + 1 \in S
  PROVE  \A k \in 0..N : k \in S
  <1> DEFINE less == {pair \in Nat \X Nat : pair[1] < pair[2]}
             bad == (0..N) \ S
  <1>1. less = OpToRel(<, Nat)
    BY DEF OpToRel
  <1>2. IsWellFoundedOn(less, Nat)
    BY <1>1, NatLessThanWellFounded
  <1>3. \A m, n \in Nat : <<m, n>> \in less <=> m < n
    OBVIOUS
  <1> HIDE DEF less
  <1>4. bad = {}
    <2> SUFFICES ASSUME bad # {} PROVE FALSE
      OBVIOUS
    <2>1. bad \subseteq Nat
      OBVIOUS
    <2>2. PICK m \in bad : \A n \in bad : <<n, m>> \notin less
      BY <1>2, <2>1, WFMin
    <2>3. m \in 0..N /\ m # 0
      BY <2>2
    <2>4. m - 1 \in 0..N /\ m - 1 # N /\ (m - 1) + 1 = m /\ m - 1 < m
      BY <2>3
    <2>5. m - 1 \in S
      BY <1>3, <2>1, <2>2, <2>4
    <2>6. QED
      BY <2>2, <2>4, <2>5
  <1>5. QED
    BY <1>4

\* f[n] is the value after n steps, where step n maps v to g[n][v].
Within(g, N, V) == \A n \in 1..N : \A v \in V : g[n][v] \in V
Iterates(f, g, base, N, V) ==
    f \in [0..N -> V] /\ f[0] = base /\ \A n \in 1..N : f[n] = g[n][f[n - 1]]

LEMMA Recursion ==
  ASSUME NEW N \in Nat, NEW V, NEW base \in V, NEW g, Within(g, N, V)
  PROVE  \E f : Iterates(f, g, base, N, V)
  <1> DEFINE upTo(f, k) == f[0] = base /\ \A n \in 1..k : f[n] = g[n][f[n - 1]]
             good == {k \in 0..N : \E f \in [0..k -> V] : upTo(f, k)}
  <1>1. 0 \in good
    <2> DEFINE f == [n \in 0..0 |-> base]
    <2>1. f \in [0..0 -> V] /\ upTo(f, 0) /\ 0 \in 0..N
      OBVIOUS
    <2> HIDE DEF f
    <2>2. QED
      BY <2>1
  <1>2. ASSUME NEW k \in 0..N, k \in good, k # N
        PROVE  k + 1 \in good
    <2>0. PICK f \in [0..k -> V] : upTo(f, k)
      BY <1>2
    <2> DEFINE h == [n \in 0..(k + 1) |-> IF n = k + 1 THEN g[k + 1][f[k]] ELSE f[n]]
    <2>1. k + 1 \in 1..N /\ k \in 0..k /\ f[k] \in V
      BY <1>2
    <2>2. h \in [0..(k + 1) -> V]
      BY <2>1 DEF Within
    <2>3. ASSUME NEW n \in 1..(k + 1)
          PROVE  h[n] = g[n][h[n - 1]]
      <3>1. CASE n = k + 1
        BY <3>1, <2>1
      <3>2. CASE n \in 1..k
        BY <3>2, <2>0
      <3>3. QED
        BY <3>1, <3>2
    <2>4. h[0] = base
      BY <2>0, <2>1
    <2> HIDE DEF h
    <2>5. k + 1 \in 0..N /\ upTo(h, k + 1)
      BY <2>1, <2>3, <2>4
    <2>6. QED
      BY <2>2, <2>5
  <1> HIDE DEF good
  <1>3. N \in good
    BY <1>1, <1>2, UpTo
  <1>4. QED
    BY <1>3 DEF good, Iterates

Picking(f, s, S, chosen) ==
    /\ f \in [0..Len(s) -> Seq(S)]
    /\ f[0] = <<>>
    /\ \A n \in 1..Len(s) : f[n] = IF s[n] \in chosen THEN Append(f[n - 1], s[n]) ELSE f[n - 1]
    /\ Only(s, chosen) = f[Len(s)]

LEMMA OnlyUnfolds ==
  ASSUME NEW S, NEW s \in Seq(S), NEW chosen
  PROVE  \E f : Picking(f, s, S, chosen)
  <1> DEFINE N == Len(s)
             V == Seq(S)
             next(w, n) == IF n = 0 THEN <<>>
                           ELSE IF s[n] \in chosen THEN Append(w[n - 1], s[n]) ELSE w[n - 1]
             g == [n \in 1..N |-> [v \in V |-> IF s[n] \in chosen THEN Append(v, s[n]) ELSE v]]
  <1>1. N \in Nat /\ <<>> \in V /\ \A n \in 1..N : s[n] \in S
    OBVIOUS
  <1>2. \A n \in 1..N : \A v \in V : g[n][v] = IF s[n] \in chosen THEN Append(v, s[n]) ELSE v
    OBVIOUS
  <1>3. \A n \in 1..N : \A v \in V : g[n][v] \in V
    BY <1>1, <1>2
  <1> HIDE DEF g, N, V
  <1>4. PICK h \in [0..N -> V] : h[0] = <<>> /\ \A n \in 1..N : h[n] = g[n][h[n - 1]]
    <2>1. Within(g, N, V)
      BY <1>3 DEF Within
    <2>2. \E h : Iterates(h, g, <<>>, N, V)
      BY <1>1, <2>1, Recursion
    <2>3. QED
      BY <2>2 DEF Iterates
  <1>5. ASSUME NEW n \in 1..N
        PROVE  n # 0 /\ h[n] = next(h, n)
    <2>1. n - 1 \in 0..N /\ h[n - 1] \in V /\ n # 0
      BY <1>1
    <2>2. QED
      BY <1>2, <1>4, <2>1
  <1>6. \A n \in 0..N : h[n] = next(h, n)
    <2>1. \A n \in 0..N : n = 0 \/ n \in 1..N
      BY <1>1
    <2>2. QED
      BY <1>4, <1>5, <2>1
  <1>7. h = [n \in 0..N |-> next(h, n)]
    BY <1>4, <1>6
  <1> DEFINE f == CHOOSE w : w = [n \in 0..N |-> next(w, n)]
  <1>8. f = [n \in 0..N |-> next(f, n)]
    BY <1>7
  <1>9. Only(s, chosen) = f[N]
    BY DEF Only, N
  <1> HIDE DEF f
  <1>10. \A n \in 0..N : f[n] = next(f, n)
    BY <1>8
  <1> DEFINE same == {n \in 0..N : f[n] = h[n]}
  <1>11. 0 \in same
    BY <1>1, <1>6, <1>10
  <1>12. \A n \in 0..N : n \in same /\ n # N => n + 1 \in same
    <2> SUFFICES ASSUME NEW n \in 0..N, n \in same, n # N
                 PROVE  n + 1 \in same
      OBVIOUS
    <2>1. n + 1 \in 0..N /\ (n + 1) - 1 = n /\ n + 1 # 0
      BY <1>1
    <2>2. f[n + 1] = next(f, n + 1) /\ h[n + 1] = next(h, n + 1)
      BY <1>6, <1>10, <2>1
    <2>3. f[n + 1] = h[n + 1]
      BY <2>1, <2>2
    <2>4. QED
      BY <2>1, <2>3
  <1> HIDE DEF same
  <1>13. N \in same
    <2>1. \A k \in 0..N : k \in same
      BY <1>1, <1>11, <1>12, UpTo
    <2>2. QED
      BY <1>1, <2>1
  <1>14. Only(s, chosen) = h[N]
    BY <1>9, <1>13 DEF same
  <1>15. \A n \in 1..N : h[n] = IF s[n] \in chosen THEN Append(h[n - 1], s[n]) ELSE h[n - 1]
    BY <1>5
  <1>16. QED
    BY <1>4, <1>14, <1>15 DEF N, V, Picking

\* What is picked is what was there and is in the set.
Elements(s) == {s[i] : i \in 1..Len(s)}

LEMMA OnlyPicks ==
  ASSUME NEW S, NEW s \in Seq(S), NEW chosen
  PROVE  /\ Only(s, chosen) \in Seq(S)
         /\ Elements(Only(s, chosen)) = Elements(s) \intersect chosen
  <1>0. PICK f : Picking(f, s, S, chosen)
    BY OnlyUnfolds
  <1>1. /\ f \in [0..Len(s) -> Seq(S)]
        /\ f[0] = <<>>
        /\ \A n \in 1..Len(s) :
              f[n] = IF s[n] \in chosen THEN Append(f[n - 1], s[n]) ELSE f[n - 1]
        /\ Only(s, chosen) = f[Len(s)]
    BY <1>0 DEF Picking
  <1>2. Len(s) \in Nat /\ Len(s) \in 0..Len(s) /\ \A n \in 1..Len(s) : s[n] \in S
    OBVIOUS
  <1> DEFINE had(n) == {s[i] : i \in 1..n}
             good == {n \in 0..Len(s) : Elements(f[n]) = had(n) \intersect chosen}
  <1>3. 0 \in good
    BY <1>1, <1>2 DEF Elements
  <1>4. \A n \in 0..Len(s) : n \in good /\ n # Len(s) => n + 1 \in good
    <2> SUFFICES ASSUME NEW n \in 0..Len(s), n \in good, n # Len(s)
                 PROVE  n + 1 \in good
      OBVIOUS
    <2>1. n + 1 \in 1..Len(s) /\ n + 1 \in 0..Len(s) /\ (n + 1) - 1 = n
      BY <1>2
    <2>2. had(n + 1) = had(n) \union {s[n + 1]}
      <3>1. \A i \in 1..(n + 1) : i \in 1..n \/ i = n + 1
        BY <1>2
      <3>2. n + 1 \in 1..(n + 1) /\ \A i \in 1..n : i \in 1..(n + 1)
        BY <1>2
      <3>3. QED
        BY <3>1, <3>2
    <2>3. f[n] \in Seq(S) /\ f[n + 1] = IF s[n + 1] \in chosen THEN Append(f[n], s[n + 1]) ELSE f[n]
      BY <1>1, <2>1
    <2>4. s[n + 1] \in S /\ \A q \in Seq(S) : Elements(Append(q, s[n + 1])) = Elements(q) \union {s[n + 1]}
      <3>1. s[n + 1] \in S
        BY <1>2, <2>1
      <3>2. ASSUME NEW q \in Seq(S)
            PROVE  Elements(Append(q, s[n + 1])) = Elements(q) \union {s[n + 1]}
        <4> DEFINE m == Len(q)
        <4>1. m \in Nat /\ Len(Append(q, s[n + 1])) = m + 1
          BY <3>1
        <4>2. \A i \in 1..(m + 1) : Append(q, s[n + 1])[i] = IF i = m + 1 THEN s[n + 1] ELSE q[i]
          BY <3>1
        <4>3. \A i \in 1..(m + 1) : i \in 1..m \/ i = m + 1
          BY <4>1
        <4>4. m + 1 \in 1..(m + 1) /\ \A i \in 1..m : i \in 1..(m + 1) /\ i # m + 1
          BY <4>1
        <4>5. QED
          BY <4>1, <4>2, <4>3, <4>4 DEF Elements
      <3>3. QED
        BY <3>1, <3>2
    <2> HIDE DEF had
    <2>5. Elements(f[n]) = had(n) \intersect chosen
      BY <2>1
    <2>6. Elements(f[n + 1]) = had(n + 1) \intersect chosen
      BY <2>2, <2>3, <2>4, <2>5
    <2>7. QED
      BY <2>1, <2>6
  <1>5. Len(s) \in good
    <2> HIDE DEF good
    <2>1. \A n \in 0..Len(s) : n \in good
      BY <1>2, <1>3, <1>4, UpTo
    <2>2. QED
      BY <1>2, <2>1
  <1>6. Elements(f[Len(s)]) = had(Len(s)) \intersect chosen /\ f[Len(s)] \in Seq(S)
    BY <1>1, <1>2, <1>5
  <1>7. had(Len(s)) = Elements(s)
    BY DEF Elements
  <1> HIDE DEF had, good
  <1>8. QED
    BY <1>1, <1>6, <1>7

-----------------------------------------------------------------------------
(* Tables *)

LEMMA EmptyTyped == EmptyTables \in Tables
  <1>1. <<>> \in Seq(ShareRecords)
    OBVIOUS
  <1>2. QED
    BY <1>1 DEF EmptyTables, Tables

LEMMA RetainTyped ==
  ASSUME NEW t \in Tables, NEW chosen
  PROVE  [t EXCEPT !.shares = Only(t.shares, chosen)] \in Tables
  <1>1. Only(t.shares, chosen) \in Seq(ShareRecords)
    BY OnlyPicks DEF Tables
  <1>2. QED
    BY <1>1 DEF Tables

LEMMA DeletedTyped ==
  ASSUME NEW t \in Tables, NEW e \in Emails
  PROVE  DeletedUser(t, e) \in Tables
  <1> DEFINE r == Retain(t, LAMBDA s : s.owner = e \/ s.grantee = e \/ s.path[1] = e)
             keys == [k \in Keys |-> IF t.keys[k] # Nobody /\ t.keys[k].email = e
                                     THEN Nobody ELSE t.keys[k]]
  <1>1. r \in Tables
    BY RetainTyped DEF Retain
  <1>2. DeletedUser(t, e) = [r EXCEPT !.users[e] = "none", !.top = @ \ {e}, !.admins = @ \ {e},
                                      !.keys = keys]
    BY DEF DeletedUser
  <1>3. keys \in [Keys -> KeyRecords \union {Nobody}]
    BY DEF Tables
  <1> HIDE DEF r, keys
  <1>4. /\ r = [users |-> r.users, top |-> r.top, admins |-> r.admins, keys |-> r.keys,
                shares |-> r.shares, domains |-> r.domains, emails |-> r.emails]
        /\ r.users \in [Emails -> {"none", "active", "inactive"}]
        /\ r.top \subseteq Emails /\ r.admins \subseteq Emails /\ r.shares \in Seq(ShareRecords)
        /\ r.domains \subseteq SeedDomains /\ r.emails \subseteq Emails
    BY <1>1 DEF Tables
  <1>5. [r.users EXCEPT ![e] = "none"] \in [Emails -> {"none", "active", "inactive"}]
    BY <1>4
  <1>6. DeletedUser(t, e) = [users |-> [r.users EXCEPT ![e] = "none"], top |-> r.top \ {e},
                             admins |-> r.admins \ {e}, keys |-> keys, shares |-> r.shares,
                             domains |-> r.domains, emails |-> r.emails]
    BY <1>2, <1>4
  <1>7. QED
    BY <1>3, <1>4, <1>5, <1>6 DEF Tables

\* What an entry is about, by its kind.
AccountKinds == {"top-admin", "admin", "admin-revoke", "user-deactivate", "user-activate",
                 "user-delete", "allowed-email", "allowed-email-revoke"}
Kinds == AccountKinds \union {"user", "api-key", "api-key-relabel", "api-key-revoke", "share",
                              "share-revoke", "share-path-update", "domain", "domain-revoke"}

LEMMA EntryFields ==
  ASSUME NEW x \in Entries
  PROVE  /\ x.kind \in Kinds
         /\ x.kind = "user" => x.email \in Emails /\ x.active \in BOOLEAN
         /\ x.kind \in AccountKinds => x.email \in Emails
         /\ x.kind = "api-key" => x.key \in Keys /\ x.email \in Emails /\ x.label \in Labels
         /\ x.kind = "api-key-relabel" => x.key \in Keys /\ x.label \in Labels
         /\ x.kind = "api-key-revoke" => x.key \in Keys
         /\ x.kind = "share" => x.share \in ShareRecords
         /\ x.kind = "share-revoke" => x.id \in Shares
         /\ x.kind = "share-path-update" => x.id \in Shares /\ x.path \in Seq(STRING)
         /\ x.kind \in {"domain", "domain-revoke"} => x.domain \in SeedDomains
  BY DEF Entries, Kinds, AccountKinds

LEMMA AppliedTyped ==
  ASSUME NEW t \in Tables, NEW x \in Entries
  PROVE  apply_entry(t, x) \in Tables
  <1> USE EntryFields
  <1>1. CASE x.kind = "user"
    BY <1>1 DEF apply_entry, Tables
  <1>2. CASE x.kind \in {"top-admin", "admin", "admin-revoke"}
    <2>1. x.email \in Emails
      BY <1>2 DEF AccountKinds
    <2>2. /\ x.kind = "top-admin" => apply_entry(t, x) = [t EXCEPT !.top = {x.email}]
          /\ x.kind = "admin" => apply_entry(t, x) = [t EXCEPT !.admins = t.admins \union {x.email}]
          /\ x.kind = "admin-revoke" => apply_entry(t, x) = [t EXCEPT !.admins = t.admins \ {x.email}]
      BY DEF apply_entry
    <2>3. QED
      BY <1>2, <2>1, <2>2 DEF Tables
  <1>3. CASE x.kind = "api-key"
    BY <1>3 DEF apply_entry, Tables, KeyRecords
  <1>4. CASE x.kind = "api-key-revoke"
    BY <1>4 DEF apply_entry, Tables
  <1>5. CASE x.kind = "api-key-relabel"
    <2>1. apply_entry(t, x) = IF backend = "store" \/ t.keys[x.key] = Nobody THEN t
                              ELSE [t EXCEPT !.keys[x.key].label = x.label]
      BY <1>5 DEF apply_entry
    <2>2. CASE apply_entry(t, x) # t
      <3>1. x.key \in Keys /\ x.label \in Labels /\ t.keys \in [Keys -> KeyRecords \union {Nobody}]
        BY <1>5 DEF Tables
      <3>2. t.keys[x.key] \in KeyRecords /\ [t.keys[x.key] EXCEPT !.label = x.label] \in KeyRecords
        BY <2>1, <2>2, <3>1 DEF KeyRecords
      <3>3. apply_entry(t, x)
              = [t EXCEPT !.keys = [t.keys EXCEPT ![x.key] = [t.keys[x.key] EXCEPT !.label = x.label]]]
        BY <2>1, <2>2 DEF Tables
      <3>4. [t.keys EXCEPT ![x.key] = [t.keys[x.key] EXCEPT !.label = x.label]]
              \in [Keys -> KeyRecords \union {Nobody}]
        BY <3>1, <3>2
      <3>5. QED
        BY <3>3, <3>4 DEF Tables
    <2>3. QED
      BY <2>2
  <1>6. CASE x.kind = "share"
    <2>1. apply_entry(t, x) = [t EXCEPT !.shares = Append(t.shares, x.share)]
      BY <1>6 DEF apply_entry, Tables
    <2>2. Append(t.shares, x.share) \in Seq(ShareRecords)
      BY <1>6 DEF Tables
    <2>3. QED
      BY <2>1, <2>2 DEF Tables
  <1>7. CASE x.kind = "share-revoke"
    BY <1>7, RetainTyped DEF apply_entry, Retain
  <1>8. CASE x.kind = "share-path-update"
    <2> DEFINE moved == [i \in DOMAIN t.shares |->
                           IF t.shares[i].id = x.id THEN [t.shares[i] EXCEPT !.path = x.path]
                           ELSE t.shares[i]]
    <2>1. apply_entry(t, x) = [t EXCEPT !.shares = moved]
      BY <1>8 DEF apply_entry, Tables
    <2>2. x.path \in Seq(STRING) /\ t.shares \in Seq(ShareRecords)
      BY <1>8 DEF Tables
    <2>3. ASSUME NEW r \in ShareRecords
          PROVE  [r EXCEPT !.path = x.path] \in ShareRecords
      BY <2>2 DEF ShareRecords
    <2>4. moved \in [1..Len(t.shares) -> ShareRecords]
      BY <2>2, <2>3
    <2> HIDE DEF moved
    <2>5. moved \in Seq(ShareRecords)
      BY <2>2, <2>4
    <2>6. QED
      BY <2>1, <2>5 DEF Tables
  <1>9. CASE x.kind \in {"domain", "domain-revoke"}
    BY <1>9 DEF apply_entry, Tables
  <1>10. CASE x.kind \in {"allowed-email", "allowed-email-revoke"}
    <2>1. x.email \in Emails /\ t.emails \subseteq Emails
      BY <1>10 DEF Tables, AccountKinds
    <2>2. CASE x.kind = "allowed-email"
      BY <2>1, <2>2 DEF apply_entry, Tables
    <2>3. CASE x.kind = "allowed-email-revoke"
      BY <2>1, <2>3 DEF apply_entry, Tables
    <2>4. QED
      BY <1>10, <2>2, <2>3
  <1>11. CASE x.kind \in {"user-deactivate", "user-activate"}
    BY <1>11 DEF apply_entry, Tables, AccountKinds
  <1>12. CASE x.kind = "user-delete"
    BY <1>12, DeletedTyped DEF apply_entry, AccountKinds
  <1>13. QED
    BY <1>1, <1>2, <1>3, <1>4, <1>5, <1>6, <1>7, <1>8, <1>9, <1>10, <1>11, <1>12
       DEF Kinds, AccountKinds

LEMMA ChangedTyped ==
  ASSUME NEW t \in Tables, NEW x \in Entries
  PROVE  Changed(t, x) \in Tables
  <1>1. apply_entry(t, x) \in Tables
    BY AppliedTyped
  <1>2. ASSUME NEW e \in Emails
        PROVE  upsert_user(t, e) \in Tables
    BY DEF upsert_user, IsUser, Tables
  <1>3. ASSUME NEW e \in Emails, NEW role
        PROVE  set_role(t, e, role) \in Tables
    BY DEF set_role, IsUser, Tables
  <1>4. execute(t, x) \in Tables
    <2>1. CASE x.kind = "user"
      BY <1>2, <2>1, EntryFields DEF execute
    <2>2. CASE x.kind \in {"top-admin", "admin", "admin-revoke"}
      BY <1>3, <2>2, EntryFields DEF execute, AccountKinds
    <2>3. CASE x.kind = "api-key"
      BY <1>1, <2>3 DEF execute
    <2>4. CASE x.kind = "share"
      BY <1>1, <2>4 DEF execute
    <2>5. CASE x.kind \notin {"user", "top-admin", "admin", "admin-revoke", "api-key", "share"}
      BY <1>1, <2>5 DEF execute
    <2>6. QED
      BY <2>1, <2>2, <2>3, <2>4, <2>5
  <1>5. QED
    BY <1>1, <1>4 DEF Changed

Replaying(f, s) ==
    /\ f \in [0..Len(s) -> Tables]
    /\ f[0] = EmptyTables
    /\ \A n \in 1..Len(s) : f[n] = Changed(f[n - 1], s[n])
    /\ replay_jsonl(s) = f[Len(s)]

LEMMA ReplayUnfolds ==
  ASSUME NEW s \in Seq(Entries)
  PROVE  \E f : Replaying(f, s)
  <1> DEFINE N == Len(s)
             next(w, n) == IF n = 0 THEN EmptyTables ELSE Changed(w[n - 1], s[n])
             g == [n \in 1..N |-> [v \in Tables |-> Changed(v, s[n])]]
  <1>1. N \in Nat /\ \A n \in 1..N : s[n] \in Entries
    OBVIOUS
  <1>2. \A n \in 1..N : \A v \in Tables : g[n][v] = Changed(v, s[n])
    OBVIOUS
  <1>3. Within(g, N, Tables)
    BY <1>1, <1>2, ChangedTyped DEF Within
  <1> HIDE DEF g, N
  <1>4. PICK h : Iterates(h, g, EmptyTables, N, Tables)
    BY <1>1, <1>3, EmptyTyped, Recursion
  <1>5. h \in [0..N -> Tables] /\ h[0] = EmptyTables /\ \A n \in 1..N : h[n] = g[n][h[n - 1]]
    BY <1>4 DEF Iterates
  <1>6. \A n \in 1..N : h[n] = Changed(h[n - 1], s[n])
    <2> SUFFICES ASSUME NEW n \in 1..N PROVE h[n] = Changed(h[n - 1], s[n])
      OBVIOUS
    <2>1. n - 1 \in 0..N /\ h[n - 1] \in Tables
      BY <1>1, <1>5
    <2>2. QED
      BY <1>2, <1>5, <2>1
  <1>7. \A n \in 0..N : h[n] = next(h, n)
    <2>1. \A n \in 0..N : n = 0 \/ (n \in 1..N /\ n # 0)
      BY <1>1
    <2>2. QED
      BY <1>5, <1>6, <2>1
  <1>8. h = [n \in 0..N |-> next(h, n)]
    BY <1>5, <1>7
  <1> DEFINE f == CHOOSE w : w = [n \in 0..N |-> next(w, n)]
  <1>9. f = [n \in 0..N |-> next(f, n)]
    BY <1>8
  <1>10. replay_jsonl(s) = f[N]
    BY DEF replay_jsonl, N
  <1> HIDE DEF f
  <1>11. \A n \in 0..N : f[n] = next(f, n)
    BY <1>9
  <1> DEFINE same == {n \in 0..N : f[n] = h[n]}
  <1>12. 0 \in same
    BY <1>1, <1>7, <1>11
  <1>13. \A n \in 0..N : n \in same /\ n # N => n + 1 \in same
    <2> SUFFICES ASSUME NEW n \in 0..N, n \in same, n # N
                 PROVE  n + 1 \in same
      OBVIOUS
    <2>1. n + 1 \in 0..N /\ (n + 1) - 1 = n /\ n + 1 # 0
      BY <1>1
    <2>2. f[n + 1] = next(f, n + 1) /\ h[n + 1] = next(h, n + 1)
      BY <1>7, <1>11, <2>1
    <2>3. f[n + 1] = h[n + 1]
      BY <2>1, <2>2
    <2>4. QED
      BY <2>1, <2>3
  <1> HIDE DEF same
  <1>14. N \in same
    <2>1. \A k \in 0..N : k \in same
      BY <1>1, <1>12, <1>13, UpTo
    <2>2. QED
      BY <1>1, <2>1
  <1>15. replay_jsonl(s) = h[N]
    BY <1>10, <1>14 DEF same
  <1>16. QED
    BY <1>5, <1>6, <1>15 DEF N, Replaying

LEMMA ReplayTyped ==
  ASSUME NEW s \in Seq(Entries)
  PROVE  replay_jsonl(s) \in Tables
  <1>1. PICK f : Replaying(f, s)
    BY ReplayUnfolds
  <1>2. Len(s) \in 0..Len(s)
    OBVIOUS
  <1>3. QED
    BY <1>1, <1>2 DEF Replaying

-----------------------------------------------------------------------------
(* The entries of a login policy *)

LEMMA SeqOfSet ==
  ASSUME NEW S, IsFiniteSet(S)
  PROVE  Cardinality(S) \in Nat /\ SetToSeq(S) \in [1..Cardinality(S) -> S]
  <1>1. Cardinality(S) \in Nat /\ ExistsBijection(1..Cardinality(S), S)
    BY FS_CardinalityType
  <1>2. PICK f \in [1..Cardinality(S) -> S] : IsInjective(f)
    BY <1>1 DEF ExistsBijection, Bijection, Injection
  <1>3. QED
    BY <1>1, <1>2 DEF SetToSeq

PolicyKinds == {"domain", "allowed-email"}

LEMMA PolicyTyped ==
  ASSUME NEW domains \in SUBSET SeedDomains
  PROVE  LET s == [i \in 1..Cardinality(domains) |-> Policy("domain", SetToSeq(domains)[i])]
         IN  s \in Seq(Entries) /\ \A i \in 1..Len(s) : s[i].kind \in PolicyKinds
  <1> DEFINE n == Cardinality(domains)
             s == [i \in 1..n |-> Policy("domain", SetToSeq(domains)[i])]
  <1>1. IsFiniteSet(domains)
    BY AuthAssumption, FS_Subset
  <1>2. n \in Nat /\ \A i \in 1..n : SetToSeq(domains)[i] \in SeedDomains
    BY <1>1, SeqOfSet
  <1>3. \A i \in 1..n : Policy("domain", SetToSeq(domains)[i]) \in Entries
    BY <1>2 DEF Policy, Entries
  <1>4. \A i \in 1..n : s[i] = Policy("domain", SetToSeq(domains)[i])
    OBVIOUS
  <1>5. s \in [1..n -> Entries]
    BY <1>3
  <1> HIDE DEF s, n
  <1>6. s \in Seq(Entries) /\ Len(s) = n
    BY <1>2, <1>5
  <1>7. \A i \in 1..Len(s) : s[i].kind \in PolicyKinds
    BY <1>4, <1>6 DEF Policy, PolicyKinds
  <1>8. QED
    BY <1>6, <1>7 DEF s, n

LEMMA EmailsTyped ==
  ASSUME NEW emails \in SUBSET Emails
  PROVE  LET s == [i \in 1..Cardinality(emails) |-> About("allowed-email", SetToSeq(emails)[i])]
         IN  s \in Seq(Entries) /\ \A i \in 1..Len(s) : s[i].kind \in PolicyKinds
  <1> DEFINE n == Cardinality(emails)
             s == [i \in 1..n |-> About("allowed-email", SetToSeq(emails)[i])]
  <1>1. IsFiniteSet(emails)
    BY AuthAssumption, FS_Subset
  <1>2. n \in Nat /\ \A i \in 1..n : SetToSeq(emails)[i] \in Emails
    BY <1>1, SeqOfSet
  <1>3. \A i \in 1..n : About("allowed-email", SetToSeq(emails)[i]) \in Entries
    BY <1>2 DEF About, Entries
  <1>4. \A i \in 1..n : s[i] = About("allowed-email", SetToSeq(emails)[i])
    OBVIOUS
  <1>5. s \in [1..n -> Entries]
    BY <1>3
  <1> HIDE DEF s, n
  <1>6. s \in Seq(Entries) /\ Len(s) = n
    BY <1>2, <1>5
  <1>7. \A i \in 1..Len(s) : s[i].kind \in PolicyKinds
    BY <1>4, <1>6 DEF About, PolicyKinds
  <1>8. QED
    BY <1>6, <1>7 DEF s, n

LEMMA JoinedEntries ==
  ASSUME NEW a \in Seq(Entries), NEW b \in Seq(Entries)
  PROVE  /\ a \o b \in Seq(Entries)
         /\ \A i \in 1..Len(a \o b) : (\E j \in 1..Len(a) : (a \o b)[i] = a[j])
                                   \/ (\E j \in 1..Len(b) : (a \o b)[i] = b[j])
  <1>1. a \o b \in Seq(Entries) /\ Len(a \o b) = Len(a) + Len(b) /\ Len(a) \in Nat /\ Len(b) \in Nat
    OBVIOUS
  <1>2. ASSUME NEW i \in 1..(Len(a) + Len(b))
        PROVE  (\E j \in 1..Len(a) : (a \o b)[i] = a[j]) \/ (\E j \in 1..Len(b) : (a \o b)[i] = b[j])
    <2>1. CASE i <= Len(a)
      BY <1>1, <2>1
    <2>2. CASE i > Len(a)
      <3>1. i - Len(a) \in 1..Len(b) /\ (a \o b)[i] = b[i - Len(a)]
        BY <1>1, <2>2
      <3>2. QED
        BY <3>1
    <2>3. QED
      BY <1>1, <2>1, <2>2
  <1>3. QED
    BY <1>1, <1>2

OnlyPolicy(s) == s \in Seq(Entries) /\ \A i \in 1..Len(s) : s[i].kind \in PolicyKinds

LEMMA SeedsTyped == OnlyPolicy(SeedEntries)
  BY PolicyTyped DEF SeedEntries, OnlyPolicy

LEMMA KeptTyped ==
  ASSUME NEW t \in Tables
  PROVE  OnlyPolicy(PolicyEntries(t))
  <1> DEFINE a == [i \in 1..Cardinality(t.domains) |-> Policy("domain", SetToSeq(t.domains)[i])]
             b == [i \in 1..Cardinality(t.emails) |-> About("allowed-email", SetToSeq(t.emails)[i])]
  <1>1. t.domains \in SUBSET SeedDomains /\ t.emails \in SUBSET Emails
    BY DEF Tables
  <1>2. a \in Seq(Entries) /\ \A i \in 1..Len(a) : a[i].kind \in PolicyKinds
    BY <1>1, PolicyTyped
  <1>3. b \in Seq(Entries) /\ \A i \in 1..Len(b) : b[i].kind \in PolicyKinds
    BY <1>1, EmailsTyped
  <1>4. PolicyEntries(t) = a \o b
    BY DEF PolicyEntries
  <1> HIDE DEF a, b
  <1>5. a \o b \in Seq(Entries) /\ \A i \in 1..Len(a \o b) : (a \o b)[i].kind \in PolicyKinds
    BY <1>2, <1>3, JoinedEntries
  <1>6. QED
    BY <1>4, <1>5 DEF OnlyPolicy

-----------------------------------------------------------------------------
(* What a replay makes of an account *)

LEMMA AppliedUsers ==
  ASSUME NEW t \in Tables, NEW x \in Entries, NEW e \in Emails
  PROVE  /\ apply_entry(t, x).users[e] = "active" => t.users[e] = "active" \/ Lets(x, e)
         /\ Bars(x, e) => apply_entry(t, x).users[e] # "active"
  <1> USE EntryFields
  <1>1. CASE x.kind = "user"
    BY <1>1 DEF apply_entry, Tables, Lets, Bars
  <1>2. CASE x.kind \in {"user-deactivate", "user-activate"}
    BY <1>2 DEF apply_entry, Tables, Lets, Bars, IsUser, AccountKinds
  <1>3. CASE x.kind = "user-delete"
    <2>1. apply_entry(t, x) = DeletedUser(t, x.email) /\ x.email \in Emails
      BY <1>3 DEF apply_entry, AccountKinds
    <2>2. DeletedUser(t, x.email).users = [t.users EXCEPT ![x.email] = "none"]
      BY DEF DeletedUser, Retain, Tables
    <2>3. QED
      BY <1>3, <2>1, <2>2 DEF Tables, Bars
  <1>4. CASE x.kind \notin {"user", "user-deactivate", "user-activate", "user-delete"}
    <2>1. apply_entry(t, x).users = t.users
      BY <1>4 DEF apply_entry, Tables, Kinds, AccountKinds, Retain
    <2>2. QED
      BY <1>4, <2>1 DEF Bars
  <1>5. QED
    BY <1>1, <1>2, <1>3, <1>4

LEMMA ShutOutStaysOut ==
  ASSUME NEW s \in Seq(Entries), NEW e \in Emails, backend # "pg", ShutOut(s, e)
  PROVE  replay_jsonl(s).users[e] # "active"
  <1>1. PICK f : Replaying(f, s)
    BY ReplayUnfolds
  <1>2. /\ Len(s) \in Nat /\ Len(s) \in 0..Len(s) /\ \A n \in 1..Len(s) : s[n] \in Entries
        /\ \A n \in 0..Len(s) : f[n] \in Tables
        /\ f[0] = EmptyTables
        /\ \A n \in 1..Len(s) : f[n] = apply_entry(f[n - 1], s[n])
        /\ replay_jsonl(s) = f[Len(s)]
    BY <1>1 DEF Replaying, Changed
  <1> DEFINE let(n) == \E i \in 1..n : Lets(s[i], e) /\ \A j \in 1..n : j > i => ~Bars(s[j], e)
             good == {n \in 0..Len(s) : f[n].users[e] = "active" => let(n)}
  <1>3. 0 \in good
    BY <1>2 DEF EmptyTables
  <1>4. \A n \in 0..Len(s) : n \in good /\ n # Len(s) => n + 1 \in good
    <2> SUFFICES ASSUME NEW n \in 0..Len(s), n \in good, n # Len(s), f[n + 1].users[e] = "active"
                 PROVE  let(n + 1)
      BY <1>2
    <2>1. /\ n + 1 \in 1..Len(s) /\ (n + 1) - 1 = n /\ s[n + 1] \in Entries /\ f[n] \in Tables
          /\ f[n + 1] = apply_entry(f[n], s[n + 1])
      BY <1>2
    <2>2. f[n].users[e] = "active" \/ Lets(s[n + 1], e)
      BY <2>1, AppliedUsers
    <2>3. ~Bars(s[n + 1], e)
      BY <2>1, AppliedUsers
    <2>4. CASE Lets(s[n + 1], e)
      BY <1>2, <2>1, <2>4
    <2>5. CASE f[n].users[e] = "active"
      <3>1. PICK i \in 1..n : Lets(s[i], e) /\ \A j \in 1..n : j > i => ~Bars(s[j], e)
        BY <2>5
      <3>2. i \in 1..(n + 1) /\ \A j \in 1..(n + 1) : j \in 1..n \/ j = n + 1
        BY <1>2
      <3>3. QED
        BY <2>3, <3>1, <3>2
    <2>6. QED
      BY <2>2, <2>4, <2>5
  <1> HIDE DEF good
  <1>5. Len(s) \in good
    <2>1. \A n \in 0..Len(s) : n \in good
      BY <1>2, <1>3, <1>4, UpTo
    <2>2. QED
      BY <1>2, <2>1
  <1>6. ~let(Len(s))
    BY DEF ShutOut
  <1>7. QED
    BY <1>2, <1>5, <1>6 DEF good

LEMMA DeletedFields ==
  ASSUME NEW t \in Tables, NEW e \in Emails
  PROVE  /\ DeletedUser(t, e).users = [t.users EXCEPT ![e] = "none"]
         /\ DeletedUser(t, e).top = t.top \ {e}
         /\ DeletedUser(t, e).keys = [k \in Keys |-> IF t.keys[k] # Nobody /\ t.keys[k].email = e
                                                    THEN Nobody ELSE t.keys[k]]
  BY DEF DeletedUser, Retain, Tables

\* The top administrators after a change: those of before, or the one it names.
LEMMA ChangedTop ==
  ASSUME NEW t \in Tables, NEW x \in Entries
  PROVE  /\ backend # "pg" => Changed(t, x).top \subseteq t.top \/ Changed(t, x).top = {x.email}
         /\ backend = "pg" =>
               /\ \A e \in Changed(t, x).top : e \in t.top \/ (x.kind = "top-admin" /\ e = x.email)
               /\ (\A e \in t.top : IsUser(t, e)) =>
                     \A e \in Changed(t, x).top : IsUser(Changed(t, x), e)
  <1> USE EntryFields
  <1>1. CASE x.kind = "user-delete"
    <2>1. Changed(t, x) = DeletedUser(t, x.email) /\ x.email \in Emails
      BY <1>1 DEF Changed, execute, apply_entry, AccountKinds
    <2>2. /\ DeletedUser(t, x.email).users = [t.users EXCEPT ![x.email] = "none"]
          /\ DeletedUser(t, x.email).top = t.top \ {x.email}
      BY <2>1, DeletedFields
    <2>3. QED
      BY <1>1, <2>1, <2>2 DEF Tables, IsUser
  <1>2. CASE x.kind \in {"top-admin", "admin", "admin-revoke"}
    <2>1. x.email \in Emails
      BY <1>2 DEF AccountKinds
    <2>2. CASE backend = "pg"
      <3>1. Changed(t, x).users = t.users
        BY <1>2, <2>2 DEF Changed, execute, set_role, Tables
      <3>2. \A e \in Changed(t, x).top : e \in t.top \/ (x.kind = "top-admin" /\ e = x.email /\ IsUser(t, e))
        BY <1>2, <2>2, <2>1 DEF Changed, execute, set_role, Tables
      <3>3. QED
        BY <2>2, <3>1, <3>2 DEF IsUser
    <2>3. CASE backend # "pg"
      BY <1>2, <2>1, <2>3 DEF Changed, apply_entry, Tables
    <2>4. QED
      BY <2>2, <2>3
  <1>3. CASE x.kind = "user"
    <2> DEFINE u == Changed(t, x)
    <2>1. /\ u.top = t.top
          /\ u.users = t.users \/ \E v \in {"active", "inactive"} : u.users = [t.users EXCEPT ![x.email] = v]
      <3>1. CASE backend = "pg"
        BY <1>3, <3>1 DEF Changed, execute, upsert_user, Tables
      <3>2. CASE backend # "pg"
        BY <1>3, <3>2 DEF Changed, apply_entry, Tables
      <3>3. QED
        BY <3>1, <3>2
    <2> HIDE DEF u
    <2>2. \A e \in Emails : IsUser(t, e) => IsUser(u, e)
      BY <2>1 DEF Tables, IsUser
    <2>3. QED
      BY <1>3, <2>1, <2>2 DEF Tables, u
  <1>4. CASE x.kind \in {"user-deactivate", "user-activate"}
    <2> DEFINE u == Changed(t, x)
    <2>1. u = apply_entry(t, x)
      BY <1>4 DEF Changed, execute
    <2>2. u.top = t.top /\ \A e \in Emails : IsUser(t, e) => IsUser(u, e)
      <3>1. CASE x.kind = "user-deactivate"
        BY <2>1, <3>1 DEF apply_entry, Tables, IsUser
      <3>2. CASE x.kind = "user-activate"
        BY <2>1, <3>2 DEF apply_entry, Tables, IsUser
      <3>3. QED
        BY <1>4, <3>1, <3>2
    <2> HIDE DEF u
    <2>3. QED
      BY <1>4, <2>2 DEF Tables, u
  <1>5. CASE x.kind \in Kinds \ {"user-delete", "top-admin", "admin", "admin-revoke", "user",
                               "user-deactivate", "user-activate"}
    <2>1. apply_entry(t, x).top = t.top /\ apply_entry(t, x).users = t.users
      BY <1>5 DEF apply_entry, Retain, Tables, Kinds, AccountKinds
    <2>2. Changed(t, x) \in {t, apply_entry(t, x)}
      BY <1>5 DEF Changed, execute, Kinds, AccountKinds
    <2>3. Changed(t, x).top = t.top /\ Changed(t, x).users = t.users
      BY <2>1, <2>2
    <2>4. QED
      BY <2>3 DEF IsUser
  <1>6. QED
    BY <1>1, <1>2, <1>3, <1>4, <1>5

\* It makes at most one top administrator: of a log the last, of statements the only one.
LEMMA ReplayedTop ==
  ASSUME NEW s \in Seq(Entries),
         backend = "pg" => \A i, j \in 1..Len(s) :
            s[i].kind = "top-admin" /\ s[j].kind = "top-admin" => s[i].email = s[j].email
  PROVE  /\ \A e, d \in replay_jsonl(s).top : e = d
         /\ backend = "pg" => \A e \in replay_jsonl(s).top : IsUser(replay_jsonl(s), e)
  <1>1. PICK f : Replaying(f, s)
    BY ReplayUnfolds
  <1>2. /\ Len(s) \in Nat /\ Len(s) \in 0..Len(s) /\ \A n \in 1..Len(s) : s[n] \in Entries
        /\ \A n \in 0..Len(s) : f[n] \in Tables
        /\ f[0] = EmptyTables
        /\ \A n \in 1..Len(s) : f[n] = Changed(f[n - 1], s[n])
        /\ replay_jsonl(s) = f[Len(s)]
    BY <1>1 DEF Replaying
  <1> DEFINE named(n, e) == \E i \in 1..n : s[i].kind = "top-admin" /\ s[i].email = e
             one(n) == /\ \A e, d \in f[n].top : e = d
                       /\ backend = "pg" => \A e \in f[n].top : IsUser(f[n], e) /\ named(n, e)
             good == {n \in 0..Len(s) : one(n)}
  <1>3. 0 \in good
    BY <1>2 DEF EmptyTables
  <1>4. \A n \in 0..Len(s) : n \in good /\ n # Len(s) => n + 1 \in good
    <2> SUFFICES ASSUME NEW n \in 0..Len(s), one(n), n # Len(s)
                 PROVE  one(n + 1)
      BY <1>2
    <2> DEFINE t == f[n]
               x == s[n + 1]
    <2>1. /\ n + 1 \in 1..Len(s) /\ (n + 1) - 1 = n /\ x \in Entries /\ t \in Tables
          /\ f[n + 1] = Changed(t, x)
          /\ \A i \in 1..n : i \in 1..(n + 1) /\ i \in 1..Len(s)
          /\ n + 1 \in 1..(n + 1)
      BY <1>2
    <2>2. \A e \in Emails : named(n, e) => named(n + 1, e)
      BY <2>1
    <2>3. x.kind = "top-admin" => named(n + 1, x.email)
      BY <2>1
    <2>4. \A e, d \in Emails : backend = "pg" /\ named(n + 1, e) /\ named(n + 1, d) => e = d
      <3>1. \A i \in 1..(n + 1) : i \in 1..Len(s)
        BY <2>1
      <3>2. QED
        BY <3>1
    <2> HIDE DEF named, t, x
    <2>5. t.top \subseteq Emails /\ Changed(t, x).top \subseteq Emails
      BY <2>1, ChangedTyped DEF Tables
    <2>6. CASE backend = "pg"
      <3>1. \A e \in t.top : IsUser(t, e) /\ named(n, e)
        BY <2>6 DEF t
      <3>2. \A e \in Changed(t, x).top : e \in t.top \/ (x.kind = "top-admin" /\ e = x.email)
        BY <2>1, <2>6, ChangedTop
      <3>3. \A e \in Changed(t, x).top : IsUser(Changed(t, x), e)
        BY <2>1, <2>6, <3>1, ChangedTop
      <3>4. \A e \in Changed(t, x).top : named(n + 1, e)
        BY <2>2, <2>3, <2>5, <3>1, <3>2
      <3>5. QED
        BY <2>1, <2>4, <2>5, <2>6, <3>3, <3>4
    <2>7. CASE backend # "pg"
      <3>1. \A e, d \in t.top : e = d
        BY DEF t
      <3>2. Changed(t, x).top \subseteq t.top \/ Changed(t, x).top = {x.email}
        BY <2>1, <2>7, ChangedTop
      <3>3. QED
        BY <2>1, <2>7, <3>1, <3>2
    <2>8. QED
      BY <2>6, <2>7
  <1> HIDE DEF good
  <1>5. Len(s) \in good
    <2>1. \A n \in 0..Len(s) : n \in good
      BY <1>2, <1>3, <1>4, UpTo
    <2>2. QED
      BY <1>2, <2>1
  <1>7. QED
    BY <1>2, <1>5 DEF good

-----------------------------------------------------------------------------
(* The steps of a request *)

\* Steps a request may go on with, once its user is known.
Sound(b, r, todo) ==
    /\ todo \in Seq(Steps)
    /\ \A i \in 1..Len(todo) : Fits(b, r, todo[i]) /\ todo[i].do \notin Opening
    /\ \A i \in 1..Len(todo) : i > 1 => Follows(b, r, todo[i - 1], todo[i])

LEMMA StepsOf ==
  ASSUME NEW s \in Seq(Steps)
  PROVE  /\ Len(s) \in Nat /\ DOMAIN s = 1..Len(s)
         /\ \A i \in 1..Len(s) : s[i] \in Steps
         /\ s # <<>> => Head(s) = s[1] /\ 1 \in 1..Len(s)
         /\ s # <<>> => /\ Tail(s) \in Seq(Steps)
                        /\ Len(Tail(s)) = Len(s) - 1
                        /\ \A i \in 1..Len(Tail(s)) : i + 1 \in 1..Len(s) /\ Tail(s)[i] = s[i + 1]
  OBVIOUS

LEMMA SoundJoin ==
  ASSUME NEW b, NEW r, NEW u, NEW v, Sound(b, r, u), Sound(b, r, v),
         u # <<>> /\ v # <<>> => Follows(b, r, u[Len(u)], v[1])
  PROVE  Sound(b, r, u \o v)
  <1> DEFINE m == Len(u)
             n == Len(v)
             w == u \o v
  <1>1. m \in Nat /\ n \in Nat /\ u \in Seq(Steps) /\ v \in Seq(Steps)
    BY DEF Sound
  <1>2. w \in Seq(Steps) /\ Len(w) = m + n
    BY <1>1
  <1>3. \A i \in 1..(m + n) : w[i] = IF i <= m THEN u[i] ELSE v[i - m]
    BY <1>1
  <1>4. \A i \in 1..(m + n) : \/ i \in 1..m /\ i <= m
                              \/ i - m \in 1..n /\ ~(i <= m)
    BY <1>1
  <1> HIDE DEF w, m, n
  <1>5. ASSUME NEW i \in 1..(m + n)
        PROVE  Fits(b, r, w[i]) /\ w[i].do \notin Opening
    <2>1. CASE i \in 1..m /\ i <= m
      BY <1>3, <2>1 DEF Sound, m
    <2>2. CASE i - m \in 1..n /\ ~(i <= m)
      BY <1>3, <2>2 DEF Sound, n
    <2>3. QED
      BY <1>4, <2>1, <2>2
  <1>6. ASSUME NEW i \in 1..(m + n), i > 1
        PROVE  Follows(b, r, w[i - 1], w[i])
    <2>1. i - 1 \in 1..(m + n)
      BY <1>1, <1>6 DEF m, n
    <2>2. CASE i \in 1..m
      <3>1. w[i] = u[i] /\ w[i - 1] = u[i - 1]
        BY <1>1, <1>3, <1>6, <2>1, <2>2 DEF m, n
      <3>2. QED
        BY <1>6, <2>2, <3>1 DEF Sound, m
    <2>3. CASE i = m + 1
      <3>1. w[i] = v[1] /\ w[i - 1] = u[m] /\ u # <<>> /\ v # <<>>
        BY <1>1, <1>3, <1>6, <2>1, <2>3 DEF m, n
      <3>2. QED
        BY <3>1 DEF m
    <2>4. CASE i > m + 1
      <3>1. w[i] = v[i - m] /\ w[i - 1] = v[(i - m) - 1] /\ i - m \in 1..n /\ i - m > 1
        BY <1>1, <1>3, <1>6, <2>1, <2>4 DEF m, n
      <3>2. QED
        BY <3>1 DEF Sound, n
    <2>5. QED
      BY <1>1, <1>6, <2>2, <2>3, <2>4 DEF m, n
  <1>7. QED
    BY <1>2, <1>5, <1>6 DEF Sound, w

LEMMA SoundTail ==
  ASSUME NEW b, NEW r, NEW todo, Sound(b, r, todo), todo # <<>>
  PROVE  Sound(b, r, Tail(todo))
  <1>1. todo \in Seq(Steps)
    BY DEF Sound
  <1>2. /\ Len(todo) \in Nat
        /\ Tail(todo) \in Seq(Steps)
        /\ Len(Tail(todo)) = Len(todo) - 1
        /\ \A i \in 1..Len(Tail(todo)) : i + 1 \in 1..Len(todo) /\ Tail(todo)[i] = todo[i + 1]
    BY <1>1, StepsOf
  <1>3. ASSUME NEW i \in 1..Len(Tail(todo)), i > 1
        PROVE  Follows(b, r, Tail(todo)[i - 1], Tail(todo)[i])
    <2>1. i - 1 \in 1..Len(Tail(todo)) /\ (i - 1) + 1 = i /\ i + 1 > 1 /\ (i + 1) - 1 = i
      BY <1>2, <1>3
    <2>2. Tail(todo)[i - 1] = todo[i] /\ Tail(todo)[i] = todo[i + 1] /\ i + 1 \in 1..Len(todo)
      BY <1>2, <2>1
    <2>3. QED
      BY <2>1, <2>2 DEF Sound
  <1>4. QED
    BY <1>2, <1>3 DEF Sound

LEMMA SoundNone ==
  ASSUME NEW b, NEW r
  PROVE  Sound(b, r, <<>>)
  <1>1. <<>> \in Seq(Steps) /\ Len(<<>>) = 0
    OBVIOUS
  <1>2. QED
    BY <1>1 DEF Sound

LEMMA SoundOne ==
  ASSUME NEW b, NEW r, NEW s, Fits(b, r, s), s.do \notin Opening
  PROVE  Sound(b, r, <<s>>)
  <1>1. s \in Steps
    BY DEF Fits
  <1>2. <<s>> \in Seq(Steps) /\ Len(<<s>>) = 1 /\ <<s>>[1] = s
    BY <1>1
  <1>3. \A i \in 1..1 : i = 1
    OBVIOUS
  <1>4. QED
    BY <1>2, <1>3 DEF Sound

LEMMA SoundTwo ==
  ASSUME NEW b, NEW r, NEW s, NEW t, Fits(b, r, s), s.do \notin Opening, Fits(b, r, t), t.do \notin Opening,
         Follows(b, r, s, t)
  PROVE  Sound(b, r, <<s, t>>)
  <1>1. s \in Steps /\ t \in Steps
    BY DEF Fits
  <1>2. <<s, t>> \in Seq(Steps) /\ Len(<<s, t>>) = 2 /\ <<s, t>>[1] = s /\ <<s, t>>[2] = t
    BY <1>1
  <1>3. \A i \in 1..2 : i = 1 \/ i = 2
    OBVIOUS
  <1>4. QED
    BY <1>2, <1>3 DEF Sound

\* The user of a request that is served.
Knows(r) == r.user \in Users /\ (r.op = "login" => r.user.email = r.arg)

LEMMA InProgressFields ==
  ASSUME NEW b, NEW r, InProgress(b, r)
  PROVE  /\ Called(r) /\ r.todo \in Seq(Steps) /\ r.todo # <<>> /\ r # Nothing
         /\ Len(r.todo) \in Nat /\ 1 \in 1..Len(r.todo) /\ Head(r.todo) = r.todo[1]
         /\ Fits(b, r, Head(r.todo)) /\ Head(r.todo) \in Steps
         /\ Head(r.todo).do \notin {"lookup", "confirm", "allowed", "login_role"} => Knows(r)
         /\ Head(r.todo).do \notin Opening => Sound(b, r, r.todo)
  <1>1. r.todo \in Seq(Steps) /\ r.todo # <<>>
    BY DEF InProgress
  <1>2. Len(r.todo) \in Nat /\ 1 \in 1..Len(r.todo) /\ Head(r.todo) = r.todo[1]
    BY <1>1, StepsOf
  <1>3. Fits(b, r, Head(r.todo)) /\ Head(r.todo) \in Steps
    BY <1>2 DEF InProgress, Fits
  <1>4. r # Nothing
    <2>1. Nothing.todo = <<>>
      BY DEF Nothing, Request
    <2>2. QED
      BY <1>1, <2>1
  <1>5. Head(r.todo).do \notin {"lookup", "confirm", "allowed", "login_role"} => Knows(r)
    BY DEF InProgress, Entered, Knows
  <1>6. Head(r.todo).do \notin Opening => Sound(b, r, r.todo)
    BY DEF InProgress, Entered, Sound
  <1>7. QED
    BY <1>1, <1>2, <1>3, <1>4, <1>5, <1>6 DEF InProgress

LEMMA SoundOfSame ==
  ASSUME NEW b, NEW r, NEW q, q.op = r.op, q.arg = r.arg, q.user = r.user, NEW todo, Sound(b, r, todo)
  PROVE  Sound(b, q, todo)
  <1>1. \A st : Fits(b, q, st) <=> Fits(b, r, st)
    BY DEF Fits, Writes
  <1>2. \A st, tt : Follows(b, q, st, tt) <=> Follows(b, r, st, tt)
    BY DEF Follows
  <1>3. QED
    BY <1>1, <1>2 DEF Sound

LEMMA Continues ==
  ASSUME NEW b, NEW q, Called(q), Knows(q), Sound(b, q, q.todo), q.todo # <<>>
  PROVE  InProgress(b, q)
  <1>1. q.todo \in Seq(Steps)
    BY DEF Sound
  <1>2. 1 \in 1..Len(q.todo) /\ Head(q.todo) = q.todo[1]
    BY <1>1, StepsOf
  <1>3. Head(q.todo).do \notin Opening
    BY <1>2 DEF Sound
  <1>4. Entered(q, Head(q.todo).do)
    BY <1>3 DEF Entered, Opening, Knows, Sound
  <1>5. QED
    BY <1>1, <1>4 DEF InProgress, Sound

\* A request that is served goes on with the steps given, and then with what is left of it.
LEMMA GoesOnInProgress ==
  ASSUME NEW b, NEW r, InProgress(b, r), Head(r.todo).do \notin Opening,
         NEW steps, Sound(b, r, steps),
         steps # <<>> /\ Tail(r.todo) # <<>> => Follows(b, r, steps[Len(steps)], r.todo[2]),
         NEW q, q = [r EXCEPT !.todo = steps \o Tail(r.todo)], q.todo # <<>>
  PROVE  InProgress(b, q) /\ Head(q.todo).do \notin Opening
  <1>1. Sound(b, r, r.todo) /\ r.todo # <<>> /\ r.todo \in Seq(Steps) /\ Called(r) /\ Knows(r)
    BY InProgressFields DEF Opening
  <1>2. Sound(b, r, Tail(r.todo)) /\ (Tail(r.todo) # <<>> => Tail(r.todo)[1] = r.todo[2])
    <2>1. Tail(r.todo) \in Seq(Steps) /\ \A i \in 1..Len(Tail(r.todo)) : Tail(r.todo)[i] = r.todo[i + 1]
      BY <1>1, StepsOf
    <2>2. Tail(r.todo) # <<>> => 1 \in 1..Len(Tail(r.todo))
      BY <2>1, StepsOf
    <2>3. QED
      BY <1>1, <2>1, <2>2, SoundTail
  <1>3. Sound(b, r, steps \o Tail(r.todo))
    BY <1>2, SoundJoin
  <1>4. /\ q.todo = steps \o Tail(r.todo) /\ q.op = r.op /\ q.arg = r.arg /\ q.user = r.user
        /\ q.cred = r.cred /\ q.cached = r.cached /\ q.alone = r.alone
        /\ q = [op |-> q.op, cred |-> q.cred, arg |-> q.arg, user |-> q.user, cached |-> q.cached,
                alone |-> q.alone, todo |-> q.todo]
    BY <1>1 DEF Called
  <1>5. Called(q)
    BY <1>1, <1>4 DEF Called
  <1>6. Knows(q)
    BY <1>1, <1>4 DEF Knows
  <1>7. Sound(b, q, q.todo)
    <2>1. Sound(b, q, steps \o Tail(r.todo))
      BY <1>3, <1>4, SoundOfSame
    <2>2. QED
      BY <2>1, <1>4
  <1>8. Head(q.todo).do \notin Opening
    <2>1. q.todo \in Seq(Steps) /\ Head(q.todo) = q.todo[1] /\ 1 \in 1..Len(q.todo)
      BY <1>7 DEF Sound
    <2>2. QED
      BY <1>7, <2>1 DEF Sound
  <1>9. QED
    BY <1>5, <1>6, <1>7, <1>8, Continues

\* The request of p takes a step: it is finished, or it goes on, and does not wait again.
Moves(p) ==
    \E r : /\ req' = [req EXCEPT ![p] = r]
          /\ \/ r = Nothing
             \/ /\ InProgress(backend, r) /\ r.op = req[p].op /\ r.alone = req[p].alone
                /\ Head(r.todo).do \in Opening => Head(req[p].todo).do \in Opening

LEMMA GoesMoves ==
  ASSUME NEW p \in Slots, NEW r, Goes(p, r), r.op = req[p].op, r.alone = req[p].alone,
         r.todo # <<>> => InProgress(backend, r),
         r.todo # <<>> /\ Head(r.todo).do \in Opening => Head(req[p].todo).do \in Opening
  PROVE  Moves(p)
  BY DEF Goes, Moves

LEMMA RefuseMoves ==
  ASSUME NEW p \in Slots, Refuse(p)
  PROVE  Moves(p) /\ req' = [req EXCEPT ![p] = Nothing]
  BY DEF Refuse, Goes, Moves, Nothing, Request

LEMMA ThenMoves ==
  ASSUME RequestsInv, NEW p \in Slots, Busy(p), Head(req[p].todo).do \notin Opening,
         NEW steps, Then(p, steps), Sound(backend, req[p], steps),
         steps # <<>> /\ Tail(req[p].todo) # <<>> =>
            Follows(backend, req[p], steps[Len(steps)], req[p].todo[2])
  PROVE  Moves(p)
  <1> DEFINE r == req[p]
             q == [r EXCEPT !.todo = steps \o Tail(r.todo)]
  <1>1. InProgress(backend, r) /\ Called(r)
    BY DEF RequestsInv, InProgress
  <1>2. Goes(p, q)
    BY DEF Then
  <1>3. q.op = r.op /\ q.alone = r.alone
    BY <1>1 DEF Called
  <1>4. q.todo # <<>> => InProgress(backend, q) /\ Head(q.todo).do \notin Opening
    <2> HIDE DEF q
    <2>1. q = [r EXCEPT !.todo = steps \o Tail(r.todo)]
      BY DEF q
    <2> HIDE DEF r
    <2>2. QED
      BY <1>1, <2>1, GoesOnInProgress DEF r
  <1> HIDE DEF q
  <1>5. QED
    BY <1>2, <1>3, <1>4, GoesMoves

LEMMA AdvanceMoves ==
  ASSUME RequestsInv, NEW p \in Slots, Busy(p), Head(req[p].todo).do \notin Opening, Advance(p)
  PROVE  Moves(p)
  <1>1. Sound(backend, req[p], <<>>)
    BY SoundNone
  <1>2. QED
    BY <1>1, ThenMoves DEF Advance

(* The steps of the handlers *)

LEMMA JoinEnds ==
  ASSUME NEW S, NEW u \in Seq(S), NEW v \in Seq(S)
  PROVE  /\ v # <<>> => u \o v # <<>> /\ (u \o v)[Len(u \o v)] = v[Len(v)]
         /\ u # <<>> => u \o v # <<>> /\ (u \o v)[1] = u[1]
  <1>1. u \o v \in Seq(S) /\ Len(u \o v) = Len(u) + Len(v) /\ Len(u) \in Nat /\ Len(v) \in Nat
    OBVIOUS
  <1>2. v # <<>> => Len(v) > 0
    OBVIOUS
  <1>3. u # <<>> => Len(u) > 0
    OBVIOUS
  <1>4. QED
    BY <1>1, <1>2, <1>3

LEMMA SoundPersist ==
  ASSUME NEW r, NEW x \in Entries, Writes(r, x)
  PROVE  /\ Sound(backend, r, Persist(x))
         /\ Persist(x) \in Seq(Steps) /\ Persist(x) # <<>>
         /\ Persist(x)[Len(Persist(x))] = ApplyEntry(x)
         /\ \A before : Follows(backend, r, before, Persist(x)[1])
  <1>1. (backend # "pg" => Fits(backend, r, AppendEntry(x))) /\ AppendEntry(x).do \notin Opening
    BY DEF Fits, Straight, AppendEntry, Steps, LoginSteps, Cleanup, Opening
  <1>2. Fits(backend, r, ApplyEntry(x)) /\ ApplyEntry(x).do \notin Opening
    BY DEF Fits, Straight, ApplyEntry, Steps, LoginSteps, Cleanup, Opening
  <1>3. Follows(backend, r, AppendEntry(x), ApplyEntry(x))
    BY DEF Follows, ApplyEntry
  <1>4. \A before : Follows(backend, r, before, AppendEntry(x))
    BY DEF Follows, AppendEntry
  <1>5. backend = "pg" => \A before : Follows(backend, r, before, ApplyEntry(x))
    BY DEF Follows, ApplyEntry
  <1>6. (backend # "pg" => AppendEntry(x) \in Steps) /\ ApplyEntry(x) \in Steps
    BY <1>1, <1>2 DEF Fits
  <1>7. CASE backend = "pg"
    <2>1. Persist(x) = <<ApplyEntry(x)>>
      BY <1>7 DEF Persist
    <2>2. Sound(backend, r, Persist(x))
      BY <1>2, <2>1, SoundOne
    <2>3. Persist(x) \in Seq(Steps) /\ Persist(x) # <<>> /\ Len(Persist(x)) = 1 /\ Persist(x)[1] = ApplyEntry(x)
      BY <1>6, <2>1
    <2>4. QED
      BY <1>5, <1>7, <2>2, <2>3
  <1>8. CASE backend # "pg"
    <2>1. Persist(x) = <<AppendEntry(x), ApplyEntry(x)>>
      BY <1>8 DEF Persist
    <2>2. Sound(backend, r, Persist(x))
      BY <1>1, <1>2, <1>3, <1>8, <2>1, SoundTwo
    <2>3. /\ Persist(x) \in Seq(Steps) /\ Persist(x) # <<>> /\ Len(Persist(x)) = 2
          /\ Persist(x)[1] = AppendEntry(x) /\ Persist(x)[2] = ApplyEntry(x)
      BY <1>6, <1>8, <2>1
    <2>4. QED
      BY <1>4, <2>2, <2>3
  <1>9. QED
    BY <1>7, <1>8

\* A step, persisted entries and a last step.
LEMMA SoundAround ==
  ASSUME NEW r, NEW x \in Entries, Writes(r, x),
         NEW s, Fits(backend, r, s), s.do \notin Opening,
         NEW v, Sound(backend, r, v), v # <<>>, Follows(backend, r, ApplyEntry(x), v[1])
  PROVE  /\ Sound(backend, r, Persist(x) \o v)
         /\ Sound(backend, r, <<s>> \o Persist(x))
         /\ Sound(backend, r, <<s>> \o Persist(x) \o v)
  <1> DEFINE u == Persist(x)
  <1>1. /\ Sound(backend, r, u) /\ u \in Seq(Steps) /\ u # <<>> /\ u[Len(u)] = ApplyEntry(x)
        /\ \A before : Follows(backend, r, before, u[1])
    BY SoundPersist
  <1> HIDE DEF u
  <1>2. Sound(backend, r, <<s>>) /\ <<s>> \in Seq(Steps)
    <2>1. s \in Steps
      BY DEF Fits
    <2>2. QED
      BY <2>1, SoundOne
  <1>3. v \in Seq(Steps)
    BY DEF Sound
  <1>4. Sound(backend, r, u \o v)
    BY <1>1, SoundJoin
  <1>5. Sound(backend, r, <<s>> \o u)
    BY <1>1, <1>2, SoundJoin
  <1>6. (<<s>> \o u)[Len(<<s>> \o u)] = ApplyEntry(x)
    BY <1>1, <1>2, JoinEnds
  <1>7. Sound(backend, r, (<<s>> \o u) \o v)
    BY <1>5, <1>6, SoundJoin
  <1>8. QED
    BY <1>4, <1>5, <1>7 DEF u

LEMMA SoundCleanup ==
  ASSUME NEW r, r.op \in {"deactivate", "activate", "delete_user"}, r.arg \in Emails
  PROVE  /\ Sound(backend, r, revoke_user_access(r.arg)) /\ revoke_user_access(r.arg) # <<>>
         /\ \A x : x.kind \in {"user-deactivate", "user-activate", "user-delete"} =>
               Follows(backend, r, ApplyEntry(x), revoke_user_access(r.arg)[1])
  <1> DEFINE e == r.arg
             s1 == On("drop_sessions", About("none", e))
             s2 == On("delete_rows", About("none", e))
             s3 == On("drop_keys", About("none", e))
             u == revoke_user_access(e)
  <1>1. \A s \in {s1, s2, s3} : Fits(backend, r, s) /\ s.do \notin Opening
    <2> SUFFICES ASSUME NEW d \in Cleanup, NEW s, s = On(d, About("none", e))
                 PROVE  Fits(backend, r, s) /\ s.do \notin Opening
      BY DEF Cleanup
    <2>1. s = [do |-> d, x |-> [kind |-> "none", email |-> e]]
      BY DEF On, About
    <2>2. s \in Steps /\ s.do = d /\ s.x.email = e
      <3>1. s \in [do : Cleanup \union {"exists"}, x : [kind : {"none"}, email : Emails]]
        BY <2>1
      <3>2. QED
        BY <2>1, <3>1 DEF Steps
    <2>3. d \notin {"append", "apply"} \union LoginSteps \union Opening
      BY DEF Cleanup, LoginSteps, Opening
    <2>4. d \notin {"owns_key", "cache_key", "drop_key", "label", "delete_shares_under",
                    "remove_tree", "clear", "reset_db"}
      BY DEF Cleanup
    <2>5. r.op # "login"
      OBVIOUS
    <2>6. QED
      BY <2>2, <2>3, <2>4, <2>5 DEF Fits, Straight
  <1>2. Follows(backend, r, s1, s2) /\ Follows(backend, r, s2, s3)
    BY DEF Follows, On
  <1>3. \A x : x.kind \in {"user-deactivate", "user-activate", "user-delete"} =>
               Follows(backend, r, ApplyEntry(x), s1)
    BY DEF Follows, On, ApplyEntry
  <1>4. u = <<s1, s2, s3>>
    BY DEF revoke_user_access
  <1> HIDE DEF s1, s2, s3, u, e
  <1>5. s1 \in Steps /\ s2 \in Steps /\ s3 \in Steps
    BY <1>1 DEF Fits
  <1>6. u \in Seq(Steps) /\ Len(u) = 3 /\ u[1] = s1 /\ u[2] = s2 /\ u[3] = s3 /\ u # <<>>
    BY <1>4, <1>5
  <1>7. \A i \in 1..3 : i = 1 \/ i = 2 \/ i = 3
    OBVIOUS
  <1>8. Sound(backend, r, u)
    BY <1>1, <1>2, <1>6, <1>7 DEF Sound
  <1>9. QED
    BY <1>3, <1>6, <1>8 DEF u, e

LEMMA StepForms ==
  ASSUME NEW r, r.op # "login"
  PROVE  /\ \A d \in Plain : Do(d) \in Steps /\ Do(d).do = d
         /\ \A e \in Emails : Fits(backend, r, On("exists", About("none", e)))
         /\ r.op \notin AccountOps \union KeyOps =>
               /\ \A c \in Sessions : /\ Fits(backend, r, On("delete_session", About("none", c)))
                                       /\ Fits(backend, r, On("delete_row", About("none", c)))
               /\ \A id \in Shares : /\ Fits(backend, r, On("owns_share", ShareRevoke(id)))
                                     /\ Fits(backend, r, On("revoke_share", ShareRevoke(id)))
  <1>1. \A d \in Plain : Do(d) \in Steps /\ Do(d).do = d
    BY DEF Do, Steps
  <1>2. \A e \in Emails : Fits(backend, r, On("exists", About("none", e)))
    <2> SUFFICES ASSUME NEW e \in Emails, NEW s, s = On("exists", About("none", e)) PROVE Fits(backend, r, s)
      OBVIOUS
    <2>1. s = [do |-> "exists", x |-> [kind |-> "none", email |-> e]]
      BY DEF On, About
    <2>2. s \in Steps /\ s.do = "exists"
      <3>1. s \in [do : Cleanup \union {"exists"}, x : [kind : {"none"}, email : Emails]]
        BY <2>1
      <3>2. QED
        BY <2>1, <3>1 DEF Steps
    <2>3. QED
      BY <2>2 DEF Fits, LoginSteps, Cleanup, Straight
  <1>3. ASSUME r.op \notin AccountOps \union KeyOps
        PROVE  \A c \in Sessions, d \in {"delete_session", "delete_row"} :
                  Fits(backend, r, On(d, About("none", c)))
    <2> SUFFICES ASSUME NEW c \in Sessions, NEW d \in {"delete_session", "delete_row"},
                        NEW s, s = On(d, About("none", c)) PROVE Fits(backend, r, s)
      OBVIOUS
    <2>1. s = [do |-> d, x |-> [kind |-> "none", email |-> c]]
      BY DEF On, About
    <2>2. s \in Steps /\ s.do = d
      <3>1. s \in [do : {"delete_session", "delete_row"}, x : [kind : {"none"}, email : Sessions]]
        BY <2>1
      <3>2. QED
        BY <2>1, <3>1 DEF Steps
    <2>3. QED
      BY <1>3, <2>2 DEF Fits, LoginSteps, Cleanup
  <1>4. ASSUME r.op \notin AccountOps \union KeyOps
        PROVE  \A id \in Shares, d \in {"owns_share", "revoke_share"} :
                  Fits(backend, r, On(d, ShareRevoke(id)))
    <2> SUFFICES ASSUME NEW id \in Shares, NEW d \in {"owns_share", "revoke_share"},
                        NEW s, s = On(d, ShareRevoke(id)) PROVE Fits(backend, r, s)
      OBVIOUS
    <2>1. s = [do |-> d, x |-> [kind |-> "share-revoke", id |-> id]]
      BY DEF On, ShareRevoke
    <2>2. s \in Steps /\ s.do = d
      BY <2>1 DEF Steps
    <2>3. QED
      BY <1>4, <2>2 DEF Fits, LoginSteps, Cleanup
  <1>5. QED
    BY <1>1, <1>2, <1>3, <1>4

\* The handlers of the administrators.
LEMMA TopHandlerSound ==
  ASSUME NEW r, Called(r), Knows(r), r.op \in Ops \ (UserOps \union {"login", "kill_session"})
  PROVE  Sound(backend, r, TopHandler(r))
  <1>1. CASE r.op \in {"deactivate", "activate"}
    <2> DEFINE x == About(IF r.op = "activate" THEN "user-activate" ELSE "user-deactivate", r.arg)
    <2>1. r.arg \in Emails
      BY <1>1 DEF Called, AccountOps
    <2>2. x \in Entries /\ Writes(r, x) /\ x.kind \in {"user-deactivate", "user-activate"}
      BY <1>1, <2>1 DEF About, Entries, Writes
    <2>3. TopHandler(r) = Persist(x) \o revoke_user_access(r.arg)
      BY <1>1 DEF TopHandler, deactivate_user, activate_user
    <2> HIDE DEF x
    <2>4. /\ Sound(backend, r, revoke_user_access(r.arg)) /\ revoke_user_access(r.arg) # <<>>
          /\ Follows(backend, r, ApplyEntry(x), revoke_user_access(r.arg)[1])
      BY <1>1, <2>1, <2>2, SoundCleanup
    <2>5. /\ Sound(backend, r, Persist(x))
          /\ Persist(x) # <<>> /\ Persist(x)[Len(Persist(x))] = ApplyEntry(x)
      BY <2>2, SoundPersist
    <2>6. QED
      BY <2>3, <2>4, <2>5, SoundJoin
  <1>2. CASE r.op = "delete_user"
    <2> DEFINE x == About("user-delete", r.arg)
               s == On("exists", About("none", r.arg))
    <2>1. r.arg \in Emails
      BY <1>2 DEF Called, AccountOps
    <2>2. x \in Entries /\ Writes(r, x) /\ x.kind = "user-delete"
      BY <1>2, <2>1 DEF About, Entries, Writes
    <2>3. Fits(backend, r, s) /\ s.do \notin Opening
      BY <1>2, <2>1, StepForms DEF On, Opening
    <2>4. TopHandler(r) = <<s>> \o Persist(x) \o revoke_user_access(r.arg)
      BY <1>2 DEF TopHandler, delete_user
    <2> HIDE DEF x, s
    <2>5. /\ Sound(backend, r, revoke_user_access(r.arg)) /\ revoke_user_access(r.arg) # <<>>
          /\ Follows(backend, r, ApplyEntry(x), revoke_user_access(r.arg)[1])
      BY <1>2, <2>1, <2>2, SoundCleanup
    <2>6. QED
      BY <2>2, <2>3, <2>4, <2>5, SoundAround
  <1>3. CASE r.op \in {"grant_admin", "revoke_admin", "add_email", "remove_email"}
    <2> DEFINE x == About(CASE r.op = "grant_admin" -> "admin" [] r.op = "revoke_admin" -> "admin-revoke"
                            [] r.op = "add_email" -> "allowed-email"
                            [] r.op = "remove_email" -> "allowed-email-revoke", r.arg)
    <2>1. r.arg \in Emails
      BY <1>3 DEF Called, AccountOps
    <2>2. x \in Entries /\ Writes(r, x)
      BY <1>3, <2>1 DEF About, Entries, Writes
    <2>3. TopHandler(r) = Persist(x)
      BY <1>3 DEF TopHandler, grant_admin, revoke_admin, add_allowed_email, remove_allowed_email
    <2> HIDE DEF x
    <2>4. QED
      BY <2>2, <2>3, SoundPersist
  <1>4. CASE r.op \in PolicyOps
    <2> DEFINE x == Policy(IF r.op = "add_domain" THEN "domain" ELSE "domain-revoke", r.arg)
    <2>1. r.arg \in SeedDomains
      BY <1>4 DEF Called
    <2>2. x \in Entries /\ Writes(r, x)
      BY <1>4, <2>1 DEF Policy, Entries, Writes, PolicyOps
    <2>3. TopHandler(r) = Persist(x)
      BY <1>4 DEF TopHandler, add_domain, remove_domain, PolicyOps
    <2> HIDE DEF x
    <2>4. QED
      BY <2>2, <2>3, SoundPersist
  <1>5. CASE r.op = "factory_reset"
    <2> DEFINE s1 == Do("remove_tree")
               s2 == Do("clear")
               s3 == Do("reset_db")
    <2>1. \A s \in {s1, s2, s3} : s \in Steps /\ s.do \in {"remove_tree", "clear", "reset_db"}
      BY <1>5, StepForms DEF Plain
    <2>2. \A s \in {s1, s2, s3} : Fits(backend, r, s) /\ s.do \notin Opening
      BY <1>5, <2>1 DEF Fits, AccountOps, KeyOps, Straight, LoginSteps, Cleanup, Opening
    <2>3. Follows(backend, r, s1, s2) /\ Follows(backend, r, s2, s3)
      BY DEF Follows, Do
    <2>4. TopHandler(r) = <<s1, s2, s3>>
      BY <1>5 DEF TopHandler
    <2> HIDE DEF s1, s2, s3
    <2> DEFINE u == <<s1, s2, s3>>
    <2>5. u \in Seq(Steps) /\ Len(u) = 3 /\ u[1] = s1 /\ u[2] = s2 /\ u[3] = s3
      BY <2>1
    <2> HIDE DEF u
    <2>6. \A i \in 1..3 : i = 1 \/ i = 2 \/ i = 3
      OBVIOUS
    <2>7. Sound(backend, r, u)
      BY <2>2, <2>3, <2>5, <2>6 DEF Sound
    <2>8. QED
      BY <2>4, <2>7 DEF u
  <1>6. QED
    BY <1>1, <1>2, <1>3, <1>4, <1>5 DEF Ops, AccountOps, PolicyOps

\* The handlers of every user.
LEMMA UserHandlerSound ==
  ASSUME NEW r, Called(r), Knows(r), r.op \in UserOps
  PROVE  Sound(backend, r, UserHandler(r))
  <1>0. r.op # "login" /\ r.user.email \in Emails /\ r.op \notin AccountOps
    BY DEF UserOps, AccountOps, Knows, Users
  <1>1. CASE r.op = "me"
    <2>1. UserHandler(r) = <<>>
      BY <1>1 DEF UserHandler
    <2>2. QED
      BY <2>1, SoundNone
  <1>2. CASE r.op = "logout"
    <2> DEFINE s == On("delete_session", About("none", r.cred))
    <2>1. UserHandler(r) = IF r.cred \in Sessions THEN <<s>> ELSE <<>>
      BY <1>2 DEF UserHandler, logout
    <2>2. r.cred \in Sessions => Fits(backend, r, s)
      BY <1>0, <1>2, StepForms DEF KeyOps
    <2>3. s.do \notin Opening
      BY DEF On, Opening
    <2> HIDE DEF s
    <2>4. r.cred \in Sessions => Sound(backend, r, <<s>>)
      BY <2>2, <2>3, SoundOne
    <2>5. QED
      BY <2>1, <2>4, SoundNone
  <1>3. CASE r.op = "create_api_key"
    <2> DEFINE x == KeyEntry(r.arg.key, r.user.email, r.arg.label)
               s == Do("cache_key")
    <2>1. r.arg \in [key : Keys, label : Labels]
      BY <1>3 DEF Called, KeyOps
    <2>2. x \in Entries /\ Writes(r, x)
      BY <1>0, <1>3, <2>1 DEF KeyEntry, Entries, Writes
    <2>3. s \in Steps /\ s.do = "cache_key"
      BY <1>0, StepForms DEF Plain
    <2>4. Fits(backend, r, s) /\ s.do \notin Opening
      BY <1>0, <1>3, <2>3 DEF Fits, Straight, LoginSteps, Cleanup, Opening
    <2>5. Follows(backend, r, ApplyEntry(x), s)
      BY <2>3 DEF Follows
    <2>6. UserHandler(r) = Persist(x) \o <<s>>
      BY <1>3 DEF UserHandler, create_api_key
    <2> HIDE DEF x, s
    <2>7. Sound(backend, r, <<s>>) /\ <<s>> # <<>> /\ <<s>>[1] = s
      BY <2>3, <2>4, SoundOne
    <2>8. Sound(backend, r, Persist(x)) /\ Persist(x) # <<>> /\ Persist(x)[Len(Persist(x))] = ApplyEntry(x)
      BY <2>2, SoundPersist
    <2>9. QED
      BY <2>5, <2>6, <2>7, <2>8, SoundJoin
  <1>4. CASE r.op = "revoke_api_key"
    <2> DEFINE x == KeyRevoke(r.arg.key)
               o == Do("owns_key")
               s == Do("drop_key")
    <2>1. r.arg \in [key : Keys, label : Labels]
      BY <1>4 DEF Called, KeyOps
    <2>2. x \in Entries /\ Writes(r, x)
      BY <1>0, <1>4, <2>1 DEF KeyRevoke, Entries, Writes
    <2>3. s \in Steps /\ s.do = "drop_key" /\ o \in Steps /\ o.do = "owns_key"
      BY <1>0, StepForms DEF Plain
    <2>4. Fits(backend, r, s) /\ s.do \notin Opening /\ Fits(backend, r, o) /\ o.do \notin Opening
      BY <1>0, <1>4, <2>3 DEF Fits, Straight, LoginSteps, Cleanup, Opening
    <2>5. Follows(backend, r, ApplyEntry(x), s)
      BY <2>3 DEF Follows
    <2>6. UserHandler(r) = <<o>> \o Persist(x) \o <<s>>
      BY <1>4 DEF UserHandler, revoke_api_key
    <2> HIDE DEF x, o, s
    <2>7. Sound(backend, r, <<s>>) /\ <<s>> # <<>> /\ <<s>>[1] = s
      BY <2>3, <2>4, SoundOne
    <2>8. QED
      BY <2>2, <2>4, <2>5, <2>6, <2>7, SoundAround
  <1>5. CASE r.op = "rename_api_key"
    <2> DEFINE x == Relabel(r.arg.key, r.arg.label)
               o == Do("owns_key")
               s == Do("label")
               a == AppendEntry(x)
    <2>1. r.arg \in [key : Keys, label : Labels]
      BY <1>5 DEF Called, KeyOps
    <2>2. x \in Entries /\ Writes(r, x)
      BY <1>0, <1>5, <2>1 DEF Relabel, Entries, Writes
    <2>3. s \in Steps /\ s.do = "label" /\ o \in Steps /\ o.do = "owns_key"
      BY <1>0, StepForms DEF Plain
    <2>4. Fits(backend, r, s) /\ s.do \notin Opening /\ Fits(backend, r, o) /\ o.do \notin Opening
      BY <1>0, <1>5, <2>3 DEF Fits, Straight, LoginSteps, Cleanup, Opening
    <2>5. backend = "store" => a \in Steps /\ Fits(backend, r, a) /\ a.do \notin Opening
      BY <2>2 DEF Fits, Straight, AppendEntry, Steps, LoginSteps, Cleanup, Opening
    <2>6. backend # "store" => Follows(backend, r, ApplyEntry(x), s)
      BY <2>3 DEF Follows, ApplyEntry
    <2>7. backend = "store" => Follows(backend, r, a, s)
      BY <2>3 DEF Follows, AppendEntry
    <2>8. Follows(backend, r, o, a)
      BY DEF Follows, AppendEntry
    <2>9. UserHandler(r) = <<o>> \o (IF backend = "store" THEN <<a>> ELSE Persist(x)) \o <<s>>
      BY <1>5 DEF UserHandler, rename_api_key
    <2> HIDE DEF x, o, s, a
    <2>10. Sound(backend, r, <<s>>) /\ <<s>> # <<>> /\ <<s>>[1] = s
      BY <2>3, <2>4, SoundOne
    <2>11. CASE backend = "store"
      <3>1. /\ Sound(backend, r, <<o>>) /\ <<o>> \in Seq(Steps) /\ Len(<<o>>) = 1 /\ <<o>>[1] = o
            /\ Sound(backend, r, <<a>>) /\ <<a>> \in Seq(Steps) /\ Len(<<a>>) = 1 /\ <<a>>[1] = a
            /\ <<a>> # <<>>
        BY <2>3, <2>4, <2>5, <2>11, SoundOne
      <3>2. Sound(backend, r, <<o>> \o <<a>>)
        BY <2>8, <3>1, SoundJoin
      <3>3. (<<o>> \o <<a>>)[Len(<<o>> \o <<a>>)] = a
        BY <3>1, JoinEnds
      <3>4. Sound(backend, r, (<<o>> \o <<a>>) \o <<s>>)
        BY <2>7, <2>10, <2>11, <3>2, <3>3, SoundJoin
      <3>5. UserHandler(r) = (<<o>> \o <<a>>) \o <<s>>
        BY <2>9, <2>11
      <3>6. QED
        BY <3>4, <3>5
    <2>12. CASE backend # "store"
      <3>1. UserHandler(r) = <<o>> \o Persist(x) \o <<s>>
        BY <2>9, <2>12
      <3>2. QED
        BY <2>2, <2>4, <2>6, <2>10, <2>12, <3>1, SoundAround
    <2>13. QED
      BY <2>11, <2>12
  <1>6. CASE r.op = "create_share"
    <2> DEFINE w == NewShare(r.arg.share, r.user.email, r.arg.grantee, Home(r.user.email, r.arg.folder),
                             r.arg.permission)
               x == ShareEntry(w)
    <2>1. r.arg \in [share : Shares, grantee : Emails, folder : {Old, New}, permission : Permissions]
      BY <1>6 DEF Called
    <2>2. r.user.email \in STRING /\ r.arg.folder \in STRING
      BY <1>0, <2>1, AuthAssumption
    <2>3. Home(r.user.email, r.arg.folder) \in Seq(STRING)
      BY <2>2 DEF Home
    <2>4. w \in ShareRecords
      BY <1>0, <2>1, <2>3, AuthAssumption DEF NewShare, ShareRecords
    <2>5. x = [kind |-> "share", share |-> w]
      BY DEF ShareEntry
    <2>6. UserHandler(r) = Persist(x)
      BY <1>6 DEF UserHandler, create_share
    <2> HIDE DEF x, w
    <2>7. x \in Entries /\ Writes(r, x)
      BY <2>4, <2>5 DEF Entries, Writes
    <2>8. QED
      BY <2>6, <2>7, SoundPersist
  <1>7. CASE r.op = "revoke_share"
    <2> DEFINE o == On("owns_share", ShareRevoke(r.arg))
               s == On("revoke_share", ShareRevoke(r.arg))
    <2>1. r.arg \in Shares
      BY <1>7 DEF Called
    <2>2. Fits(backend, r, o) /\ Fits(backend, r, s)
      BY <1>0, <2>1, <1>7, StepForms DEF KeyOps
    <2>3. o.do \notin Opening /\ s.do \notin Opening
      BY DEF On, Opening
    <2>4. Follows(backend, r, o, s)
      BY DEF Follows, On
    <2>5. UserHandler(r) = <<o, s>>
      BY <1>7 DEF UserHandler, revoke_share
    <2> HIDE DEF o, s
    <2>6. QED
      BY <2>2, <2>3, <2>4, <2>5, SoundTwo
  <1>8. CASE r.op \in {"rename", "delete"}
    <2> DEFINE d == IF r.op = "rename" THEN "update_share_paths" ELSE "delete_shares_under"
               s == Do(d)
    <2>1. s \in Steps /\ s.do = d
      BY <1>0, StepForms DEF Plain
    <2>2. UserHandler(r) = <<s>>
      BY <1>8 DEF UserHandler
    <2> HIDE DEF s
    <2>3. Fits(backend, r, s) /\ s.do \notin Opening
      BY <1>0, <1>8, <2>1 DEF Fits, Straight, KeyOps, LoginSteps, Cleanup, Opening
    <2>4. QED
      BY <2>2, <2>3, SoundOne
  <1>9. QED
    BY <1>1, <1>2, <1>3, <1>4, <1>5, <1>6, <1>7, <1>8 DEF UserOps

LEMMA HandlerSound ==
  ASSUME NEW r, Called(r), Knows(r), r.op # "login"
  PROVE  Sound(backend, r, Handler(r).todo)
  <1>1. CASE r.op \in UserOps
    <2>1. Handler(r).todo = UserHandler(r)
      BY <1>1 DEF Handler, Serves
    <2>2. QED
      BY <1>1, <2>1, UserHandlerSound
  <1>2. CASE r.op = "kill_session"
    <2> DEFINE s == On("delete_session", About("none", r.arg))
    <2>1. Handler(r).todo = <<s>>
      BY <1>2 DEF Handler, Serves, UserOps
    <2>2. r.arg \in Sessions
      BY <1>2 DEF Called
    <2>3. Fits(backend, r, s)
      BY <1>2, <2>2, StepForms DEF AccountOps, KeyOps
    <2>4. s.do \notin Opening
      BY DEF On, Opening
    <2> HIDE DEF s
    <2>5. QED
      BY <2>1, <2>3, <2>4, SoundOne
  <1>3. CASE r.op \notin UserOps \union {"kill_session"}
    <2>1. Handler(r).todo = TopHandler(r)
      BY <1>3 DEF Handler, Serves
    <2>2. r.op \in Ops \ (UserOps \union {"login", "kill_session"})
      BY <1>3 DEF Called
    <2>3. QED
      BY <2>1, <2>2, TopHandlerSound
  <1>4. QED
    BY <1>1, <1>2, <1>3

\* The steps of a login, once it is let in.
LEMMA LoginSound ==
  ASSUME NEW r, Called(r), Knows(r), r.op = "login"
  PROVE  /\ Sound(backend, r, login_known(r.user.email, r.user.role))
         /\ login_known(r.user.email, r.user.role) # <<>>
  <1> DEFINE s1 == Do("cache_session")
             s2 == Do("record_user")
             s3 == Do("record_session")
             s4 == Do("seed")
             u == <<s1, s2, s3, s4>>
             x == About("top-admin", r.user.email)
             v == IF r.user.role = "top" THEN Persist(x) ELSE <<>>
  <1>1. /\ s1 \in Steps /\ s1.do = "cache_session" /\ s2 \in Steps /\ s2.do = "record_user"
        /\ s3 \in Steps /\ s3.do = "record_session" /\ s4 \in Steps /\ s4.do = "seed"
    BY DEF Do, Steps, Plain
  <1>2. login_known(r.user.email, r.user.role) = u \o v
    BY DEF login_known, set_top_admin
  <1> HIDE DEF s1, s2, s3, s4
  <1>3. \A s \in {s1, s2, s3, s4} : Fits(backend, r, s) /\ s.do \notin Opening
    BY <1>1 DEF Fits, AccountOps, KeyOps, LoginSteps, Cleanup, Opening
  <1>4. Follows(backend, r, s1, s2) /\ Follows(backend, r, s2, s3) /\ Follows(backend, r, s3, s4)
    BY <1>1 DEF Follows
  <1>5. /\ u \in Seq(Steps) /\ Len(u) = 4 /\ u # <<>>
        /\ u[1] = s1 /\ u[2] = s2 /\ u[3] = s3 /\ u[4] = s4
    BY <1>1
  <1> HIDE DEF u
  <1>6. \A i \in 1..4 : i = 1 \/ i = 2 \/ i = 3 \/ i = 4
    OBVIOUS
  <1>7. Sound(backend, r, u)
    BY <1>3, <1>4, <1>5, <1>6 DEF Sound
  <1>8. r.user.role = "top" => x \in Entries /\ Writes(r, x)
    BY DEF About, Entries, Writes, Knows, Users
  <1>9. Sound(backend, r, v) /\ (v # <<>> => Follows(backend, r, s4, v[1])) /\ v \in Seq(Steps)
    <2>1. CASE r.user.role = "top"
      <3> HIDE DEF x
      <3>1. QED
        BY <1>8, <2>1, SoundPersist
    <2>2. CASE r.user.role # "top"
      BY <2>2, SoundNone
    <2>3. QED
      BY <2>1, <2>2
  <1> HIDE DEF v
  <1>10. Sound(backend, r, u \o v) /\ u \o v # <<>>
    BY <1>5, <1>7, <1>9, SoundJoin, JoinEnds
  <1>11. QED
    BY <1>2, <1>10

(* Every step moves its request *)

LEMMA ServeMoves ==
  ASSUME RequestsInv, NEW p \in Slots, Busy(p), req[p].op # "login", Head(req[p].todo).do \in Opening,
         NEW user \in Users, Serve(p, user)
  PROVE  Moves(p)
  <1> DEFINE r == [req[p] EXCEPT !.user = user]
             h == Handler(r)
             q == [r EXCEPT !.todo = h.todo]
  <1>1. Called(req[p])
    BY DEF RequestsInv, InProgress
  <1>2. /\ r.op = req[p].op /\ r.cred = req[p].cred /\ r.arg = req[p].arg /\ r.user = user
        /\ r.cached = req[p].cached /\ r.alone = req[p].alone /\ r.todo = req[p].todo
        /\ r = [op |-> r.op, cred |-> r.cred, arg |-> r.arg, user |-> r.user, cached |-> r.cached,
                alone |-> r.alone, todo |-> r.todo]
    BY <1>1 DEF Called
  <1>3. \/ Goes(p, q)
        \/ Refuse(p)
    BY DEF Serve
  <1> HIDE DEF r
  <1>4. Called(r) /\ Knows(r)
    BY <1>1, <1>2 DEF Called, Knows
  <1>5. Sound(backend, r, h.todo)
    BY <1>2, <1>4, HandlerSound
  <1> HIDE DEF h
  <1>6. /\ q.todo = h.todo /\ q.op = r.op /\ q.arg = r.arg /\ q.user = r.user
        /\ q.cred = r.cred /\ q.cached = r.cached /\ q.alone = r.alone
        /\ q = [op |-> q.op, cred |-> q.cred, arg |-> q.arg, user |-> q.user, cached |-> q.cached,
                alone |-> q.alone, todo |-> q.todo]
    BY <1>4 DEF Called
  <1> HIDE DEF q
  <1>7. Called(q) /\ Knows(q)
    BY <1>4, <1>6 DEF Called, Knows
  <1>8. Sound(backend, q, q.todo)
    BY <1>5, <1>6, SoundOfSame
  <1>9. q.todo # <<>> => InProgress(backend, q)
    BY <1>7, <1>8, Continues
  <1>10. q.op = req[p].op /\ q.alone = req[p].alone
    BY <1>2, <1>6
  <1>11. QED
    BY <1>3, <1>9, <1>10, GoesMoves, RefuseMoves

\* A request that is still on its way in.
OnItsWay(q) ==
    \/ /\ q.op # "login"
       /\ q.todo = Identified
    \/ /\ q.op # "login"
       /\ q.todo = <<Do("confirm")>>
       /\ q.user \in Known
       /\ q.cached \/ q.cred \notin Sessions => q.user \in Users
    \/ q.op = "login" /\ q.todo = LoggingIn
    \/ q.op = "login" /\ q.todo = <<Do("login_role"), Do("is_active")>>
    \/ q.op = "login" /\ q.todo = <<Do("is_active")>> /\ Knows(q)

LEMMA OnItsWayInProgress ==
  ASSUME NEW b, NEW q, Called(q), OnItsWay(q)
  PROVE  InProgress(b, q)
  <1>1. \A d \in Opening : Do(d) \in Steps /\ Do(d).do = d
    BY DEF Opening, Do, Steps, Plain
  <1>2. \A d \in Opening : q.op = "login" <=> d \in {"allowed", "login_role", "is_active"} => Fits(b, q, Do(d))
    BY <1>1 DEF Opening, Fits, AccountOps, KeyOps, Straight, LoginSteps, Cleanup
  <1>3. \A s, d : d \in Opening => Follows(b, q, s, Do(d))
    BY <1>1 DEF Follows, Opening
  <1>4. CASE q.op # "login" /\ q.todo = Identified
    <2> DEFINE s1 == Do("lookup")
               s2 == Do("confirm")
    <2>1. /\ s1 \in Steps /\ s1.do = "lookup" /\ Fits(b, q, s1)
          /\ s2 \in Steps /\ s2.do = "confirm" /\ Fits(b, q, s2) /\ Follows(b, q, s1, s2)
      BY <1>1, <1>2, <1>3, <1>4 DEF Opening
    <2>2. q.todo = <<s1, s2>>
      BY <1>4 DEF Identified
    <2> HIDE DEF s1, s2
    <2>3. /\ q.todo \in Seq(Steps) /\ q.todo # <<>> /\ Len(q.todo) = 2
          /\ q.todo[1] = s1 /\ q.todo[2] = s2 /\ Head(q.todo) = s1
      BY <2>1, <2>2
    <2>4. \A i \in 1..2 : i = 1 \/ i = 2
      OBVIOUS
    <2>5. Entered(q, "lookup")
      BY <1>4, <2>1, <2>3, <2>4 DEF Entered, Opening
    <2>6. QED
      BY <2>1, <2>3, <2>4, <2>5 DEF InProgress
  <1>5. CASE q.op = "login" /\ q.todo = <<Do("login_role"), Do("is_active")>>
    <2> DEFINE s1 == Do("login_role")
               s2 == Do("is_active")
    <2>1. /\ s1 \in Steps /\ s1.do = "login_role" /\ Fits(b, q, s1)
          /\ s2 \in Steps /\ s2.do = "is_active" /\ Fits(b, q, s2) /\ Follows(b, q, s1, s2)
      BY <1>1, <1>2, <1>3, <1>5 DEF Opening
    <2>2. q.todo = <<s1, s2>>
      BY <1>5
    <2>3. Entered(q, "login_role")
      BY <1>5 DEF Entered, Opening
    <2> HIDE DEF s1, s2
    <2>4. /\ q.todo \in Seq(Steps) /\ q.todo # <<>> /\ Len(q.todo) = 2
          /\ q.todo[1] = s1 /\ q.todo[2] = s2 /\ Head(q.todo) = s1
      BY <2>1, <2>2
    <2>5. \A i \in 1..2 : i = 1 \/ i = 2
      OBVIOUS
    <2>6. QED
      BY <2>1, <2>3, <2>4, <2>5 DEF InProgress
  <1>6. CASE q.op = "login" /\ q.todo = LoggingIn
    <2> DEFINE s1 == Do("allowed")
               s2 == Do("login_role")
               s3 == Do("is_active")
    <2>1. /\ s1 \in Steps /\ s1.do = "allowed" /\ Fits(b, q, s1)
          /\ s2 \in Steps /\ s2.do = "login_role" /\ Fits(b, q, s2) /\ Follows(b, q, s1, s2)
          /\ s3 \in Steps /\ s3.do = "is_active" /\ Fits(b, q, s3) /\ Follows(b, q, s2, s3)
      BY <1>1, <1>2, <1>3, <1>6 DEF Opening
    <2>2. q.todo = <<s1, s2, s3>>
      BY <1>6 DEF LoggingIn
    <2>3. Entered(q, "allowed")
      BY <1>6 DEF Entered, Opening
    <2> HIDE DEF s1, s2, s3
    <2>4. /\ q.todo \in Seq(Steps) /\ q.todo # <<>> /\ Len(q.todo) = 3
          /\ q.todo[1] = s1 /\ q.todo[2] = s2 /\ q.todo[3] = s3 /\ Head(q.todo) = s1
      BY <2>1, <2>2
    <2>5. \A i \in 1..3 : i = 1 \/ i = 2 \/ i = 3
      OBVIOUS
    <2>6. QED
      BY <2>1, <2>3, <2>4, <2>5 DEF InProgress
  <1>7. ASSUME NEW d \in {"confirm", "is_active"}, q.todo = <<Do(d)>>,
               q.op = "login" <=> d = "is_active", Entered(q, d)
        PROVE  InProgress(b, q)
    <2> DEFINE s == Do(d)
    <2>1. s \in Steps /\ s.do = d /\ Fits(b, q, s)
      BY <1>1, <1>2, <1>7 DEF Opening
    <2>2. q.todo = <<s>>
      BY <1>7
    <2> HIDE DEF s
    <2>3. /\ q.todo \in Seq(Steps) /\ q.todo # <<>> /\ Len(q.todo) = 1
          /\ q.todo[1] = s /\ Head(q.todo) = s
      BY <2>1, <2>2
    <2>4. \A i \in 1..1 : i = 1
      OBVIOUS
    <2>5. QED
      BY <1>7, <2>1, <2>3, <2>4 DEF InProgress
  <1>8. CASE q.op # "login" /\ q.todo = <<Do("confirm")>> /\ q.user \in Known
             /\ (q.cached \/ q.cred \notin Sessions => q.user \in Users)
    <2>1. Entered(q, "confirm")
      BY <1>8 DEF Entered, Opening
    <2>2. QED
      BY <1>7, <1>8, <2>1
  <1>9. CASE q.op = "login" /\ q.todo = <<Do("is_active")>> /\ Knows(q)
    <2>1. Entered(q, "is_active")
      BY <1>9 DEF Entered, Opening, Knows
    <2>2. QED
      BY <1>7, <1>9, <2>1
  <1>10. QED
    BY <1>4, <1>5, <1>6, <1>8, <1>9 DEF OnItsWay

LEMMA NoUserFields ==
  /\ NoUser.email = Nobody /\ NoUser.role = "none" /\ NoUser.label = "none"
  /\ NoUser \notin Users /\ NoUser \notin Known
  /\ Users \subseteq Known
  /\ \A e \in Emails : [NoUser EXCEPT !.email = e] \in Known
  /\ \A e \in Emails, role \in Roles : [NoUser EXCEPT !.email = e, !.role = role] \in Users
  BY AuthAssumption DEF NoUser, Users, Known

LEMMA ResolvedRole ==
  ASSUME NEW t \in Tables, NEW e
  PROVE  resolve_role(t, e) \in Roles
  BY DEF resolve_role, Roles

LEMMA RowTyped ==
  ASSUME TypeOK, NEW k \in Keys, tables.keys[k] # Nobody
  PROVE  Row(k) \in Users
  <1>1. tables \in Tables
    BY DEF TypeOK
  <1>2. tables.keys[k] \in KeyRecords
    BY <1>1 DEF Tables
  <1>3. resolve_role(tables, tables.keys[k].email) \in Roles
    BY <1>1, ResolvedRole
  <1>4. QED
    BY <1>2, <1>3 DEF Row, KeyRecords, Users

\* A request with other steps, and another user.
With(r, todo, user, cached) ==
    [op |-> r.op, cred |-> r.cred, arg |-> r.arg, user |-> user, cached |-> cached,
     alone |-> r.alone, todo |-> todo]

LEMMA WithFields ==
  ASSUME NEW r, Called(r), NEW todo, NEW user, NEW cached \in BOOLEAN,
         NEW q, q = With(r, todo, user, cached)
  PROVE  /\ q.op = r.op /\ q.alone = r.alone /\ q.cred = r.cred /\ q.arg = r.arg
         /\ q.todo = todo /\ q.user = user /\ q.cached = cached
         /\ Called(q)
  <1>1. /\ q.op = r.op /\ q.alone = r.alone /\ q.cred = r.cred /\ q.arg = r.arg
        /\ q.todo = todo /\ q.user = user /\ q.cached = cached
        /\ q = [op |-> q.op, cred |-> q.cred, arg |-> q.arg, user |-> q.user, cached |-> q.cached,
                alone |-> q.alone, todo |-> q.todo]
    BY DEF With
  <1>2. QED
    BY <1>1 DEF Called

LEMMA ExceptWith ==
  ASSUME NEW r, Called(r), NEW todo, NEW user
  PROVE  /\ [r EXCEPT !.todo = todo] = With(r, todo, r.user, r.cached)
         /\ r.cached \in BOOLEAN
         /\ [[r EXCEPT !.todo = todo] EXCEPT !.user = user] = With(r, todo, user, r.cached)
  <1>1. r.cached \in BOOLEAN
    BY DEF Called
  <1>2. r = [op |-> r.op, cred |-> r.cred, arg |-> r.arg, user |-> r.user, cached |-> r.cached,
             alone |-> r.alone, todo |-> r.todo]
    BY DEF Called
  <1>3. [r EXCEPT !.todo = todo] = With(r, todo, r.user, r.cached)
    BY <1>2 DEF With
  <1> DEFINE w == [r EXCEPT !.todo = todo]
  <1>4. w = [op |-> r.op, cred |-> r.cred, arg |-> r.arg, user |-> r.user, cached |-> r.cached,
             alone |-> r.alone, todo |-> todo]
    BY <1>3 DEF With
  <1> HIDE DEF w
  <1>5. [w EXCEPT !.user = user] = With(r, todo, user, r.cached)
    BY <1>4 DEF With
  <1>6. QED
    BY <1>1, <1>3, <1>5 DEF w

LEMMA FoundWith ==
  ASSUME NEW r, Called(r), NEW todo, NEW user, NEW cached,
         NEW q, q = [[r EXCEPT !.todo = todo] EXCEPT !.user = user, !.cached = cached]
  PROVE  q = With(r, todo, user, cached)
  <1>1. r = [op |-> r.op, cred |-> r.cred, arg |-> r.arg, user |-> r.user, cached |-> r.cached,
             alone |-> r.alone, todo |-> r.todo]
    BY DEF Called
  <1> DEFINE w == [r EXCEPT !.todo = todo]
             z == With(r, todo, user, cached)
  <1>2. w = [op |-> r.op, cred |-> r.cred, arg |-> r.arg, user |-> r.user, cached |-> r.cached,
             alone |-> r.alone, todo |-> todo]
    BY <1>1
  <1> HIDE DEF w
  <1>3. q = [w EXCEPT !.user = user, !.cached = cached]
    BY DEF w
  <1>4. DOMAIN w = {"op", "cred", "arg", "user", "cached", "alone", "todo"}
    BY <1>2
  <1>5. q \in [DOMAIN w -> {q[f] : f \in DOMAIN w}] /\ DOMAIN q = DOMAIN w
    BY <1>3
  <1>6. DOMAIN z = DOMAIN w /\ z \in [DOMAIN w -> {z[f] : f \in DOMAIN w}]
    BY <1>4 DEF With
  <1>7. \A f \in DOMAIN w : q[f] = z[f]
    <2>1. \A f \in DOMAIN w : q[f] = IF f = "cached" THEN cached ELSE IF f = "user" THEN user ELSE w[f]
      BY <1>3
    <2>2. \A f \in DOMAIN w : z[f] = IF f = "cached" THEN cached ELSE IF f = "user" THEN user ELSE w[f]
      BY <1>2, <1>4 DEF With
    <2>3. QED
      BY <2>1, <2>2
  <1> HIDE DEF z
  <1>8. q = z
    BY <1>5, <1>6, <1>7
  <1>9. QED
    BY <1>8 DEF z

LEMMA NothingJoined ==
  ASSUME NEW S, NEW u \in Seq(S)
  PROVE  u \o <<>> = u /\ <<>> \o u = u
  BY ConcatEmptySeq

\* The steps at which a request still waits to be let in.
LEMMA OpeningMoves ==
  ASSUME TypeOK, RequestsInv, NEW p \in Slots,
         \/ Lookup(p) \/ ConfirmSession(p) \/ ConfirmKey(p)
         \/ Allowed(p) \/ LoginRole(p) \/ LoginActive(p)
  PROVE  Moves(p)
  <1> DEFINE r == req[p]
             d == Head(r.todo).do
  <1>1. Busy(p) /\ d \in Opening
    BY DEF Lookup, ConfirmSession, ConfirmKey, Allowed, LoginRole, LoginActive, At, Opening
  <1>2. InProgress(backend, r)
    BY <1>1 DEF RequestsInv
  <1>3. Called(r) /\ r.todo # <<>> /\ Fits(backend, r, Head(r.todo)) /\ Entered(r, d)
    BY <1>2, InProgressFields DEF InProgress
  <1>4. r.cached \in BOOLEAN
    BY <1>3 DEF Called
  <1>5. ASSUME NEW q, q.op = r.op, q.alone = r.alone, Called(q), OnItsWay(q), Goes(p, q)
        PROVE  Moves(p)
    <2>1. InProgress(backend, q)
      BY <1>5, OnItsWayInProgress
    <2>2. QED
      BY <1>1, <1>5, <2>1, GoesMoves
  <1>6. r.cred \in Sessions \/ (r.cred \in Keys /\ r.cred \notin Sessions)
    BY <1>3 DEF Called
  <1>7. /\ tables \in Tables
        /\ rows \in [Sessions -> Emails \union {Nobody}]
        /\ session_cache \in [Sessions -> Users \union {NoUser}]
        /\ api_key_cache \in [Keys -> Users \union {NoUser}]
    BY DEF TypeOK
  <1>8. CASE Lookup(p)
    <2>1. d = "lookup" /\ r.op # "login" /\ r.todo = Identified
      BY <1>3, <1>8 DEF Lookup, At, Fits, LoginSteps, Entered
    <2>2. Tail(r.todo) = <<Do("confirm")>>
      BY <2>1 DEF Identified
    <2>3. ASSUME NEW user \in Known, NEW cached \in BOOLEAN,
                 cached \/ r.cred \notin Sessions => user \in Users,
                 Goes(p, [Rest(p) EXCEPT !.user = user, !.cached = cached])
          PROVE  Moves(p)
      <3> DEFINE q == [Rest(p) EXCEPT !.user = user, !.cached = cached]
      <3>1. q = With(r, Tail(r.todo), user, cached)
        <4>1. q = [[r EXCEPT !.todo = Tail(r.todo)] EXCEPT !.user = user, !.cached = cached]
          BY DEF Rest
        <4> HIDE DEF q, r
        <4> DEFINE todo == Tail(r.todo)
        <4>2. q = [[r EXCEPT !.todo = todo] EXCEPT !.user = user, !.cached = cached]
          BY <4>1
        <4> HIDE DEF todo
        <4>3. q = With(r, todo, user, cached)
          BY <1>3, <4>2, FoundWith
        <4>4. QED
          BY <4>3 DEF todo
      <3> HIDE DEF q
      <3>2. /\ q.op = r.op /\ q.alone = r.alone /\ q.cred = r.cred /\ q.arg = r.arg
            /\ q.todo = Tail(r.todo) /\ q.user = user /\ q.cached = cached
            /\ Called(q)
        BY <1>3, <3>1, WithFields
      <3>3. OnItsWay(q)
        BY <2>1, <2>2, <2>3, <3>2 DEF OnItsWay
      <3>4. QED
        BY <1>5, <2>3, <3>2, <3>3 DEF q
    <2>4. TRUE \in BOOLEAN /\ FALSE \in BOOLEAN
      OBVIOUS
    <2>5. CASE r.cred \in Sessions
      <3>1. session_cache[r.cred] # NoUser => session_cache[r.cred] \in Users
        BY <1>7, <2>5
      <3>2. rows[r.cred] # Nobody => [NoUser EXCEPT !.email = rows[r.cred]] \in Known
        BY <1>7, <2>5, NoUserFields
      <3>3. \/ /\ session_cache[r.cred] # NoUser
               /\ Goes(p, [Rest(p) EXCEPT !.user = session_cache[r.cred], !.cached = TRUE])
            \/ /\ rows[r.cred] # Nobody
               /\ Goes(p, [Rest(p) EXCEPT !.user = [NoUser EXCEPT !.email = rows[r.cred]], !.cached = FALSE])
            \/ Refuse(p)
        BY <1>8, <2>5 DEF Lookup
      <3>4. CASE session_cache[r.cred] # NoUser
               /\ Goes(p, [Rest(p) EXCEPT !.user = session_cache[r.cred], !.cached = TRUE])
        BY <2>3, <2>4, <3>1, <3>4, NoUserFields
      <3>5. CASE rows[r.cred] # Nobody
               /\ Goes(p, [Rest(p) EXCEPT !.user = [NoUser EXCEPT !.email = rows[r.cred]], !.cached = FALSE])
        BY <2>3, <2>4, <2>5, <3>2, <3>5
      <3>6. QED
        BY <3>3, <3>4, <3>5, RefuseMoves
    <2>6. CASE r.cred \in Keys /\ r.cred \notin Sessions
      <3>1. api_key_cache[r.cred] # NoUser => api_key_cache[r.cred] \in Users
        BY <1>7, <2>6
      <3>2. Usable(r.cred) => Row(r.cred) \in Users
        BY <2>6, RowTyped DEF Usable
      <3>3. \/ /\ api_key_cache[r.cred] # NoUser
               /\ Goes(p, [Rest(p) EXCEPT !.user = api_key_cache[r.cred], !.cached = TRUE])
            \/ /\ Usable(r.cred)
               /\ Goes(p, [Rest(p) EXCEPT !.user = Row(r.cred), !.cached = FALSE])
            \/ Refuse(p)
        BY <1>8, <2>6 DEF Lookup
      <3>4. CASE api_key_cache[r.cred] # NoUser
               /\ Goes(p, [Rest(p) EXCEPT !.user = api_key_cache[r.cred], !.cached = TRUE])
        BY <2>3, <2>4, <3>1, <3>4, NoUserFields
      <3>5. CASE Usable(r.cred) /\ Goes(p, [Rest(p) EXCEPT !.user = Row(r.cred), !.cached = FALSE])
        BY <2>3, <2>4, <3>2, <3>5, NoUserFields
      <3>6. QED
        BY <3>3, <3>4, <3>5, RefuseMoves
    <2>7. QED
      BY <1>6, <2>5, <2>6
  <1>9. CASE ConfirmSession(p)
    <2>1. d = "confirm" /\ r.op # "login" /\ r.cred \in Sessions /\ r.user \in Known
          /\ (r.cached => r.user \in Users)
      BY <1>3, <1>9 DEF ConfirmSession, At, Fits, LoginSteps, Entered
    <2> DEFINE fresh == IF r.cached THEN r.user
                        ELSE [NoUser EXCEPT !.email = r.user.email, !.role = resolve_role(tables, r.user.email)]
    <2>2. r.user.email \in Emails /\ resolve_role(tables, r.user.email) \in Roles
      BY <1>7, <2>1, ResolvedRole DEF Known
    <2>3. fresh \in Users
      BY <2>1, <2>2, NoUserFields
    <2>4. Serve(p, fresh) \/ Refuse(p)
      BY <1>9 DEF ConfirmSession, Who
    <2> HIDE DEF fresh
    <2>5. QED
      BY <1>1, <2>1, <2>3, <2>4, ServeMoves, RefuseMoves
  <1>10. CASE ConfirmKey(p)
    <2>1. d = "confirm" /\ r.op # "login" /\ r.cred \in Keys
      BY <1>3, <1>10 DEF ConfirmKey, At, Fits, LoginSteps
    <2>2. r.user \in Users
      BY <1>3, <2>1, AuthAssumption DEF Entered
    <2>3. Serve(p, r.user) \/ Refuse(p)
      BY <1>10 DEF ConfirmKey
    <2>4. QED
      BY <1>1, <2>1, <2>2, <2>3, ServeMoves, RefuseMoves
  <1>11. CASE Allowed(p)
    <2>1. d = "allowed" /\ r.op = "login" /\ r.todo = LoggingIn
      BY <1>3, <1>11 DEF Allowed, At, Fits, LoginSteps, Entered
    <2>2. <<>> \o Tail(r.todo) = <<Do("login_role"), Do("is_active")>>
      BY <2>1 DEF LoggingIn
    <2> DEFINE q == [r EXCEPT !.todo = <<>> \o Tail(r.todo)]
    <2>3. Goes(p, q) \/ Refuse(p)
      BY <1>11 DEF Allowed, Pass, Advance, Then
    <2>4. q.op = r.op /\ q.alone = r.alone /\ q.todo = <<>> \o Tail(r.todo) /\ Called(q)
      <3>1. q = With(r, <<>> \o Tail(r.todo), r.user, r.cached)
        BY <1>3, ExceptWith
      <3> HIDE DEF q
      <3>2. QED
        BY <1>3, <1>4, <3>1, WithFields
    <2> HIDE DEF q
    <2>5. OnItsWay(q)
      BY <2>1, <2>2, <2>4 DEF OnItsWay
    <2>6. QED
      BY <1>5, <2>3, <2>4, <2>5, RefuseMoves
  <1>12. CASE LoginRole(p)
    <2>1. d = "login_role" /\ r.op = "login" /\ r.todo = <<Do("login_role"), Do("is_active")>>
      BY <1>3, <1>12 DEF LoginRole, At, Fits, LoginSteps, Entered
    <2>2. Tail(r.todo) = <<Do("is_active")>>
      BY <2>1
    <2> DEFINE user == [NoUser EXCEPT !.email = r.arg, !.role = login_role(r.arg)]
               q == [Rest(p) EXCEPT !.user = user]
    <2>3. Goes(p, q)
      BY <1>12 DEF LoginRole
    <2>4. r.arg \in Emails
      BY <1>3, <2>1 DEF Called
    <2>5. login_role(r.arg) \in Roles
      <3>1. resolve_role(tables, r.arg) \in Roles
        BY <1>7, ResolvedRole
      <3>2. QED
        BY <3>1 DEF login_role, Roles
    <2>6. user \in Users /\ user.email = r.arg
      BY <2>4, <2>5, NoUserFields DEF NoUser
    <2>7. q = [[r EXCEPT !.todo = Tail(r.todo)] EXCEPT !.user = user]
      BY DEF Rest
    <2> HIDE DEF user
    <2> HIDE DEF q
    <2>8. q.op = r.op /\ q.alone = r.alone /\ q.todo = Tail(r.todo) /\ q.arg = r.arg /\ q.user = user /\ Called(q)
      <3>1. q = With(r, Tail(r.todo), user, r.cached)
        BY <1>3, <2>7, ExceptWith
      <3>2. QED
        BY <1>3, <1>4, <3>1, WithFields
    <2>9. OnItsWay(q)
      BY <2>1, <2>2, <2>6, <2>8 DEF OnItsWay, Knows
    <2>10. QED
      BY <1>5, <2>3, <2>8, <2>9
  <1>13. CASE LoginActive(p)
    <2>1. d = "is_active" /\ r.op = "login" /\ r.todo = <<Do("is_active")>> /\ Knows(r)
      BY <1>3, <1>13 DEF LoginActive, At, Fits, LoginSteps, Entered, Knows
    <2> DEFINE steps == login_known(r.user.email, r.user.role)
               q == [r EXCEPT !.todo = steps \o Tail(r.todo)]
    <2>2. Goes(p, q) \/ Refuse(p)
      BY <1>13 DEF LoginActive, Then, Who
    <2>3. Sound(backend, r, steps) /\ steps # <<>>
      BY <1>3, <2>1, LoginSound
    <2> HIDE DEF steps
    <2>4. Tail(r.todo) = <<>> /\ steps \in Seq(Steps)
      BY <2>1, <2>3 DEF Sound
    <2>5. steps \o Tail(r.todo) = steps
      BY <2>4, NothingJoined
    <2>6. /\ q.todo = steps \o Tail(r.todo) /\ q.op = r.op /\ q.arg = r.arg /\ q.user = r.user
          /\ q.cred = r.cred /\ q.alone = r.alone /\ Called(q)
      <3>1. q = With(r, steps \o Tail(r.todo), r.user, r.cached)
        BY <1>3, ExceptWith
      <3> HIDE DEF q
      <3> DEFINE todo == steps \o Tail(r.todo)
                 user == r.user
                 cached == r.cached
      <3>2. q = With(r, todo, user, cached) /\ cached \in BOOLEAN
        BY <1>4, <3>1
      <3> HIDE DEF todo, user, cached
      <3>3. /\ q.op = r.op /\ q.alone = r.alone /\ q.cred = r.cred /\ q.arg = r.arg
            /\ q.todo = todo /\ q.user = user /\ Called(q)
        BY <1>3, <3>2, WithFields
      <3>4. QED
        BY <3>3 DEF todo, user
    <2> HIDE DEF q
    <2>7. Sound(backend, q, q.todo) /\ q.todo # <<>>
      BY <2>3, <2>5, <2>6, SoundOfSame
    <2>8. Knows(q)
      BY <2>1, <2>6 DEF Knows
    <2>9. InProgress(backend, q)
      BY <2>6, <2>7, <2>8, Continues
    <2>10. QED
      BY <1>1, <2>2, <2>6, <2>9, GoesMoves, RefuseMoves
  <1>14. QED
    BY <1>8, <1>9, <1>10, <1>11, <1>12, <1>13

\* What follows a step that is followed by such steps may follow these.
LEMMA FollowsOn ==
  ASSUME NEW b, NEW r, NEW s, NEW t, NEW last, Follows(b, r, s, t),
         \/ /\ s.do \in {"revoke_share", "update_share_paths", "delete_shares_under", "delete_session"}
            /\ last.do \in {"append", "revoke_share", "delete_row"}
         \/ s.do = "record_user" /\ last.do = "apply" /\ last.x.kind = "user"
  PROVE  Follows(b, r, last, t)
  <1>1. s.do \notin Cleanup \union {"apply", "append", "clear"}
    BY DEF Cleanup
  <1>2. t.do \notin Cleanup \union {"cache_key", "drop_key", "label", "reset_db"}
    BY <1>1 DEF Follows, Cleanup, ApplyEntry
  <1>3. t.do = "apply" => b = "pg"
    BY <1>1 DEF Follows, AppendEntry
  <1>4. t.do = "record_session" => last.do = "apply" /\ last.x.kind = "user"
    BY <1>1 DEF Follows
  <1>5. QED
    BY <1>2, <1>3, <1>4 DEF Follows, Cleanup

\* A request that has been served.
LEMMA Served ==
  ASSUME RequestsInv, NEW p \in Slots, Busy(p), Head(req[p].todo).do \notin Opening
  PROVE  /\ InProgress(backend, req[p]) /\ Called(req[p]) /\ Knows(req[p])
         /\ Fits(backend, req[p], Head(req[p].todo)) /\ Head(req[p].todo) \in Steps
         /\ req[p].todo \in Seq(Steps) /\ req[p].todo # <<>>
         /\ Tail(req[p].todo) # <<>> => Follows(backend, req[p], Head(req[p].todo), req[p].todo[2])
  <1> DEFINE r == req[p]
  <1>1. InProgress(backend, r)
    BY DEF RequestsInv
  <1>2. /\ Called(r) /\ Knows(r) /\ Fits(backend, r, Head(r.todo)) /\ Head(r.todo) \in Steps
        /\ r.todo \in Seq(Steps) /\ r.todo # <<>>
    BY <1>1, InProgressFields DEF Opening
  <1>3. Tail(r.todo) # <<>> => 2 \in 1..Len(r.todo) /\ Head(r.todo) = r.todo[1]
    BY <1>2
  <1>4. Tail(r.todo) # <<>> => Follows(backend, r, Head(r.todo), r.todo[2])
    BY <1>1, <1>3 DEF InProgress
  <1>5. QED
    BY <1>1, <1>2, <1>4

\* Steps that follow one another in any order.
LEMMA SoundLogged ==
  ASSUME NEW r, NEW n \in Nat, NEW s, s \in [1..n -> Steps],
         \A i \in 1..n : Fits(backend, r, s[i]) /\ s[i].do \in {"append", "revoke_share"}
  PROVE  Sound(backend, r, s) /\ s \in Seq(Steps) /\ (s # <<>> => s[Len(s)].do \in {"append", "revoke_share"})
  <1>1. s \in Seq(Steps) /\ Len(s) = n /\ (s # <<>> => n \in 1..n)
    OBVIOUS
  <1>2. \A i \in 1..n : s[i].do \notin Opening
    BY DEF Opening
  <1>3. \A t, u : u.do \in {"append", "revoke_share"} => Follows(backend, r, t, u)
    BY DEF Follows
  <1>4. QED
    BY <1>1, <1>2, <1>3 DEF Sound

LEMMA LoggedSteps ==
  ASSUME NEW r, NEW n \in Nat, NEW x, x \in [1..n -> Entries],
         \A i \in 1..n : x[i].kind \in {"share-revoke", "share-path-update"}
  PROVE  LET s == Logged(x)
         IN  Sound(backend, r, s) /\ s \in Seq(Steps) /\ (s # <<>> => s[Len(s)].do \in {"append", "revoke_share"})
  <1>1. CASE backend = "pg"
    <2>1. Logged(x) = <<>>
      BY <1>1 DEF Logged
    <2>2. <<>> \in Seq(Steps)
      OBVIOUS
    <2>3. QED
      BY <2>1, <2>2, SoundNone
  <1>2. CASE backend # "pg"
    <2> DEFINE s == Logged(x)
    <2>1. s = [i \in 1..n |-> AppendEntry(x[i])]
      BY <1>2 DEF Logged
    <2> HIDE DEF s
    <2>2. ASSUME NEW i \in 1..n
          PROVE  s[i] \in Steps /\ s[i].do = "append" /\ Fits(backend, r, s[i])
      <3>1. s[i] = [do |-> "append", x |-> x[i]] /\ x[i] \in Entries
        BY <2>1 DEF AppendEntry
      <3>2. s[i] \in Steps
        BY <3>1 DEF Steps
      <3>3. Writes(r, x[i])
        BY DEF Writes
      <3>4. QED
        BY <1>2, <3>1, <3>2, <3>3 DEF Fits, Straight, LoginSteps, Cleanup
    <2>3. s \in [1..n -> Steps]
      BY <2>1, <2>2
    <2>4. QED
      BY <2>2, <2>3, SoundLogged DEF s
  <1>3. QED
    BY <1>1, <1>2

LEMMA RevokeSteps ==
  ASSUME NEW r, r.op = "delete", NEW n \in Nat, NEW id, id \in [1..n -> Shares]
  PROVE  LET s == [i \in 1..n |-> On("revoke_share", ShareRevoke(id[i]))]
         IN  Sound(backend, r, s) /\ s \in Seq(Steps) /\ (s # <<>> => s[Len(s)].do \in {"append", "revoke_share"})
  <1> DEFINE s == [i \in 1..n |-> On("revoke_share", ShareRevoke(id[i]))]
  <1>1. \A i \in 1..n : Fits(backend, r, On("revoke_share", ShareRevoke(id[i])))
    BY StepForms DEF AccountOps, KeyOps
  <1>2. \A i \in 1..n : s[i] = On("revoke_share", ShareRevoke(id[i]))
    OBVIOUS
  <1>3. s = [i \in 1..n |-> s[i]]
    OBVIOUS
  <1> HIDE DEF s
  <1>4. \A i \in 1..n : Fits(backend, r, s[i]) /\ s[i].do = "revoke_share"
    <2>1. \A i \in 1..n : Fits(backend, r, s[i])
      BY <1>1, <1>2
    <2>2. \A x : On("revoke_share", x).do = "revoke_share"
      BY DEF On
    <2>3. QED
      BY <1>2, <2>1, <2>2
  <1>5. s \in [1..n -> Steps]
    BY <1>3, <1>4 DEF Fits
  <1>6. QED
    BY <1>4, <1>5, SoundLogged DEF s

\* The shares that are hit, in order.
LEMMA HitShares ==
  ASSUME NEW t \in Tables, NEW chosen
  PROVE  LET hit == Only(t.shares, chosen)
         IN  Len(hit) \in Nat /\ DOMAIN hit = 1..Len(hit) /\ \A i \in 1..Len(hit) : hit[i] \in ShareRecords
  <1>1. t.shares \in Seq(ShareRecords)
    BY DEF Tables
  <1>2. Only(t.shares, chosen) \in Seq(ShareRecords)
    BY <1>1, OnlyPicks
  <1>3. QED
    BY <1>2

LEMMA MovedPath ==
  ASSUME NEW path \in Seq(STRING), NEW from \in Seq(STRING), NEW to \in Seq(STRING)
  PROVE  Moved(path, from, to) \in Seq(STRING)
  <1>1. /\ Len(from) + 1 \in Int /\ Len(path) \in Int /\ Len(from) + 1 >= 1
        /\ \A i \in 1..Len(path) : path[i] \in STRING
    OBVIOUS
  <1>2. \A i \in (Len(from) + 1)..Len(path) : path[i] \in STRING
    BY <1>1
  <1>3. SubSeq(path, Len(from) + 1, Len(path)) \in Seq(STRING)
    BY <1>1, <1>2, SubSeqProperties
  <1>4. to \o SubSeq(path, Len(from) + 1, Len(path)) \in Seq(STRING)
    BY <1>3
  <1>5. QED
    BY <1>4 DEF Moved

LEMMA PairOf ==
  ASSUME NEW S, NEW a \in S, NEW b \in S
  PROVE  <<a, b>> \in Seq(S) /\ Len(<<a, b>>) = 2 /\ <<a, b>>[1] = a
  OBVIOUS

LEMMA HomePath ==
  ASSUME NEW e \in Emails, NEW folder \in {Old, New}
  PROVE  Home(e, folder) \in Seq(STRING) /\ Home(e, folder)[1] = e /\ Len(Home(e, folder)) = 2
  <1> DEFINE names == STRING
  <1>1. e \in names /\ folder \in names
    BY AuthAssumption
  <1>2. Home(e, folder) = <<e, folder>>
    BY DEF Home
  <1> HIDE DEF names
  <1>3. <<e, folder>> \in Seq(names) /\ Len(<<e, folder>>) = 2 /\ <<e, folder>>[1] = e
    BY <1>1, PairOf
  <1>4. QED
    BY <1>2, <1>3 DEF names

ServedStep(p) ==
    \/ CacheSession(p) \/ RecordUser(p) \/ RecordSession(p) \/ Seed(p)
    \/ AppendStep(p) \/ ApplyStep(p) \/ Exists(p) \/ OwnsKey(p) \/ OwnsShare(p)
    \/ revoke_share_by_id(p) \/ update_share_paths(p) \/ delete_shares_under(p)
    \/ drop_sessions(p) \/ delete_rows(p) \/ drop_keys(p)
    \/ delete_session(p) \/ delete_row(p) \/ CacheKey(p) \/ DropKey(p) \/ Label(p)
    \/ RemoveTree(p) \/ factory_reset_state(p) \/ factory_reset(p)

LEMMA ServedMoves ==
  ASSUME TypeOK, RequestsInv, NEW p \in Slots, ServedStep(p)
  PROVE  Moves(p)
  <1> DEFINE r == req[p]
             s == Head(r.todo)
             next == r.todo[2]
  <1>1. Busy(p) /\ s.do \notin Opening
    BY DEF ServedStep, CacheSession, RecordUser, RecordSession, Seed, AppendStep, ApplyStep, Exists,
           OwnsKey, OwnsShare, revoke_share_by_id, update_share_paths, delete_shares_under,
           drop_sessions, delete_rows, drop_keys, delete_session, delete_row, CacheKey, DropKey, Label,
           RemoveTree, factory_reset_state, factory_reset, At, Opening
  <1>2. /\ InProgress(backend, r) /\ Called(r) /\ Knows(r) /\ Fits(backend, r, s) /\ s \in Steps
        /\ r.todo \in Seq(Steps) /\ r.todo # <<>>
        /\ Tail(r.todo) # <<>> => Follows(backend, r, s, next)
    BY <1>1, Served
  <1>3. ASSUME NEW steps, Then(p, steps), Sound(backend, r, steps),
               steps # <<>> /\ Tail(r.todo) # <<>> => Follows(backend, r, steps[Len(steps)], next)
        PROVE  Moves(p)
    BY <1>1, <1>3, ThenMoves
  <1>4. Advance(p) => Moves(p)
    BY <1>1, AdvanceMoves
  <1>5. Refuse(p) => Moves(p)
    BY RefuseMoves
  <1>6. \A holds : Pass(p, holds) => Advance(p) \/ Refuse(p)
    BY DEF Pass
  <1>7. ASSUME NEW steps, Then(p, steps), Sound(backend, r, steps),
               steps # <<>> => steps[Len(steps)].do \in {"append", "revoke_share", "delete_row"},
               s.do \in {"revoke_share", "update_share_paths", "delete_shares_under", "delete_session"}
        PROVE  Moves(p)
    <2>1. steps # <<>> /\ Tail(r.todo) # <<>> => Follows(backend, r, steps[Len(steps)], next)
      BY <1>2, <1>7, FollowsOn
    <2>2. QED
      BY <1>3, <1>7, <2>1
  <1>8. tables \in Tables
    BY DEF TypeOK
  <1>9. CASE \/ CacheSession(p) \/ RecordSession(p) \/ Seed(p)
             \/ AppendStep(p) \/ ApplyStep(p)
             \/ drop_sessions(p) \/ delete_rows(p) \/ drop_keys(p)
             \/ delete_row(p) \/ CacheKey(p) \/ DropKey(p) \/ Label(p)
             \/ RemoveTree(p) \/ factory_reset_state(p) \/ factory_reset(p)
    <2>1. Advance(p) \/ Refuse(p)
      BY <1>9 DEF CacheSession, RecordSession, Seed, AppendStep, ApplyStep,
           drop_sessions, delete_rows, drop_keys, delete_row, CacheKey, DropKey, Label,
           RemoveTree, factory_reset_state, factory_reset
    <2>2. QED
      BY <1>4, <1>5, <2>1
  <1>10. CASE Exists(p) \/ OwnsKey(p) \/ OwnsShare(p)
    BY <1>4, <1>5, <1>6, <1>10 DEF Exists, OwnsKey, OwnsShare
  <1>11. CASE RecordUser(p)
    <2>1. s.do = "record_user"
      BY <1>11 DEF RecordUser, At
    <2> DEFINE x == UserEntry(r.user.email, tables.users[r.user.email] # "inactive")
    <2>2. Then(p, Persist(x))
      BY <1>11 DEF RecordUser, Who
    <2>3. r.op = "login" /\ r.user.email \in Emails
      BY <1>2, <2>1 DEF Fits, LoginSteps, Knows, Users
    <2>4. (tables.users[r.user.email] # "inactive") \in BOOLEAN
      OBVIOUS
    <2>5. x \in Entries /\ x.kind = "user" /\ x.email = r.user.email
      BY <2>3, <2>4 DEF UserEntry, Entries
    <2> HIDE DEF x
    <2>6. Writes(r, x)
      BY <2>3, <2>5 DEF Writes
    <2>7. Sound(backend, r, Persist(x)) /\ Persist(x)[Len(Persist(x))] = ApplyEntry(x)
      BY <2>5, <2>6, SoundPersist
    <2>8. Tail(r.todo) # <<>> => Follows(backend, r, ApplyEntry(x), next)
      <3>1. ApplyEntry(x).do = "apply" /\ ApplyEntry(x).x.kind = "user"
        BY <2>5 DEF ApplyEntry
      <3>2. QED
        BY <1>2, <2>1, <3>1, FollowsOn
    <2>9. QED
      BY <1>3, <2>2, <2>7, <2>8
  <1>12. CASE revoke_share_by_id(p)
    <2>1. s.do = "revoke_share" /\ (Then(p, Logged(<<s.x>>)) \/ Then(p, <<>>))
      BY <1>12 DEF revoke_share_by_id, At, Arg
    <2>2. s.x \in [kind : {"share-revoke"}, id : Shares]
      BY <1>2, <2>1 DEF Steps, Cleanup, Plain
    <2>3. s.x \in Entries /\ s.x.kind = "share-revoke"
      BY <2>2 DEF Entries
    <2> DEFINE x == <<s.x>>
    <2>4. x \in [1..1 -> Entries] /\ x[1] = s.x /\ \A i \in 1..1 : i = 1
      BY <2>3
    <2> HIDE DEF x
    <2>5. /\ Sound(backend, r, Logged(x))
          /\ Logged(x) # <<>> => Logged(x)[Len(Logged(x))].do \in {"append", "revoke_share"}
      BY <2>3, <2>4, LoggedSteps
    <2>6. CASE Then(p, Logged(x))
      BY <1>7, <2>1, <2>5, <2>6
    <2>7. CASE Then(p, <<>>)
      BY <1>7, <2>1, <2>7, SoundNone
    <2>8. QED
      BY <2>1, <2>6, <2>7 DEF x
  <1>13. CASE update_share_paths(p)
    <2> DEFINE from == Home(r.user.email, Old)
               to == Home(r.user.email, New)
               hit == Only(tables.shares, {w \in ToSet(tables.shares) : Under(w.path, from)})
               updates == [i \in DOMAIN hit |-> PathUpdate(hit[i].id, Moved(hit[i].path, from, to))]
    <2>1. s.do = "update_share_paths" /\ Then(p, Logged(updates))
      BY <1>13 DEF update_share_paths, At, Who
    <2>2. from \in Seq(STRING) /\ to \in Seq(STRING)
      BY <1>2, HomePath DEF Knows, Users
    <2>3. Len(hit) \in Nat /\ DOMAIN hit = 1..Len(hit) /\ \A i \in 1..Len(hit) : hit[i] \in ShareRecords
      BY <1>8, HitShares
    <2> HIDE DEF hit, from, to
    <2>4. ASSUME NEW i \in 1..Len(hit)
          PROVE  PathUpdate(hit[i].id, Moved(hit[i].path, from, to)) \in Entries
      <3>1. hit[i].id \in Shares /\ hit[i].path \in Seq(STRING)
        BY <2>3 DEF ShareRecords
      <3>2. Moved(hit[i].path, from, to) \in Seq(STRING)
        BY <2>2, <3>1, MovedPath
      <3>3. QED
        BY <3>1, <3>2 DEF PathUpdate, Entries
    <2>5. updates \in [1..Len(hit) -> Entries] /\ \A i \in 1..Len(hit) : updates[i].kind = "share-path-update"
      BY <2>3, <2>4 DEF PathUpdate
    <2> HIDE DEF updates
    <2>6. /\ Sound(backend, r, Logged(updates))
          /\ Logged(updates) # <<>> => Logged(updates)[Len(Logged(updates))].do \in {"append", "revoke_share"}
      BY <2>3, <2>5, LoggedSteps
    <2>7. QED
      BY <1>7, <2>1, <2>6
  <1>14. CASE delete_shares_under(p)
    <2> DEFINE hit == Only(tables.shares, {w \in ToSet(tables.shares) : Under(w.path, r.arg)})
               ids == [i \in DOMAIN hit |-> ShareRevoke(hit[i].id)]
               steps == [i \in DOMAIN ids |-> On("revoke_share", ids[i])]
    <2>1. s.do = "delete_shares_under" /\ (Then(p, Logged(ids)) \/ Then(p, steps))
      BY <1>14 DEF delete_shares_under, At
    <2>2. Len(hit) \in Nat /\ DOMAIN hit = 1..Len(hit) /\ \A i \in 1..Len(hit) : hit[i] \in ShareRecords
      BY <1>8, HitShares
    <2> HIDE DEF hit
    <2>3. \A i \in 1..Len(hit) : hit[i].id \in Shares
      BY <2>2 DEF ShareRecords
    <2>4. ids \in [1..Len(hit) -> Entries] /\ \A i \in 1..Len(hit) : ids[i].kind = "share-revoke"
      BY <2>2, <2>3 DEF ShareRevoke, Entries
    <2> DEFINE id == [i \in 1..Len(hit) |-> hit[i].id]
    <2>5. id \in [1..Len(hit) -> Shares] /\ \A i \in 1..Len(hit) : id[i] = hit[i].id
      BY <2>3
    <2>6. steps = [i \in 1..Len(hit) |-> On("revoke_share", ShareRevoke(id[i]))]
      BY <2>2
    <2> HIDE DEF ids, id, steps
    <2>7. r.op = "delete"
      BY <1>2, <2>1 DEF Fits
    <2>8. /\ Sound(backend, r, Logged(ids))
          /\ Logged(ids) # <<>> => Logged(ids)[Len(Logged(ids))].do \in {"append", "revoke_share"}
      BY <2>2, <2>4, LoggedSteps
    <2>9. /\ Sound(backend, r, steps)
          /\ steps # <<>> => steps[Len(steps)].do \in {"append", "revoke_share"}
      BY <2>2, <2>5, <2>6, <2>7, RevokeSteps
    <2>10. QED
      BY <1>7, <2>1, <2>8, <2>9
  <1>15. CASE delete_session(p)
    <2> DEFINE t == On("delete_row", s.x)
    <2>1. s.do = "delete_session" /\ (Then(p, <<>>) \/ Then(p, <<t>>))
      BY <1>15 DEF delete_session, At, Arg
    <2>2. s.x \in [kind : {"none"}, email : Sessions]
      BY <1>2, <2>1 DEF Steps, Cleanup, Plain
    <2>3. r.op # "login" /\ r.op \notin AccountOps \union KeyOps
      BY <1>2, <2>1 DEF Fits, LoginSteps, Straight, Cleanup
    <2>4. t = On("delete_row", About("none", s.x.email)) /\ s.x.email \in Sessions
      BY <2>2 DEF About
    <2> HIDE DEF t
    <2>5. Fits(backend, r, t) /\ t.do = "delete_row"
      <3>1. Fits(backend, r, t)
        BY <2>3, <2>4, StepForms
      <3>2. t.do = "delete_row"
        BY <2>4 DEF On
      <3>3. QED
        BY <3>1, <3>2
    <2>6. Sound(backend, r, <<t>>) /\ <<t>>[Len(<<t>>)] = t
      <3>1. t \in Steps /\ t.do \notin Opening
        BY <2>5 DEF Fits, Opening
      <3>2. QED
        BY <2>5, <3>1, SoundOne
    <2>7. CASE Then(p, <<t>>)
      BY <1>7, <2>1, <2>5, <2>6, <2>7
    <2>8. CASE Then(p, <<>>)
      BY <1>7, <2>1, <2>8, SoundNone
    <2>9. QED
      BY <2>1, <2>7, <2>8 DEF t
  <1>16. QED
    BY <1>9, <1>10, <1>11, <1>12, <1>13, <1>14, <1>15 DEF ServedStep

-----------------------------------------------------------------------------
(* Requests stay in progress *)

LEMMA StepMoves ==
  ASSUME TypeOK, RequestsInv, NEW p \in Slots, Step(p)
  PROVE  Moves(p)
  <1>1. \/ Lookup(p) \/ ConfirmSession(p) \/ ConfirmKey(p)
        \/ Allowed(p) \/ LoginRole(p) \/ LoginActive(p)
        \/ ServedStep(p)
    BY DEF Step, ServedStep
  <1>2. QED
    BY <1>1, OpeningMoves, ServedMoves

\* What a step leaves alone.
LEMMA StepKeeps ==
  ASSUME NEW p \in Slots, Step(p)
  PROVE  Busy(p) /\ UNCHANGED <<backend, issued, begun, crashes, met>>
         /\ since' = [q \in Slots |-> IF req'[q] = Nothing THEN {} ELSE since[q] \intersect barred']
  <1>1. CASE \/ Lookup(p) \/ ConfirmSession(p) \/ ConfirmKey(p)
             \/ Allowed(p) \/ LoginRole(p) \/ LoginActive(p)
    BY <1>1 DEF Lookup, ConfirmSession, ConfirmKey, Allowed, LoginRole, LoginActive, At, store, Step
  <1>2. CASE \/ CacheSession(p) \/ RecordUser(p) \/ RecordSession(p) \/ Seed(p)
             \/ AppendStep(p) \/ ApplyStep(p) \/ Exists(p) \/ OwnsKey(p) \/ OwnsShare(p)
    BY <1>2 DEF CacheSession, RecordUser, RecordSession, Seed, AppendStep, ApplyStep, Exists,
           OwnsKey, OwnsShare, At, store, Step
  <1>3. CASE \/ revoke_share_by_id(p) \/ update_share_paths(p) \/ delete_shares_under(p)
             \/ drop_sessions(p) \/ delete_rows(p) \/ drop_keys(p)
    BY <1>3 DEF revoke_share_by_id, update_share_paths, delete_shares_under,
           drop_sessions, delete_rows, drop_keys, At, store, Step
  <1>4. CASE \/ delete_session(p) \/ delete_row(p) \/ CacheKey(p) \/ DropKey(p) \/ Label(p)
             \/ RemoveTree(p) \/ factory_reset_state(p) \/ factory_reset(p)
    BY <1>4 DEF delete_session, delete_row, CacheKey, DropKey, Label,
           RemoveTree, factory_reset_state, factory_reset, At, store, Step
  <1>5. QED
    BY <1>1, <1>2, <1>3, <1>4 DEF Step

LEMMA MovesKeepsRequests ==
  ASSUME RequestsInv, NEW p \in Slots, Busy(p), Moves(p), UNCHANGED <<backend, met>>
  PROVE  RequestsInv'
  <1>1. PICK r : /\ req' = [req EXCEPT ![p] = r]
                 /\ \/ r = Nothing
                    \/ InProgress(backend, r) /\ r.op = req[p].op /\ r.alone = req[p].alone
    BY DEF Moves
  <1>2. DOMAIN req = Slots
    BY DEF RequestsInv
  <1>3. DOMAIN req' = Slots /\ \A q \in Slots : req'[q] = IF q = p THEN r ELSE req[q]
    BY <1>1, <1>2
  <1>4. \A q \in Slots : Busy(q)' => /\ Busy(q) /\ req'[q].op = req[q].op /\ req'[q].alone = req[q].alone
                                     /\ InProgress(backend, req'[q])
    BY <1>1, <1>3 DEF Busy, Idle, RequestsInv
  <1>5. \A q, w \in Slots : q # w /\ Busy(q) /\ Busy(w) =>
          {req[q].op, req[w].op} \in met /\ ~req[q].alone
    BY DEF RequestsInv
  <1>6. \A q, w \in Slots : q # w /\ Busy(q)' /\ Busy(w)' =>
          {req'[q].op, req'[w].op} \in met /\ ~req'[q].alone
    BY <1>4, <1>5
  <1>7. backend' = backend /\ met' = met
    OBVIOUS
  <1>8. \A q \in Slots : Busy(q)' => InProgress(backend', req'[q])
    BY <1>4, <1>7
  <1> HIDE DEF Busy
  <1>9. QED
    BY <1>3, <1>6, <1>7, <1>8 DEF RequestsInv

LEMMA StepKeepsRequests ==
  ASSUME TypeOK, RequestsInv, NEW p \in Slots, Step(p)
  PROVE  RequestsInv'
  BY StepMoves, StepKeeps, MovesKeepsRequests

\* What may be asked fits what is asked for.
LEMMA AskedFits ==
  ASSUME TypeOK, NEW a \in Asked
  PROVE  /\ a.op \in Ops /\ a.op # "login"
         /\ a.op \in AccountOps => a.arg \in Emails
         /\ a.op \in PolicyOps => a.arg \in SeedDomains
         /\ a.op = "kill_session" => a.arg \in Sessions
         /\ a.op \in KeyOps => a.arg \in [key : Keys, label : Labels]
         /\ a.op = "revoke_share" => a.arg \in Shares
         /\ a.op = "create_share" => a.arg \in [share : Shares, grantee : Emails, folder : {Old, New},
                                                 permission : Permissions]
         /\ a.op = "delete" => a.arg \in Seq(STRING)
         /\ a.op = "create_api_key" => a.arg.key \notin issued
  <1> USE DEF Ops, AccountOps, PolicyOps, KeyOps, UserOps
  <1>1. \A S : Fresh(S) \subseteq S \ issued
    BY DEF Fresh
  <1>2. CASE a.op \in {"me", "logout", "rename", "factory_reset"}
    BY <1>2
  <1>3. CASE a \in [op : AccountOps, arg : Emails]
    BY <1>3
  <1>4. CASE a \in [op : PolicyOps, arg : SeedDomains]
    BY <1>4
  <1>5. CASE a \in [op : {"kill_session"}, arg : issued \intersect Sessions]
    BY <1>5
  <1>6. CASE a \in [op : {"create_api_key"}, arg : [key : Fresh(Keys), label : Labels]]
    BY <1>1, <1>6
  <1>7. CASE a \in [op : {"revoke_api_key", "rename_api_key"}, arg : [key : issued \intersect Keys, label : Labels]]
    BY <1>7
  <1>8. CASE a \in [op : {"revoke_share"}, arg : issued \intersect Shares]
    BY <1>8
  <1>9. CASE a \in [op : {"create_share"}, arg : [share : Fresh(Shares), grantee : Emails,
                                                  folder : {Old, New}, permission : Permissions]]
    BY <1>1, <1>9
  <1>10. CASE a \in [op : {"delete"}, arg : {Home(e, f) : e \in Emails, f \in {Old, New}}]
    BY <1>10, HomePath
  <1>11. QED
    BY <1>2, <1>3, <1>4, <1>5, <1>6, <1>7, <1>8, <1>9, <1>10 DEF Asked

\* A request is asked with what it needs.
Asks(op, cred, arg, todo) ==
    /\ cred \in Sessions \union Keys
    /\ \/ op = "login" /\ cred \in Sessions /\ arg \in Emails /\ todo = LoggingIn
       \/ todo = Identified /\ \E a \in Asked : op = a.op /\ arg = a.arg

LEMMA RequestCalled ==
  ASSUME TypeOK, NEW op, NEW cred, NEW arg, NEW todo, Asks(op, cred, arg, todo),
         NEW r, r = Request(op, cred, arg, todo)
  PROVE  Called(r) /\ OnItsWay(r) /\ r.op = op /\ r.todo = todo /\ r.arg = arg /\ r.user = NoUser
  <1>1. /\ r.op = op /\ r.cred = cred /\ r.arg = arg /\ r.todo = todo /\ r.user = NoUser
        /\ r = [op |-> r.op, cred |-> r.cred, arg |-> r.arg, user |-> r.user, cached |-> r.cached,
                alone |-> r.alone, todo |-> r.todo]
    BY DEF Request
  <1>2. r.cached \in BOOLEAN /\ r.alone \in BOOLEAN
    BY DEF Request
  <1>3. CASE op = "login" /\ cred \in Sessions /\ arg \in Emails /\ todo = LoggingIn
    <2>1. OnItsWay(r)
      BY <1>1, <1>3 DEF OnItsWay
    <2>2. Called(r)
      BY <1>1, <1>2, <1>3 DEF Called, Ops, UserOps, AccountOps, PolicyOps, KeyOps
    <2>3. QED
      BY <1>1, <2>1, <2>2
  <1>4. ASSUME todo = Identified, NEW a \in Asked, op = a.op, arg = a.arg
        PROVE  Called(r) /\ OnItsWay(r)
    <2>1. /\ a.op \in Ops /\ a.op # "login"
          /\ a.op \in AccountOps => a.arg \in Emails
          /\ a.op \in PolicyOps => a.arg \in SeedDomains
          /\ a.op = "kill_session" => a.arg \in Sessions
          /\ a.op \in KeyOps => a.arg \in [key : Keys, label : Labels]
          /\ a.op = "revoke_share" => a.arg \in Shares
          /\ a.op = "create_share" => a.arg \in [share : Shares, grantee : Emails, folder : {Old, New},
                                                  permission : Permissions]
          /\ a.op = "delete" => a.arg \in Seq(STRING)
      BY AskedFits
    <2>2. OnItsWay(r)
      BY <1>1, <1>4, <2>1 DEF OnItsWay
    <2>3. cred \in Sessions \union Keys
      BY DEF Asks
    <2>4. Called(r)
      BY <1>1, <1>2, <1>4, <2>1, <2>3 DEF Called
    <2>5. QED
      BY <2>2, <2>4
  <1>5. QED
    BY <1>1, <1>3, <1>4 DEF Asks

LEMMA AloneFields ==
  ASSUME NEW r, Called(r), NEW a \in BOOLEAN, NEW q, q = [r EXCEPT !.alone = a]
  PROVE  /\ q.op = r.op /\ q.cred = r.cred /\ q.arg = r.arg /\ q.user = r.user /\ q.cached = r.cached
         /\ q.alone = a /\ q.todo = r.todo
         /\ Called(q)
  <1>1. r = [op |-> r.op, cred |-> r.cred, arg |-> r.arg, user |-> r.user, cached |-> r.cached,
             alone |-> r.alone, todo |-> r.todo]
    BY DEF Called
  <1>2. q = [op |-> r.op, cred |-> r.cred, arg |-> r.arg, user |-> r.user, cached |-> r.cached,
             alone |-> a, todo |-> r.todo]
    BY <1>1
  <1>3. /\ q.op = r.op /\ q.cred = r.cred /\ q.arg = r.arg /\ q.user = r.user /\ q.cached = r.cached
        /\ q.alone = a /\ q.todo = r.todo
        /\ q = [op |-> q.op, cred |-> q.cred, arg |-> q.arg, user |-> q.user, cached |-> q.cached,
                alone |-> q.alone, todo |-> q.todo]
    BY <1>2
  <1>4. q.alone \in BOOLEAN
    BY <1>3
  <1>5. QED
    BY <1>3, <1>4 DEF Called

\* Being alone or not changes nothing else.
LEMMA AloneInProgress ==
  ASSUME NEW b, NEW r, InProgress(b, r), NEW a \in BOOLEAN, NEW q, q = [r EXCEPT !.alone = a]
  PROVE  InProgress(b, q) /\ q.op = r.op /\ q.alone = a /\ q.todo = r.todo
  <1>1. Called(r)
    BY DEF InProgress
  <1>2. /\ q.op = r.op /\ q.cred = r.cred /\ q.arg = r.arg /\ q.user = r.user /\ q.cached = r.cached
        /\ q.alone = a /\ q.todo = r.todo
        /\ Called(q)
    BY <1>1, AloneFields
  <1>3. \A s : Fits(b, r, s) => Fits(b, q, s)
    BY <1>2 DEF Fits, Writes
  <1>4. \A s, t : Follows(b, r, s, t) => Follows(b, q, s, t)
    BY <1>2 DEF Follows
  <1>5. Entered(r, Head(r.todo).do) => Entered(q, Head(r.todo).do)
    BY <1>2 DEF Entered
  <1>6. InProgress(b, q)
    BY <1>2, <1>3, <1>4, <1>5 DEF InProgress
  <1>7. QED
    BY <1>2, <1>6

LEMMA BeginAsks ==
  ASSUME TypeOK, NEW p \in Slots, Begin(p)
  PROVE  \E op, cred, arg, todo : Asks(op, cred, arg, todo) /\ Enters(p, Request(op, cred, arg, todo))
  <1>1. PICK r \in Requests : Enters(p, r)
    BY DEF Begin
  <1>2. \/ r \in {Request("login", s, e, LoggingIn) : s \in Fresh(Sessions), e \in Emails}
        \/ r \in {Request(a.op, c, a.arg, Identified) : a \in Asked, c \in issued \ Shares}
    BY <1>1 DEF Requests
  <1>3. Fresh(Sessions) \subseteq Sessions /\ issued \ Shares \subseteq Sessions \union Keys
    BY DEF Fresh, TypeOK
  <1>4. CASE r \in {Request("login", s, e, LoggingIn) : s \in Fresh(Sessions), e \in Emails}
    <2>1. PICK s \in Fresh(Sessions), e \in Emails : r = Request("login", s, e, LoggingIn)
      BY <1>4
    <2>2. Asks("login", s, e, LoggingIn)
      BY <1>3 DEF Asks
    <2>3. QED
      BY <1>1, <2>1, <2>2
  <1>5. CASE r \in {Request(a.op, c, a.arg, Identified) : a \in Asked, c \in issued \ Shares}
    <2>1. PICK a \in Asked, c \in issued \ Shares : r = Request(a.op, c, a.arg, Identified)
      BY <1>5
    <2>2. Asks(a.op, c, a.arg, Identified)
      BY <1>3 DEF Asks
    <2>3. QED
      BY <1>1, <2>1, <2>2
  <1>6. QED
    BY <1>2, <1>4, <1>5

LEMMA BeginKeepsRequests ==
  ASSUME TypeOK, RequestsInv, NEW p \in Slots, Begin(p)
  PROVE  RequestsInv'
  <1>1. PICK op, cred, arg, todo : Asks(op, cred, arg, todo) /\ Enters(p, Request(op, cred, arg, todo))
    BY BeginAsks
  <1> DEFINE r == Request(op, cred, arg, todo)
             a == AllIdle
             no == FALSE
             new == [r EXCEPT !.alone = a]
             old(q) == [req[q] EXCEPT !.alone = no]
  <1>2. /\ req' = [q \in Slots |-> IF q = p THEN new ELSE IF Busy(q) THEN old(q) ELSE Nothing]
        /\ met' = met \union {{r.op, req[q].op} : q \in {q \in Slots : Busy(q)}}
    BY <1>1 DEF Enters
  <1>3. a \in BOOLEAN /\ no \in BOOLEAN /\ ~no
    BY DEF AllIdle, Idle
  <1>4. Called(r) /\ OnItsWay(r)
    BY <1>1, RequestCalled
  <1>5. InProgress(backend, r)
    BY <1>4, OnItsWayInProgress
  <1>6. (a <=> AllIdle)
    OBVIOUS
  <1> HIDE DEF a, no, r
  <1>7. InProgress(backend, new) /\ new.op = r.op /\ new.alone = a
    BY <1>3, <1>5, AloneInProgress
  <1>8. ASSUME NEW q \in Slots, Busy(q)
        PROVE  InProgress(backend, old(q)) /\ old(q).op = req[q].op /\ old(q).alone = no
    <2>1. InProgress(backend, req[q])
      BY <1>8 DEF RequestsInv
    <2>2. QED
      BY <1>3, <2>1, AloneInProgress
  <1>9. /\ DOMAIN req' = Slots
        /\ \A q \in Slots : req'[q] = IF q = p THEN new ELSE IF Busy(q) THEN old(q) ELSE Nothing
    BY <1>2
  <1> HIDE DEF old, new
  <1>10. \A q \in Slots : Busy(q)' => q = p \/ Busy(q)
    BY <1>9 DEF Busy, Idle
  <1>11. \A q \in Slots : Busy(q)' => InProgress(backend', req'[q])
    <2>1. backend' = backend
      BY DEF Begin, store
    <2>2. QED
      BY <1>7, <1>8, <1>9, <1>10, <2>1
  <1>12. new.op = r.op /\ ~Busy(p)
    BY <1>7 DEF Begin, Busy
  <1>13. \A q, w \in Slots : q # w /\ Busy(q)' /\ Busy(w)' =>
            {req'[q].op, req'[w].op} \in met' /\ ~req'[q].alone
    <2> SUFFICES ASSUME NEW q \in Slots, NEW w \in Slots, q # w, Busy(q)', Busy(w)'
                 PROVE  {req'[q].op, req'[w].op} \in met' /\ ~req'[q].alone
      OBVIOUS
    <2>1. CASE q # p /\ w # p
      <3>1. Busy(q) /\ Busy(w) /\ {req[q].op, req[w].op} \in met
        BY <1>10, <2>1 DEF RequestsInv
      <3>2. req'[q].op = req[q].op /\ req'[w].op = req[w].op /\ ~req'[q].alone
        BY <1>3, <1>8, <1>9, <2>1, <3>1
      <3>3. QED
        BY <1>2, <3>1, <3>2
    <2>2. CASE q = p
      <3>1. Busy(w) /\ w # p
        BY <1>10, <2>2
      <3>2. req'[q].op = r.op /\ req'[w].op = req[w].op
        BY <1>3, <1>8, <1>9, <1>12, <2>2, <3>1
      <3>3. {r.op, req[w].op} \in met'
        BY <1>2, <3>1
      <3>4. ~AllIdle
        BY <3>1 DEF AllIdle, Busy
      <3>5. req'[q].alone = a /\ ~a
        BY <1>6, <1>7, <1>9, <2>2, <3>4
      <3>6. QED
        BY <3>2, <3>3, <3>4, <3>5
    <2>3. CASE w = p
      <3>1. Busy(q) /\ q # p
        BY <1>10, <2>3
      <3>2. req'[w].op = r.op /\ req'[q].op = req[q].op /\ ~req'[q].alone
        BY <1>3, <1>8, <1>9, <1>12, <2>3, <3>1
      <3>3. {r.op, req[q].op} \in met'
        BY <1>2, <3>1
      <3>4. {req[q].op, r.op} = {r.op, req[q].op}
        OBVIOUS
      <3>5. QED
        BY <3>2, <3>3, <3>4
    <2>4. QED
      BY <2>1, <2>2, <2>3
  <1> HIDE DEF Busy
  <1>14. QED
    BY <1>9, <1>11, <1>13 DEF RequestsInv

LEMMA RequestsStay ==
  ASSUME TypeOK, RequestsInv, [Next]_vars
  PROVE  RequestsInv'
  <1>1. ASSUME NEW p \in Slots, Begin(p)
        PROVE  RequestsInv'
    BY <1>1, BeginKeepsRequests
  <1>2. ASSUME NEW p \in Slots, Step(p)
        PROVE  RequestsInv'
    BY <1>2, StepKeepsRequests
  <1>3. ASSUME UNCHANGED <<backend, req, met>>
        PROVE  RequestsInv'
    BY <1>3 DEF RequestsInv, Busy, Idle
  <1>4. CASE Restart
    <2>1. req' = [p \in Slots |-> Nothing]
      BY <1>4 DEF Restart
    <2>2. QED
      BY <2>1 DEF RequestsInv, Busy, Idle
  <1>5. QED
    BY <1>1, <1>2, <1>3, <1>4 DEF Next, vars, Expire

-----------------------------------------------------------------------------
(* Types *)

\* A step of a served request is one of those its operation takes.
LEMMA AtServed ==
  ASSUME RequestsInv, NEW p \in Slots, NEW d, At(p, d), d \notin Opening
  PROVE  /\ Head(req[p].todo).do = d /\ Busy(p)
         /\ InProgress(backend, req[p]) /\ Called(req[p]) /\ Knows(req[p])
         /\ Fits(backend, req[p], Head(req[p].todo)) /\ Head(req[p].todo) \in Steps
         /\ Who(p) \in Emails
  <1>1. Head(req[p].todo).do = d /\ Busy(p)
    BY DEF At
  <1>2. /\ InProgress(backend, req[p]) /\ Called(req[p]) /\ Knows(req[p])
        /\ Fits(backend, req[p], Head(req[p].todo)) /\ Head(req[p].todo) \in Steps
    BY <1>1, Served
  <1>3. Who(p) \in Emails
    BY <1>2 DEF Who, Knows, Users
  <1>4. QED
    BY <1>1, <1>2, <1>3

LEMMA EntryArg ==
  ASSUME RequestsInv, NEW p \in Slots, At(p, "append") \/ At(p, "apply")
  PROVE  Arg(p) \in Entries /\ Writes(req[p], Arg(p)) /\ (At(p, "append") => backend # "pg")
  <1>1. PICK d \in {"append", "apply"} : At(p, d)
    OBVIOUS
  <1>2. d \notin Opening
    BY DEF Opening
  <1>3. /\ Head(req[p].todo).do = d /\ Fits(backend, req[p], Head(req[p].todo))
        /\ Head(req[p].todo) \in Steps
    BY <1>1, <1>2, AtServed
  <1>4. Head(req[p].todo).x \in Entries
    BY <1>3 DEF Steps, Plain, Cleanup
  <1>5. Writes(req[p], Head(req[p].todo).x) /\ (d = "append" => backend # "pg")
    BY <1>3 DEF Fits
  <1>6. QED
    BY <1>3, <1>4, <1>5 DEF Arg, At

\* The tables of a step.
LEMMA StepTables ==
  ASSUME TypeOK, RequestsInv, NEW p \in Slots, Step(p)
  PROVE  tables' \in Tables
  <1>1. tables \in Tables
    BY DEF TypeOK
  <1>2. CASE UNCHANGED tables
    BY <1>1, <1>2
  <1>3. CASE ApplyStep(p)
    <2>1. Arg(p) \in Entries
      BY <1>3, EntryArg DEF ApplyStep
    <2>2. QED
      BY <1>1, <1>3, <2>1, ChangedTyped DEF ApplyStep
  <1>4. CASE revoke_share_by_id(p)
    <2> DEFINE kept == Retain(tables, LAMBDA s : s.id = Arg(p).id)
    <2>1. tables' = kept
      BY <1>4 DEF revoke_share_by_id
    <2>2. kept \in Tables
      BY <1>1, RetainTyped DEF Retain
    <2>3. QED
      BY <2>1, <2>2
  <1>5. CASE delete_shares_under(p)
    <2> DEFINE kept == Retain(tables, LAMBDA s : Under(s.path, req[p].arg))
    <2>1. tables' = kept \/ tables' = tables
      BY <1>5 DEF delete_shares_under
    <2>2. kept \in Tables
      BY <1>1, RetainTyped DEF Retain
    <2>3. QED
      BY <1>1, <2>1, <2>2
  <1>6. CASE update_share_paths(p)
    <2> DEFINE from == Home(Who(p), Old)
               to == Home(Who(p), New)
               moved == Relocated(tables.shares, from, to)
    <2>1. tables' = [tables EXCEPT !.shares = moved]
      BY <1>6 DEF update_share_paths
    <2>2. from \in Seq(STRING) /\ to \in Seq(STRING)
      <3>1. Who(p) \in Emails
        BY <1>6, AtServed DEF update_share_paths, Opening
      <3>2. QED
        BY <3>1, HomePath
    <2> DEFINE sh == tables.shares
    <2>3. sh \in Seq(ShareRecords) /\ Len(sh) \in Nat /\ DOMAIN sh = 1..Len(sh)
      BY <1>1 DEF Tables
    <2>. moved = [i \in DOMAIN sh |-> [sh[i] EXCEPT !.path = Moved(@, from, to)]]
      BY DEF Relocated
    <2> HIDE DEF from, to, sh, moved
    <2>4. ASSUME NEW i \in 1..Len(sh)
          PROVE  [sh[i] EXCEPT !.path = Moved(@, from, to)] \in ShareRecords
      <3>1. sh[i] \in ShareRecords
        BY <2>3
      <3>2. Moved(sh[i].path, from, to) \in Seq(STRING)
        BY <2>2, <3>1, MovedPath DEF ShareRecords
      <3>3. QED
        BY <3>1, <3>2 DEF ShareRecords
    <2>5. moved \in [1..Len(sh) -> ShareRecords]
      BY <2>3, <2>4
    <2>6. moved \in Seq(ShareRecords)
      BY <2>3, <2>5
    <2>7. QED
      BY <1>1, <2>1, <2>6 DEF Tables
  <1>7. CASE Label(p)
    <2> DEFINE k == req[p].arg.key
               label == req[p].arg.label
    <2>1. \/ tables' = tables
          \/ tables.keys[k] # Nobody /\ tables' = [tables EXCEPT !.keys[k].label = label]
      BY <1>7 DEF Label
    <2>2. k \in Keys /\ label \in Labels
      <3>1. Called(req[p]) /\ Fits(backend, req[p], Head(req[p].todo)) /\ Head(req[p].todo).do = "label"
        BY <1>7, AtServed DEF Label, Opening
      <3>2. req[p].arg \in [key : Keys, label : Labels]
        BY <3>1 DEF Fits, Called, KeyOps
      <3>3. QED
        BY <3>2
    <2> HIDE DEF k, label
    <2>3. tables.keys[k] # Nobody => [tables.keys[k] EXCEPT !.label = label] \in KeyRecords
      BY <1>1, <2>2 DEF Tables, KeyRecords
    <2>4. QED
      BY <1>1, <2>1, <2>2, <2>3 DEF Tables
  <1>8. CASE factory_reset_state(p) \/ factory_reset(p)
    <2>1. tables' = tables \/ tables' = KeptPolicy
      BY <1>8 DEF factory_reset_state, factory_reset
    <2>2. KeptPolicy \in Tables
      BY <1>1, EmptyTyped DEF KeptPolicy, Tables
    <2>3. QED
      BY <1>1, <2>1, <2>2
  <1>9. QED
    <2>1. CASE \/ Lookup(p) \/ ConfirmSession(p) \/ ConfirmKey(p)
               \/ Allowed(p) \/ LoginRole(p) \/ LoginActive(p) \/ CacheSession(p)
               \/ RecordUser(p) \/ RecordSession(p) \/ Seed(p)
               \/ AppendStep(p) \/ Exists(p) \/ OwnsKey(p) \/ OwnsShare(p)
      BY <1>2, <2>1 DEF Lookup, ConfirmSession, ConfirmKey, Allowed, LoginRole, LoginActive, CacheSession,
           RecordUser, RecordSession, Seed, AppendStep, Exists, OwnsKey, OwnsShare, store
    <2>2. CASE \/ drop_sessions(p) \/ delete_rows(p) \/ drop_keys(p)
               \/ delete_session(p) \/ delete_row(p) \/ CacheKey(p) \/ DropKey(p) \/ RemoveTree(p)
      BY <1>2, <2>2 DEF drop_sessions, delete_rows, drop_keys,
           delete_session, delete_row, CacheKey, DropKey, RemoveTree, store
    <2>3. QED
      BY <1>3, <1>4, <1>5, <1>6, <1>7, <1>8, <2>1, <2>2 DEF Step

\* Its log.
LEMMA StepLog ==
  ASSUME TypeOK, RequestsInv, NEW p \in Slots, Step(p)
  PROVE  log' \in Seq(Entries) /\ (backend = "pg" => log' = <<>>)
  <1>1. tables \in Tables /\ log \in Seq(Entries) /\ (backend = "pg" => log = <<>>)
    BY DEF TypeOK
  <1>2. CASE UNCHANGED log
    BY <1>1, <1>2
  <1>3. CASE AppendStep(p)
    <2>1. Arg(p) \in Entries /\ backend # "pg"
      BY <1>3, EntryArg DEF AppendStep
    <2>2. QED
      BY <1>1, <1>3, <2>1 DEF AppendStep
  <1>4. CASE RemoveTree(p)
    <2>1. log' = log \/ log' = <<>>
      BY <1>4 DEF RemoveTree
    <2>2. <<>> \in Seq(Entries)
      OBVIOUS
    <2>3. QED
      BY <1>1, <2>1, <2>2
  <1>5. CASE factory_reset(p)
    <2>1. log' = log \/ (backend = "jsonl" /\ log' = PolicyEntries(tables))
      BY <1>5 DEF factory_reset
    <2>2. QED
      BY <1>1, <2>1, KeptTyped DEF OnlyPolicy
  <1>6. QED
    <2>1. CASE \/ Lookup(p) \/ ConfirmSession(p) \/ ConfirmKey(p)
               \/ Allowed(p) \/ LoginRole(p) \/ LoginActive(p) \/ CacheSession(p)
               \/ RecordUser(p) \/ RecordSession(p) \/ Seed(p)
               \/ ApplyStep(p) \/ Exists(p) \/ OwnsKey(p) \/ OwnsShare(p)
      BY <1>2, <2>1 DEF Lookup, ConfirmSession, ConfirmKey, Allowed, LoginRole, LoginActive, CacheSession,
           RecordUser, RecordSession, Seed, ApplyStep, Exists, OwnsKey, OwnsShare, store
    <2>2. CASE \/ revoke_share_by_id(p) \/ update_share_paths(p) \/ delete_shares_under(p)
               \/ drop_sessions(p) \/ delete_rows(p) \/ drop_keys(p)
               \/ delete_session(p) \/ delete_row(p) \/ CacheKey(p) \/ DropKey(p) \/ Label(p)
               \/ factory_reset_state(p)
      BY <1>2, <2>2 DEF revoke_share_by_id, update_share_paths, delete_shares_under, drop_sessions,
           delete_rows, drop_keys, delete_session, delete_row, CacheKey, DropKey, Label,
           factory_reset_state, store
    <2>3. QED
      BY <1>3, <1>4, <1>5, <2>1, <2>2 DEF Step

\* Its session rows and its two caches.
LEMMA StepRows ==
  ASSUME TypeOK, RequestsInv, NEW p \in Slots, Step(p)
  PROVE  rows' \in [Sessions -> Emails \union {Nobody}]
  <1>1. rows \in [Sessions -> Emails \union {Nobody}]
    BY DEF TypeOK
  <1>2. CASE UNCHANGED rows
    BY <1>1, <1>2
  <1>3. CASE RecordSession(p)
    <2>1. Who(p) \in Emails
      BY <1>3, AtServed DEF RecordSession, Opening
    <2>2. rows' = rows \/ rows' = [rows EXCEPT ![req[p].cred] = Who(p)]
      BY <1>3 DEF RecordSession
    <2>3. QED
      BY <1>1, <2>1, <2>2
  <1>4. CASE delete_row(p)
    BY <1>1, <1>4 DEF delete_row
  <1>5. CASE ApplyStep(p) \/ delete_rows(p) \/ factory_reset(p)
    <2>1. \/ rows' = rows
          \/ rows' = [s \in Sessions |-> Nobody]
          \/ \E e : rows' = [s \in Sessions |-> IF rows[s] = e THEN Nobody ELSE rows[s]]
      BY <1>5 DEF ApplyStep, delete_rows, factory_reset
    <2>2. QED
      BY <1>1, <2>1
  <1>6. QED
    <2>1. CASE \/ Lookup(p) \/ ConfirmSession(p) \/ ConfirmKey(p)
               \/ Allowed(p) \/ LoginRole(p) \/ LoginActive(p) \/ CacheSession(p)
               \/ RecordUser(p) \/ Seed(p)
               \/ AppendStep(p) \/ Exists(p) \/ OwnsKey(p) \/ OwnsShare(p)
      BY <1>2, <2>1 DEF Lookup, ConfirmSession, ConfirmKey, Allowed, LoginRole, LoginActive, CacheSession,
           RecordUser, Seed, AppendStep, Exists, OwnsKey, OwnsShare, store
    <2>2. CASE \/ revoke_share_by_id(p) \/ update_share_paths(p) \/ delete_shares_under(p)
               \/ drop_sessions(p) \/ drop_keys(p)
               \/ delete_session(p) \/ CacheKey(p) \/ DropKey(p) \/ Label(p)
               \/ RemoveTree(p) \/ factory_reset_state(p)
      BY <1>2, <2>2 DEF revoke_share_by_id, update_share_paths, delete_shares_under, drop_sessions,
           drop_keys, delete_session, CacheKey, DropKey, Label, RemoveTree, factory_reset_state, store
    <2>3. QED
      BY <1>3, <1>4, <1>5, <2>1, <2>2 DEF Step

LEMMA StepSessions ==
  ASSUME TypeOK, RequestsInv, NEW p \in Slots, Step(p)
  PROVE  session_cache' \in [Sessions -> Users \union {NoUser}]
  <1>1. session_cache \in [Sessions -> Users \union {NoUser}]
    BY DEF TypeOK
  <1>2. CASE UNCHANGED session_cache
    BY <1>1, <1>2
  <1>3. CASE CacheSession(p)
    <2>1. req[p].user \in Users
      BY <1>3, AtServed DEF CacheSession, Opening, Knows
    <2>2. QED
      BY <1>1, <1>3, <2>1 DEF CacheSession
  <1>4. CASE ConfirmSession(p)
    <2>1. \/ session_cache' = session_cache
          \/ session_cache' = [session_cache EXCEPT ![req[p].cred] = NoUser]
      BY <1>4 DEF ConfirmSession
    <2>2. QED
      BY <1>1, <2>1
  <1>5. CASE drop_sessions(p) \/ delete_session(p) \/ factory_reset_state(p)
    <2>1. \/ session_cache' = [s \in Sessions |-> NoUser]
          \/ \E c : session_cache' = [session_cache EXCEPT ![c] = NoUser]
          \/ session_cache' = [c \in DOMAIN session_cache |->
                IF session_cache[c].email = Arg(p).email THEN NoUser ELSE session_cache[c]]
      BY <1>5 DEF drop_sessions, delete_session, factory_reset_state, Dropped
    <2>2. QED
      BY <1>1, <2>1
  <1>6. QED
    <2>1. CASE \/ Lookup(p) \/ ConfirmKey(p)
               \/ Allowed(p) \/ LoginRole(p) \/ LoginActive(p)
               \/ RecordUser(p) \/ RecordSession(p) \/ Seed(p)
               \/ AppendStep(p) \/ ApplyStep(p) \/ Exists(p) \/ OwnsKey(p) \/ OwnsShare(p)
      BY <1>2, <2>1 DEF Lookup, ConfirmKey, Allowed, LoginRole, LoginActive,
           RecordUser, RecordSession, Seed, AppendStep, ApplyStep, Exists, OwnsKey, OwnsShare, caches
    <2>2. CASE \/ revoke_share_by_id(p) \/ update_share_paths(p) \/ delete_shares_under(p)
               \/ delete_rows(p) \/ drop_keys(p)
               \/ delete_row(p) \/ CacheKey(p) \/ DropKey(p) \/ Label(p)
               \/ RemoveTree(p) \/ factory_reset(p)
      BY <1>2, <2>2 DEF revoke_share_by_id, update_share_paths, delete_shares_under, delete_rows,
           drop_keys, delete_row, CacheKey, DropKey, Label, RemoveTree, factory_reset, caches
    <2>3. QED
      BY <1>3, <1>4, <1>5, <2>1, <2>2 DEF Step

\* A request that is about a key.
LEMMA KeyArg ==
  ASSUME RequestsInv, NEW p \in Slots, NEW d \in {"owns_key", "cache_key", "drop_key", "label"}, At(p, d)
  PROVE  req[p].arg.key \in Keys /\ req[p].arg.label \in Labels
  <1>1. d \notin Opening
    BY DEF Opening
  <1>2. Called(req[p]) /\ Fits(backend, req[p], Head(req[p].todo)) /\ Head(req[p].todo).do = d
    BY <1>1, AtServed
  <1>3. req[p].arg \in [key : Keys, label : Labels]
    BY <1>2 DEF Fits, Called, KeyOps
  <1>4. QED
    BY <1>3

\* Other labels make another user of the cache.
LEMMA LabelledUser ==
  ASSUME NEW u \in Users, NEW label \in Labels
  PROVE  /\ [u EXCEPT !.label = label] \in Users
         /\ [u EXCEPT !.label = label].label = label
         /\ [u EXCEPT !.label = label].email = u.email
  BY DEF Users

LEMMA StepKeyCache ==
  ASSUME TypeOK, RequestsInv, NEW p \in Slots, Step(p)
  PROVE  api_key_cache' \in [Keys -> Users \union {NoUser}]
  <1>1. api_key_cache \in [Keys -> Users \union {NoUser}]
    BY DEF TypeOK
  <1>2. CASE UNCHANGED api_key_cache
    BY <1>1, <1>2
  <1>3. CASE CacheKey(p)
    <2>1. req[p].user \in Users /\ req[p].arg.label \in Labels
      BY <1>3, AtServed, KeyArg DEF CacheKey, Opening, Knows
    <2>2. [req[p].user EXCEPT !.label = req[p].arg.label] \in Users
      BY <2>1, LabelledUser
    <2>3. QED
      BY <1>1, <1>3, <2>2 DEF CacheKey
  <1>4. CASE ConfirmKey(p)
    <2>1. \/ api_key_cache' = api_key_cache
          \/ api_key_cache' = [api_key_cache EXCEPT ![req[p].cred] = NoUser]
          \/ api_key_cache' = [api_key_cache EXCEPT ![req[p].cred] = req[p].user]
      BY <1>4 DEF ConfirmKey
    <2>2. req[p].user \in Users
      <3>1. /\ InProgress(backend, req[p]) /\ Head(req[p].todo).do = "confirm" /\ req[p].cred \in Keys
        BY <1>4 DEF ConfirmKey, At, RequestsInv
      <3>2. Entered(req[p], "confirm")
        BY <3>1 DEF InProgress
      <3>3. QED
        BY <3>1, <3>2, AuthAssumption DEF Entered
    <2>3. QED
      BY <1>1, <2>1, <2>2
  <1>5. CASE DropKey(p) \/ drop_keys(p) \/ factory_reset_state(p)
    <2>1. \/ api_key_cache' = [k \in Keys |-> NoUser]
          \/ \E k : api_key_cache' = [api_key_cache EXCEPT ![k] = NoUser]
          \/ api_key_cache' = [k \in DOMAIN api_key_cache |->
                IF api_key_cache[k].email = Arg(p).email THEN NoUser ELSE api_key_cache[k]]
      BY <1>5 DEF DropKey, drop_keys, factory_reset_state, Dropped
    <2>2. QED
      BY <1>1, <2>1
  <1>6. CASE Label(p)
    <2> DEFINE k == req[p].arg.key
               u == [api_key_cache[k] EXCEPT !.label = req[p].arg.label]
    <2>1. \/ api_key_cache' = api_key_cache
          \/ api_key_cache[k] # NoUser /\ api_key_cache' = [api_key_cache EXCEPT ![k].label = req[p].arg.label]
      BY <1>6 DEF Label
    <2>2. k \in Keys /\ req[p].arg.label \in Labels
      BY <1>6, KeyArg DEF Label
    <2>3. api_key_cache[k] # NoUser => u \in Users
      BY <1>1, <2>2, LabelledUser
    <2>4. api_key_cache' = api_key_cache \/ (api_key_cache[k] # NoUser /\ api_key_cache' = [api_key_cache EXCEPT ![k] = u])
      BY <2>1
    <2> HIDE DEF k, u
    <2>5. QED
      BY <1>1, <2>3, <2>4
  <1>7. QED
    <2>1. CASE \/ Lookup(p) \/ ConfirmSession(p)
               \/ Allowed(p) \/ LoginRole(p) \/ LoginActive(p) \/ CacheSession(p)
               \/ RecordUser(p) \/ RecordSession(p) \/ Seed(p)
               \/ AppendStep(p) \/ ApplyStep(p) \/ Exists(p) \/ OwnsKey(p) \/ OwnsShare(p)
      BY <1>2, <2>1 DEF Lookup, ConfirmSession, Allowed, LoginRole, LoginActive, CacheSession,
           RecordUser, RecordSession, Seed, AppendStep, ApplyStep, Exists, OwnsKey, OwnsShare, caches
    <2>2. CASE \/ revoke_share_by_id(p) \/ update_share_paths(p) \/ delete_shares_under(p)
               \/ drop_sessions(p) \/ delete_rows(p) \/ delete_session(p)
               \/ delete_row(p) \/ RemoveTree(p) \/ factory_reset(p)
      BY <1>2, <2>2 DEF revoke_share_by_id, update_share_paths, delete_shares_under, drop_sessions,
           delete_rows, delete_session, delete_row, RemoveTree, factory_reset, caches
    <2>3. QED
      BY <1>3, <1>4, <1>5, <1>6, <2>1, <2>2 DEF Step

LEMMA StepBarred ==
  ASSUME TypeOK, RequestsInv, NEW p \in Slots, Step(p)
  PROVE  barred' \subseteq Emails /\ since' \in [Slots -> SUBSET Emails]
  <1>1. barred \subseteq Emails /\ since \in [Slots -> SUBSET Emails]
    BY DEF TypeOK
  <1>2. barred' \subseteq Emails
    <2>1. CASE UNCHANGED barred
      BY <1>1, <2>1
    <2>2. CASE AppendStep(p)
      BY <1>1, <2>2 DEF AppendStep
    <2>3. CASE ApplyStep(p)
      <3>1. Arg(p) \in Entries
        BY <2>3, EntryArg DEF ApplyStep
      <3>2. Arg(p).kind = "user-deactivate" => Arg(p).email \in Emails
        BY <3>1, EntryFields DEF AccountKinds
      <3>3. \/ barred' = barred
            \/ barred' = barred \ {Arg(p).email}
            \/ Arg(p).kind = "user-deactivate" /\ barred' = barred \union {Arg(p).email}
        BY <2>3 DEF ApplyStep
      <3>4. QED
        BY <1>1, <3>2, <3>3
    <2>4. CASE factory_reset_state(p) \/ factory_reset(p)
      BY <1>1, <2>4 DEF factory_reset_state, factory_reset
    <2>5. QED
      <3>1. CASE \/ Lookup(p) \/ ConfirmSession(p) \/ ConfirmKey(p)
                 \/ Allowed(p) \/ LoginRole(p) \/ LoginActive(p) \/ CacheSession(p)
                 \/ RecordUser(p) \/ RecordSession(p) \/ Seed(p)
                 \/ Exists(p) \/ OwnsKey(p) \/ OwnsShare(p)
        BY <2>1, <3>1 DEF Lookup, ConfirmSession, ConfirmKey, Allowed, LoginRole, LoginActive,
             CacheSession, RecordUser, RecordSession, Seed, Exists, OwnsKey, OwnsShare
      <3>2. CASE \/ revoke_share_by_id(p) \/ update_share_paths(p) \/ delete_shares_under(p)
                 \/ drop_sessions(p) \/ delete_rows(p) \/ drop_keys(p)
                 \/ delete_session(p) \/ delete_row(p) \/ CacheKey(p) \/ DropKey(p) \/ Label(p)
                 \/ RemoveTree(p)
        BY <2>1, <3>2 DEF revoke_share_by_id, update_share_paths, delete_shares_under, drop_sessions,
             delete_rows, drop_keys, delete_session, delete_row, CacheKey, DropKey, Label, RemoveTree
      <3>3. QED
        BY <2>2, <2>3, <2>4, <3>1, <3>2 DEF Step
  <1>3. since' = [q \in Slots |-> IF req'[q] = Nothing THEN {} ELSE since[q] \intersect barred']
    BY StepKeeps
  <1>4. QED
    BY <1>1, <1>2, <1>3

LEMMA StepTyped ==
  ASSUME TypeOK, RequestsInv, NEW p \in Slots, Step(p)
  PROVE  TypeOK'
  <1>1. issued' = issued /\ backend' = backend
    BY StepKeeps
  <1>2. issued \subseteq Sessions \union Keys \union Shares
    BY DEF TypeOK
  <1>3. QED
    BY <1>1, <1>2, StepTables, StepLog, StepRows, StepSessions, StepKeyCache, StepBarred DEF TypeOK

\* A request is answered with ids of its own kind.
LEMMA BeginTyped ==
  ASSUME TypeOK, NEW p \in Slots, Begin(p)
  PROVE  TypeOK'
  <1>1. PICK op, cred, arg, todo : Asks(op, cred, arg, todo) /\ Enters(p, Request(op, cred, arg, todo))
    BY BeginAsks
  <1> DEFINE r == Request(op, cred, arg, todo)
             ids == Sessions \union Keys \union Shares
  <1>2. r.op = op /\ r.cred = cred /\ r.arg = arg
    BY DEF Request
  <1> HIDE DEF r
  <1>3. op = "create_api_key" => arg.key \in Keys
    <2> SUFFICES ASSUME op = "create_api_key"
                 PROVE  arg.key \in Keys
      OBVIOUS
    <2>1. PICK a \in Asked : op = a.op /\ arg = a.arg
      BY <1>1 DEF Asks
    <2>2. a.arg \in [key : Keys, label : Labels]
      BY <2>1, AskedFits DEF KeyOps
    <2>3. QED
      BY <2>1, <2>2
  <1>4. op = "create_share" => arg.share \in Shares
    <2> SUFFICES ASSUME op = "create_share"
                 PROVE  arg.share \in Shares
      OBVIOUS
    <2>1. PICK a \in Asked : op = a.op /\ arg = a.arg
      BY <1>1 DEF Asks
    <2>2. a.arg \in [share : Shares, grantee : Emails, folder : {Old, New}, permission : Permissions]
      BY <2>1, AskedFits
    <2>3. QED
      BY <2>1, <2>2
  <1>5. cred \in Sessions \union Keys
    BY <1>1 DEF Asks
  <1>6. Issues(r) \subseteq ids
    BY <1>2, <1>3, <1>4, <1>5 DEF Issues
  <1>7. issued' = issued \union Issues(r)
    BY <1>1 DEF Enters, r
  <1>8. /\ issued \subseteq ids /\ barred \subseteq Emails /\ since \in [Slots -> SUBSET Emails]
        /\ tables \in Tables /\ log \in Seq(Entries) /\ (backend = "pg" => log = <<>>)
        /\ rows \in [Sessions -> Emails \union {Nobody}]
        /\ session_cache \in [Sessions -> Users \union {NoUser}]
        /\ api_key_cache \in [Keys -> Users \union {NoUser}]
    BY DEF TypeOK
  <1>9. /\ UNCHANGED <<backend, tables, log, rows, session_cache, api_key_cache, barred>>
        /\ since' = [since EXCEPT ![p] = barred]
    BY DEF Begin, store, caches
  <1>10. issued' \subseteq ids /\ since' \in [Slots -> SUBSET Emails]
    BY <1>6, <1>7, <1>8, <1>9
  <1>11. QED
    BY <1>8, <1>9, <1>10 DEF TypeOK

\* The tables and caches of a daemon that starts.
LEMMA BootKeysTyped ==
  ASSUME NEW t \in Tables
  PROVE  BootKeys(t) \in [Keys -> Users \union {NoUser}]
  <1>1. ASSUME NEW k \in Keys, t.keys[k] # Nobody
        PROVE  [email |-> t.keys[k].email, role |-> resolve_role(t, t.keys[k].email),
                label |-> t.keys[k].label] \in Users
    <2>1. t.keys[k] \in KeyRecords
      BY <1>1 DEF Tables
    <2>2. resolve_role(t, t.keys[k].email) \in Roles
      BY ResolvedRole
    <2>3. QED
      BY <2>1, <2>2 DEF KeyRecords, Users
  <1>2. QED
    BY <1>1 DEF BootKeys

LEMMA BootTyped ==
  ASSUME NEW t \in Tables, NEW entries \in Seq(Entries), NEW there
  PROVE  /\ BootLog(entries, there) \in Seq(Entries)
         /\ BootTables(t, entries) \in Tables
  <1>1. SeedEntries \in Seq(Entries)
    BY SeedsTyped DEF OnlyPolicy
  <1>2. replay_jsonl(entries) \in Tables
    BY ReplayTyped
  <1>3. [t EXCEPT !.domains = @ \union SeedDomains] \in Tables
    BY DEF Tables
  <1>4. QED
    BY <1>1, <1>2, <1>3 DEF BootLog, BootTables

LEMMA RestartTyped ==
  ASSUME TypeOK, Restart
  PROVE  TypeOK'
  <1>1. /\ tables \in Tables /\ log \in Seq(Entries) /\ (backend = "pg" => log = <<>>)
        /\ rows \in [Sessions -> Emails \union {Nobody}]
        /\ issued \subseteq Sessions \union Keys \union Shares /\ barred \subseteq Emails
    BY DEF TypeOK
  <1>2. log' = BootLog(log, stored) /\ tables' = BootTables(tables, log') /\ backend' = backend
    BY DEF Restart
  <1>3. log' \in Seq(Entries) /\ (backend = "pg" => log' = <<>>)
    BY <1>1, <1>2, BootTyped DEF BootLog
  <1>4. tables' \in Tables
    BY <1>1, <1>2, <1>3, BootTyped
  <1>5. rows' \in [Sessions -> Emails \union {Nobody}]
    BY <1>1 DEF Restart, NoRows
  <1>6. session_cache' \in [Sessions -> Users \union {NoUser}]
    BY DEF Restart, NoSessions
  <1>7. api_key_cache' \in [Keys -> Users \union {NoUser}]
    <2>1. api_key_cache' = BootKeys(tables')
      BY DEF Restart
    <2>2. QED
      BY <1>4, <2>1, BootKeysTyped
  <1>8. issued' = issued /\ barred' \subseteq Emails /\ since' \in [Slots -> SUBSET Emails]
    BY <1>1 DEF Restart
  <1>9. QED
    BY <1>1, <1>2, <1>3, <1>4, <1>5, <1>6, <1>7, <1>8 DEF TypeOK

LEMMA ExpireTyped ==
  ASSUME TypeOK, NEW s \in Sessions, Expire(s)
  PROVE  TypeOK'
  BY DEF Expire, TypeOK, caches

LEMMA TypesStay ==
  ASSUME TypeOK, RequestsInv, [Next]_vars
  PROVE  TypeOK'
  <1>1. CASE UNCHANGED vars
    BY <1>1 DEF TypeOK, vars
  <1>2. CASE Next
    BY <1>2, StepTyped, BeginTyped, RestartTyped, ExpireTyped DEF Next
  <1>3. QED
    BY <1>1, <1>2

LEMMA InitAuth ==
  ASSUME Init
  PROVE  AuthInv
  <1>1. PICK h \in Histories :
          /\ log = IF backend = "pg" THEN <<>> ELSE SeedEntries \o h
          /\ tables = replay_jsonl(SeedEntries \o h)
          /\ api_key_cache \in {BootKeys(tables), [k \in Keys |-> NoUser]}
          /\ \E s \in Sessions :
              /\ session_cache = IF tables.top = {} THEN NoSessions
                                 ELSE [NoSessions EXCEPT ![s] =
                                          [NoUser EXCEPT !.email = CHOOSE e \in tables.top : TRUE,
                                                         !.role = "top"]]
              /\ rows = IF tables.top = {} \/ backend = "store" THEN NoRows
                        ELSE [NoRows EXCEPT ![s] = CHOOSE e \in tables.top : TRUE]
              /\ issued = {h[i].key : i \in {j \in DOMAIN h : h[j].kind = "api-key"}}
                          \union {h[i].share.id : i \in {j \in DOMAIN h : h[j].kind = "share"}}
                          \union (IF tables.top = {} THEN {} ELSE {s})
    BY DEF Init
  <1>2. SeedEntries \in Seq(Entries) /\ h \in Seq(Entries)
    BY HistoriesAssumption, SeedsTyped DEF OnlyPolicy
  <1>3. SeedEntries \o h \in Seq(Entries)
    BY <1>2, JoinedEntries
  <1>4. tables \in Tables
    BY <1>1, <1>3, ReplayTyped
  <1>5. log \in Seq(Entries) /\ (backend = "pg" => log = <<>>)
    BY <1>1, <1>3
  <1>6. api_key_cache \in [Keys -> Users \union {NoUser}]
    BY <1>1, <1>4, BootKeysTyped
  <1> DEFINE top == CHOOSE e \in tables.top : TRUE
             user == [NoUser EXCEPT !.email = top, !.role = "top"]
  <1>7. tables.top # {} => top \in Emails
    BY <1>4 DEF Tables
  <1>8. "top" \in Roles
    BY DEF Roles
  <1>9. tables.top # {} => user \in Users
    BY <1>7, <1>8, NoUserFields
  <1>10. PICK s \in Sessions :
          /\ session_cache = IF tables.top = {} THEN NoSessions ELSE [NoSessions EXCEPT ![s] = user]
          /\ rows = IF tables.top = {} \/ backend = "store" THEN NoRows ELSE [NoRows EXCEPT ![s] = top]
          /\ issued = {h[i].key : i \in {j \in DOMAIN h : h[j].kind = "api-key"}}
                      \union {h[i].share.id : i \in {j \in DOMAIN h : h[j].kind = "share"}}
                      \union (IF tables.top = {} THEN {} ELSE {s})
    BY <1>1
  <1> HIDE DEF top, user
  <1>11. session_cache \in [Sessions -> Users \union {NoUser}]
    BY <1>9, <1>10 DEF NoSessions
  <1>12. rows \in [Sessions -> Emails \union {Nobody}]
    BY <1>7, <1>10 DEF NoRows
  <1>13. issued \subseteq Sessions \union Keys \union Shares
    <2>1. \A i \in DOMAIN h : h[i] \in Entries
      BY <1>2
    <2>2. \A i \in DOMAIN h : /\ h[i].kind = "api-key" => h[i].key \in Keys
                              /\ h[i].kind = "share" => h[i].share.id \in Shares
      BY <2>1, EntryFields DEF ShareRecords
    <2>3. QED
      BY <1>10, <2>2
  <1>14. barred = {} /\ since = [p \in Slots |-> {}] /\ req = [p \in Slots |-> Nothing] /\ backend \in Backends
    BY DEF Init
  <1>15. TypeOK
    BY <1>4, <1>5, <1>6, <1>11, <1>12, <1>13, <1>14 DEF TypeOK
  <1>16. RequestsInv
    BY <1>14 DEF RequestsInv, Busy, Idle
  <1>17. backend \in {"store", "jsonl", "pg"}
    BY <1>14, AuthAssumption
  <1>18. QED
    BY <1>15, <1>16, <1>17 DEF AuthInv

LEMMA BackendStays ==
  ASSUME [Next]_vars
  PROVE  backend' = backend
  <1>1. \A p \in Slots : Step(p) => backend' = backend
    BY StepKeeps
  <1>2. QED
    BY <1>1 DEF Next, vars, Begin, store, Restart, Expire

LEMMA AuthStays ==
  ASSUME AuthInv, [Next]_vars
  PROVE  AuthInv'
  <1>1. TypeOK /\ RequestsInv /\ backend \in {"store", "jsonl", "pg"}
    BY DEF AuthInv
  <1>2. TypeOK'
    BY <1>1, TypesStay
  <1>3. RequestsInv'
    BY <1>1, RequestsStay
  <1>4. backend' \in {"store", "jsonl", "pg"}
    BY <1>1, BackendStays
  <1>5. QED
    BY <1>2, <1>3, <1>4 DEF AuthInv

LEMMA AuthAlways == Spec => []AuthInv
  <1>1. Init => AuthInv
    BY InitAuth
  <1>2. AuthInv /\ [Next]_vars => AuthInv'
    BY AuthStays
  <1>3. QED
    BY <1>1, <1>2, PTL DEF Spec

\* Every table, cache, session row and entry of the log holds what it is meant to hold, with
\* any number of requests in progress, whatever they interleave with and where the daemon
\* stops (src/auth/store.rs, src/auth/routes.rs, src/auth/middleware.rs).
THEOREM AuthTyped == Spec => []TypeOK
  <1>1. AuthInv => TypeOK
    BY DEF AuthInv
  <1>2. QED
    BY <1>1, AuthAlways, PTL

-----------------------------------------------------------------------------
(* What steps make of the requests *)

SameRequest(q, r) ==
    q.op = r.op /\ q.cred = r.cred /\ q.arg = r.arg /\ q.user = r.user /\ q.cached = r.cached

\* A step leaves the other requests as they are.
LEMMA StepShape ==
  ASSUME TypeOK, RequestsInv, NEW p \in Slots, Step(p)
  PROVE  /\ Busy(p) /\ InProgress(backend, req[p])
         /\ \A q \in Slots : q # p => req'[q] = req[q]
         /\ \/ req'[p] = Nothing
            \/ /\ InProgress(backend, req'[p]) /\ req'[p].op = req[p].op /\ req'[p].alone = req[p].alone
               /\ Head(req'[p].todo).do \in Opening => Head(req[p].todo).do \in Opening
         /\ \A q \in Slots : q # p /\ Busy(q) => ~req[p].alone /\ ~req[q].alone
         /\ \A q \in Slots : q # p /\ Busy(q) => {req[p].op, req[q].op} \in met
  <1>1. Busy(p)
    BY StepKeeps
  <1>2. InProgress(backend, req[p]) /\ DOMAIN req = Slots
    BY <1>1 DEF RequestsInv
  <1>3. PICK r : /\ req' = [req EXCEPT ![p] = r]
                 /\ \/ r = Nothing
                    \/ /\ InProgress(backend, r) /\ r.op = req[p].op /\ r.alone = req[p].alone
                       /\ Head(r.todo).do \in Opening => Head(req[p].todo).do \in Opening
    BY StepMoves DEF Moves
  <1>4. \A q \in Slots : req'[q] = IF q = p THEN r ELSE req[q]
    BY <1>2, <1>3
  <1>5. \A q \in Slots : q # p /\ Busy(q) =>
            ~req[p].alone /\ ~req[q].alone /\ {req[p].op, req[q].op} \in met
    BY <1>1 DEF RequestsInv
  <1>6. QED
    BY <1>1, <1>2, <1>3, <1>4, <1>5

LEMMA ThenSame ==
  ASSUME RequestsInv, NEW p \in Slots, Busy(p), NEW steps, Then(p, steps)
  PROVE  \/ req'[p] = Nothing /\ steps \o Tail(req[p].todo) = <<>>
         \/ SameRequest(req'[p], req[p]) /\ req'[p].todo = steps \o Tail(req[p].todo)
  <1>1. Called(req[p]) /\ DOMAIN req = Slots
    BY DEF RequestsInv, InProgress
  <1> DEFINE r == req[p]
             todo == steps \o Tail(r.todo)
             q == [r EXCEPT !.todo = todo]
  <1>2. req' = [req EXCEPT ![p] = IF q.todo = <<>> THEN Nothing ELSE q]
    BY DEF Then, Goes
  <1>3. q = With(r, todo, r.user, r.cached) /\ r.cached \in BOOLEAN
    <2> HIDE DEF r, todo
    <2>1. QED
      BY <1>1, ExceptWith DEF r
  <1>4. SameRequest(q, r) /\ q.todo = todo
    <2> HIDE DEF q, r, todo
    <2>1. QED
      BY <1>1, <1>3, WithFields DEF r, SameRequest
  <1> HIDE DEF q
  <1>5. req'[p] = IF q.todo = <<>> THEN Nothing ELSE q
    BY <1>1, <1>2
  <1>6. QED
    BY <1>4, <1>5

\* A request that has been served keeps its user, or is over.
LEMMA ServedSame ==
  ASSUME RequestsInv, NEW p \in Slots, ServedStep(p)
  PROVE  /\ Busy(p) /\ Head(req[p].todo).do \notin Opening
         /\ req'[p] = Nothing \/ SameRequest(req'[p], req[p])
  <1>1. Busy(p) /\ Head(req[p].todo).do \notin Opening
    BY DEF ServedStep, CacheSession, RecordUser, RecordSession, Seed, AppendStep, ApplyStep, Exists,
           OwnsKey, OwnsShare, revoke_share_by_id, update_share_paths, delete_shares_under,
           drop_sessions, delete_rows, drop_keys, delete_session, delete_row, CacheKey, DropKey, Label,
           RemoveTree, factory_reset_state, factory_reset, At, Opening
  <1>2. DOMAIN req = Slots
    BY DEF RequestsInv
  <1>3. Refuse(p) => req'[p] = Nothing
    BY <1>2, RefuseMoves
  <1>4. \A steps : Then(p, steps) => req'[p] = Nothing \/ SameRequest(req'[p], req[p])
    BY <1>1, ThenSame
  <1>5. Refuse(p) \/ \E steps : Then(p, steps)
    <2>1. CASE \/ CacheSession(p) \/ RecordUser(p) \/ RecordSession(p) \/ Seed(p)
               \/ AppendStep(p) \/ ApplyStep(p) \/ Exists(p) \/ OwnsKey(p) \/ OwnsShare(p)
      BY <2>1 DEF CacheSession, RecordUser, RecordSession, Seed, AppendStep, ApplyStep, Exists,
           OwnsKey, OwnsShare, Pass, Advance
    <2>2. CASE revoke_share_by_id(p)
      BY <2>2 DEF revoke_share_by_id
    <2>3. CASE update_share_paths(p)
      BY <2>3 DEF update_share_paths
    <2>4. CASE delete_shares_under(p)
      BY <2>4 DEF delete_shares_under
    <2>5. CASE delete_session(p)
      BY <2>5 DEF delete_session
    <2>6. CASE \/ drop_sessions(p) \/ delete_rows(p) \/ drop_keys(p)
               \/ delete_row(p) \/ CacheKey(p) \/ DropKey(p) \/ Label(p)
               \/ RemoveTree(p) \/ factory_reset_state(p) \/ factory_reset(p)
      BY <2>6 DEF drop_sessions, delete_rows, drop_keys, delete_row, CacheKey, DropKey, Label,
           RemoveTree, factory_reset_state, factory_reset, Advance
    <2>7. QED
      BY <2>1, <2>2, <2>3, <2>4, <2>5, <2>6 DEF ServedStep
  <1>6. QED
    BY <1>1, <1>3, <1>4, <1>5

LEMMA ServeSame ==
  ASSUME RequestsInv, NEW p \in Slots, Busy(p), NEW user, Serve(p, user)
  PROVE  \/ req'[p] = Nothing
         \/ /\ req'[p].op = req[p].op /\ req'[p].cred = req[p].cred /\ req'[p].arg = req[p].arg
            /\ req'[p].user = user /\ req'[p].cached = req[p].cached
            /\ \E r : /\ r.op = req[p].op /\ r.arg = req[p].arg /\ r.user = user /\ r.cred = req[p].cred
                      /\ req'[p].todo = Handler(r).todo
  <1> DEFINE r == [req[p] EXCEPT !.user = user]
             h == Handler(r)
             q == [r EXCEPT !.todo = h.todo]
  <1>1. Called(req[p]) /\ DOMAIN req = Slots
    BY DEF RequestsInv, InProgress
  <1>2. /\ r.op = req[p].op /\ r.cred = req[p].cred /\ r.arg = req[p].arg /\ r.user = user
        /\ r.cached = req[p].cached /\ r.alone = req[p].alone /\ r.todo = req[p].todo
        /\ r = [op |-> r.op, cred |-> r.cred, arg |-> r.arg, user |-> r.user, cached |-> r.cached,
                alone |-> r.alone, todo |-> r.todo]
    BY <1>1 DEF Called
  <1>3. req' = [req EXCEPT ![p] = IF q.todo = <<>> THEN Nothing ELSE q] \/ req' = [req EXCEPT ![p] = Nothing]
    <2>1. Goes(p, q) \/ Refuse(p)
      BY DEF Serve
    <2>2. QED
      BY <2>1, RefuseMoves DEF Goes
  <1> HIDE DEF r
  <1> DEFINE todo == h.todo
  <1>4. q = [r EXCEPT !.todo = todo]
    OBVIOUS
  <1> HIDE DEF q, h
  <1>5. q.todo = todo /\ q.op = r.op /\ q.arg = r.arg /\ q.user = r.user /\ q.cred = r.cred /\ q.cached = r.cached
    BY <1>2, <1>4
  <1>6. req'[p] = Nothing \/ req'[p] = q
    BY <1>1, <1>3
  <1>7. todo = Handler(r).todo
    BY DEF h
  <1> HIDE DEF todo
  <1>8. QED
    BY <1>2, <1>5, <1>6, <1>7

LEMMA BeginShape ==
  ASSUME TypeOK, RequestsInv, NEW p \in Slots, Begin(p)
  PROVE  /\ ~Busy(p)
         /\ \A q \in Slots : q # p /\ Busy(q) =>
               /\ SameRequest(req'[q], req[q]) /\ req'[q].todo = req[q].todo /\ ~req'[q].alone
               /\ Busy(q)'
         /\ \A q \in Slots : Busy(q)' => q = p \/ Busy(q)
         /\ Called(req'[p]) /\ OnItsWay(req'[p]) /\ InProgress(backend, req'[p])
         /\ req'[p].todo = Identified \/ (req'[p].todo = LoggingIn /\ req'[p].op = "login")
         /\ req'[p].user = NoUser /\ met \subseteq met'
  <1>1. PICK op, cred, arg, todo : Asks(op, cred, arg, todo) /\ Enters(p, Request(op, cred, arg, todo))
    BY BeginAsks
  <1> DEFINE r == Request(op, cred, arg, todo)
             a == AllIdle
             no == FALSE
             new == [r EXCEPT !.alone = a]
             old(q) == [req[q] EXCEPT !.alone = no]
  <1>2. req' = [q \in Slots |-> IF q = p THEN new ELSE IF Busy(q) THEN old(q) ELSE Nothing]
    BY <1>1 DEF Enters
  <1>3. a \in BOOLEAN /\ no \in BOOLEAN /\ ~no
    BY DEF AllIdle, Idle
  <1>4. Called(r) /\ OnItsWay(r) /\ r.todo = todo /\ r.op = op /\ r.user = NoUser
    BY <1>1, RequestCalled
  <1>18. met \subseteq met'
    BY <1>1 DEF Enters
  <1> HIDE DEF a, no, r
  <1>5. Called(new) /\ SameRequest(new, r) /\ new.todo = r.todo
    BY <1>3, <1>4, AloneFields DEF SameRequest
  <1>6. ASSUME NEW q \in Slots, Busy(q)
        PROVE  SameRequest(old(q), req[q]) /\ old(q).todo = req[q].todo /\ ~old(q).alone
    <2>1. Called(req[q])
      BY <1>6 DEF RequestsInv, InProgress
    <2>2. QED
      BY <1>3, <2>1, AloneFields DEF SameRequest
  <1>7. \A q \in Slots : req'[q] = IF q = p THEN new ELSE IF Busy(q) THEN old(q) ELSE Nothing
    BY <1>2
  <1>8. ASSUME NEW q \in Slots, Busy(q) PROVE old(q) # Nothing
    <2>1. req[q].todo # <<>>
      BY <1>8 DEF RequestsInv, InProgress
    <2>2. Nothing.todo = <<>>
      BY DEF Nothing, Request
    <2>3. QED
      BY <1>6, <1>8, <2>1, <2>2
  <1> HIDE DEF old, new
  <1>9. OnItsWay(new)
    BY <1>4, <1>5 DEF OnItsWay, SameRequest, Knows
  <1>10. ~Busy(p)
    BY DEF Begin, Busy
  <1>11. \A q \in Slots : Busy(q)' <=> req'[q] # Nothing
    BY DEF Busy, Idle
  <1>12. todo = Identified \/ (todo = LoggingIn /\ op = "login")
    BY <1>1 DEF Asks
  <1>13. \A q \in Slots : q # p /\ Busy(q) =>
               /\ SameRequest(req'[q], req[q]) /\ req'[q].todo = req[q].todo /\ ~req'[q].alone
               /\ Busy(q)'
    BY <1>6, <1>7, <1>8, <1>11
  <1>14. \A q \in Slots : Busy(q)' => q = p \/ Busy(q)
    BY <1>7, <1>11
  <1>15. req'[p] = new
    BY <1>7
  <1>16. InProgress(backend, new)
    BY <1>5, <1>9, OnItsWayInProgress
  <1>17. QED
    BY <1>4, <1>5, <1>9, <1>10, <1>12, <1>13, <1>14, <1>15, <1>16, <1>18 DEF SameRequest

-----------------------------------------------------------------------------
(* Deactivated accounts stay deactivated *)

LEMMA ChangedInactive ==
  ASSUME NEW t \in Tables, NEW x \in Entries, NEW e \in Emails, t.users[e] = "inactive",
         x.kind \in {"user-activate", "user-delete"} => x.email # e,
         backend # "pg" /\ x.kind = "user" /\ x.active => x.email # e
  PROVE  Changed(t, x).users[e] = "inactive"
  <1> USE EntryFields
  <1>1. CASE x.kind = "user-delete"
    <2>1. Changed(t, x) = DeletedUser(t, x.email) /\ x.email \in Emails
      BY <1>1 DEF Changed, execute, apply_entry, AccountKinds
    <2>2. DeletedUser(t, x.email).users = [t.users EXCEPT ![x.email] = "none"]
      BY <2>1, DeletedFields
    <2>3. QED
      BY <1>1, <2>1, <2>2 DEF Tables
  <1>2. CASE x.kind \in {"top-admin", "admin", "admin-revoke"}
    <2>1. Changed(t, x).users = t.users
      BY <1>2 DEF Changed, execute, set_role, apply_entry, Tables
    <2>2. QED
      BY <2>1
  <1>3. CASE x.kind = "user"
    BY <1>3 DEF Changed, execute, upsert_user, apply_entry, Tables, IsUser
  <1>4. CASE x.kind \in {"user-deactivate", "user-activate"}
    BY <1>4 DEF Changed, execute, apply_entry, Tables, IsUser, AccountKinds
  <1>5. CASE x.kind \in Kinds \ {"user-delete", "top-admin", "admin", "admin-revoke", "user",
                               "user-deactivate", "user-activate"}
    <2>1. apply_entry(t, x).users = t.users
      BY <1>5 DEF apply_entry, Retain, Tables, Kinds, AccountKinds
    <2>2. Changed(t, x) \in {t, apply_entry(t, x)}
      BY <1>5 DEF Changed, execute, Kinds, AccountKinds
    <2>3. QED
      BY <2>1, <2>2
  <1>6. QED
    BY <1>1, <1>2, <1>3, <1>4, <1>5

LEMMA ChangedBars ==
  ASSUME NEW t \in Tables, NEW x \in Entries, x.kind = "user-deactivate", IsUser(t, x.email)
  PROVE  Changed(t, x).users[x.email] = "inactive"
  <1>1. x.email \in Emails
    BY EntryFields DEF AccountKinds
  <1>2. QED
    BY <1>1 DEF Changed, execute, apply_entry, Tables

\* What is appended keeps an account out, unless it lets it in.
LEMMA ShutOutAppend ==
  ASSUME NEW s \in Seq(Entries), NEW x \in Entries, NEW e,
         Bars(x, e) \/ (ShutOut(s, e) /\ ~Lets(x, e))
  PROVE  ShutOut(Append(s, x), e)
  <1> DEFINE n == Len(s)
             w == Append(s, x)
  <1>1. n \in Nat /\ Len(w) = n + 1 /\ w[n + 1] = x /\ \A i \in 1..n : w[i] = s[i]
    OBVIOUS
  <1>2. \A i \in 1..(n + 1) : i \in 1..n \/ i = n + 1
    BY <1>1
  <1>3. n + 1 \in 1..(n + 1) /\ \A i \in 1..n : i \in 1..(n + 1) /\ n + 1 > i
    BY <1>1
  <1> HIDE DEF w, n
  <1>4. CASE Bars(x, e)
    <2>1. ~Lets(x, e)
      BY <1>4 DEF Bars, Lets
    <2>2. QED
      BY <1>1, <1>2, <1>3, <1>4, <2>1 DEF ShutOut, w
  <1>5. CASE ShutOut(s, e) /\ ~Lets(x, e)
    <2>1. \A i \in 1..n : Lets(w[i], e) => \E j \in 1..n : j > i /\ Bars(w[j], e)
      BY <1>1, <1>5 DEF ShutOut, n
    <2>2. QED
      BY <1>1, <1>2, <1>3, <1>5, <2>1 DEF ShutOut, w
  <1>6. QED
    BY <1>4, <1>5

LEMMA ShutOutPolicy ==
  ASSUME NEW s, OnlyPolicy(s) \/ s = <<>>, NEW e
  PROVE  ShutOut(s, e)
  <1>1. CASE s = <<>>
    BY <1>1 DEF ShutOut
  <1>2. CASE OnlyPolicy(s)
    BY <1>2 DEF OnlyPolicy, PolicyKinds, ShutOut, Lets
  <1>3. QED
    BY <1>1, <1>2

\* Which accounts a step can change, and which of them count as barred.
LEMMA StepAccounts ==
  ASSUME TypeOK, RequestsInv, NEW p \in Slots, Step(p)
  PROVE  \/ AppendStep(p)
         \/ ApplyStep(p)
         \/ barred' = {} /\ stored' = stored /\ (log' = log \/ backend = "jsonl")
         \/ backend = "store" /\ log' = <<>> /\ stored' = FALSE /\ UNCHANGED <<tables, barred>>
         \/ UNCHANGED <<log, stored, barred>> /\ tables'.users = tables.users
  <1>1. tables \in Tables
    BY DEF TypeOK
  <1>2. CASE \/ Lookup(p) \/ ConfirmSession(p) \/ ConfirmKey(p)
             \/ Allowed(p) \/ LoginRole(p) \/ LoginActive(p) \/ CacheSession(p)
             \/ RecordUser(p) \/ RecordSession(p) \/ Seed(p)
             \/ Exists(p) \/ OwnsKey(p) \/ OwnsShare(p)
    BY <1>2 DEF Lookup, ConfirmSession, ConfirmKey, Allowed, LoginRole, LoginActive, CacheSession,
         RecordUser, RecordSession, Seed, Exists, OwnsKey, OwnsShare, store
  <1>3. CASE \/ drop_sessions(p) \/ delete_rows(p) \/ drop_keys(p)
             \/ delete_session(p) \/ delete_row(p) \/ CacheKey(p) \/ DropKey(p)
    BY <1>3 DEF drop_sessions, delete_rows, drop_keys, delete_session, delete_row, CacheKey, DropKey, store
  <1>4. CASE revoke_share_by_id(p)
    BY <1>1, <1>4 DEF revoke_share_by_id, Retain, Tables
  <1>5. CASE update_share_paths(p)
    BY <1>1, <1>5 DEF update_share_paths, Tables
  <1>6. CASE delete_shares_under(p)
    BY <1>1, <1>6 DEF delete_shares_under, Retain, Tables
  <1>7. CASE Label(p)
    BY <1>1, <1>7 DEF Label, Tables
  <1>8. CASE RemoveTree(p)
    BY <1>8 DEF RemoveTree
  <1>9. CASE factory_reset_state(p)
    BY <1>9 DEF factory_reset_state
  <1>10. CASE factory_reset(p)
    BY <1>10 DEF factory_reset
  <1>11. QED
    BY <1>2, <1>3, <1>4, <1>5, <1>6, <1>7, <1>8, <1>9, <1>10 DEF Step

\* A request writes an entry; one that makes an account active is not about a barred one.
LEMMA WrittenPasses ==
  ASSUME RequestsInv, BarredInv, NEW p \in Slots, At(p, "append") \/ At(p, "apply"), backend # "pg"
  PROVE  Arg(p).kind = "user" /\ Arg(p).active => Arg(p).email \notin barred
  <1>1. Busy(p) /\ Head(req[p].todo).do \in {"append", "apply"}
    BY DEF At
  <1>2. Passing(req[p].todo, barred)
    BY <1>1 DEF BarredInv, Kept
  <1>3. 1 \in 1..Len(req[p].todo) /\ Head(req[p].todo) = req[p].todo[1]
    BY <1>1, InProgressFields DEF RequestsInv
  <1>4. QED
    BY <1>1, <1>2, <1>3 DEF Passing, Activates, Arg

LEMMA BarredSets ==
  ASSUME TypeOK, RequestsInv, BarredInv, NEW p \in Slots, Step(p)
  PROVE  /\ \A e \in barred' : tables'.users[e] = "inactive"
         /\ backend # "pg" => \A e \in barred' : ShutOut(log', e)
         /\ ~stored' => backend = "store" /\ log' = <<>>
         /\ \A q \in Slots : since'[q] \subseteq barred'
  <1>1. /\ \A e \in barred : tables.users[e] = "inactive"
        /\ backend # "pg" => \A e \in barred : ShutOut(log, e)
        /\ ~stored => backend = "store" /\ log = <<>>
    BY DEF BarredInv
  <1>2. tables \in Tables /\ log \in Seq(Entries) /\ barred \subseteq Emails
    BY DEF TypeOK
  <1>3. \A q \in Slots : since'[q] \subseteq barred'
    <2>1. since' = [q \in Slots |-> IF req'[q] = Nothing THEN {} ELSE since[q] \intersect barred']
      BY StepKeeps
    <2>2. QED
      BY <2>1
  <1>4. CASE AppendStep(p)
    <2> DEFINE x == Arg(p)
    <2>1. x \in Entries /\ backend # "pg"
      BY <1>4, EntryArg DEF AppendStep
    <2>2. x.kind = "user" /\ x.active => x.email \notin barred
      BY <1>4, <2>1, WrittenPasses DEF AppendStep
    <2>3. /\ log' = IF stored THEN Append(log, x) ELSE log
          /\ barred' = IF stored /\ x.kind = "user-activate" THEN barred \ {x.email} ELSE barred
          /\ UNCHANGED <<tables, stored>>
      BY <1>4 DEF AppendStep
    <2> HIDE DEF x
    <2>4. ASSUME NEW e \in barred'
          PROVE  tables'.users[e] = "inactive" /\ ShutOut(log', e)
      <3>1. e \in barred
        BY <2>3
      <3>2. stored => ~Lets(x, e)
        BY <2>2, <2>3, <3>1 DEF Lets
      <3>3. ShutOut(log', e)
        BY <1>1, <1>2, <2>1, <2>3, <3>1, <3>2, ShutOutAppend
      <3>4. QED
        BY <1>1, <2>3, <3>1, <3>3
    <2>5. ~stored' => backend = "store" /\ log' = <<>>
      BY <1>1, <2>3
    <2>6. QED
      BY <1>3, <2>4, <2>5
  <1>5. CASE ApplyStep(p)
    <2> DEFINE x == Arg(p)
    <2>1. x \in Entries
      BY <1>5, EntryArg DEF ApplyStep
    <2>2. backend # "pg" /\ x.kind = "user" /\ x.active => x.email \notin barred
      BY <1>5, WrittenPasses DEF ApplyStep
    <2>3. /\ tables' = Changed(tables, x)
          /\ barred' = CASE x.kind = "user-deactivate" /\ IsUser(tables, x.email)
                               /\ (backend = "pg" \/ req[p].alone) -> barred \union {x.email}
                       [] x.kind \in {"user-activate", "user-delete"} -> barred \ {x.email}
                       [] OTHER -> barred
          /\ UNCHANGED <<log, stored>>
      BY <1>5 DEF ApplyStep
    <2>4. backend # "pg" /\ req[p].alone /\ x.kind = "user-deactivate" => ShutOut(log, x.email)
      BY <1>5 DEF ApplyStep, At, Arg, BarredInv, Kept
    <2> HIDE DEF x
    <2>5. ASSUME NEW e \in barred'
          PROVE  tables'.users[e] = "inactive" /\ (backend # "pg" => ShutOut(log', e))
      <3>1. CASE e \in barred
        <4>1. /\ x.kind \in {"user-activate", "user-delete"} => x.email # e
              /\ backend # "pg" /\ x.kind = "user" /\ x.active => x.email # e
          BY <2>2, <2>3, <3>1
        <4>2. Changed(tables, x).users[e] = "inactive"
          BY <1>1, <1>2, <2>1, <3>1, <4>1, ChangedInactive
        <4>3. QED
          BY <1>1, <2>3, <3>1, <4>2
      <3>2. CASE e \notin barred
        <4>1. /\ x.kind = "user-deactivate" /\ IsUser(tables, x.email) /\ e = x.email
              /\ backend = "pg" \/ req[p].alone
          BY <2>3, <3>2
        <4>2. Changed(tables, x).users[e] = "inactive"
          BY <1>2, <2>1, <4>1, ChangedBars
        <4>3. QED
          BY <2>3, <2>4, <4>1, <4>2
      <3>3. QED
        BY <3>1, <3>2
    <2>6. QED
      BY <1>1, <1>3, <2>3, <2>5
  <1>6. QED
    <2>1. CASE barred' = {} /\ stored' = stored /\ (log' = log \/ backend = "jsonl")
      BY <1>1, <1>3, <2>1
    <2>2. CASE backend = "store" /\ log' = <<>> /\ stored' = FALSE /\ UNCHANGED <<tables, barred>>
      BY <1>1, <1>3, <2>2, ShutOutPolicy
    <2>3. CASE UNCHANGED <<log, stored, barred>> /\ tables'.users = tables.users
      BY <1>1, <1>3, <2>3
    <2>4. QED
      BY <1>4, <1>5, <2>1, <2>2, <2>3, StepAccounts

LEMMA PassingJoin ==
  ASSUME NEW u \in Seq(Steps), NEW v \in Seq(Steps), NEW out, Passing(u, out), Passing(v, out)
  PROVE  Passing(u \o v, out)
  <1>1. Len(u) \in Nat /\ Len(v) \in Nat /\ Len(u \o v) = Len(u) + Len(v)
    OBVIOUS
  <1>2. \A i \in 1..(Len(u) + Len(v)) : \/ i \in 1..Len(u) /\ (u \o v)[i] = u[i]
                                        \/ i - Len(u) \in 1..Len(v) /\ (u \o v)[i] = v[i - Len(u)]
    OBVIOUS
  <1>3. QED
    BY <1>1, <1>2 DEF Passing

LEMMA PassingTail ==
  ASSUME NEW u \in Seq(Steps), u # <<>>, NEW out, Passing(u, out)
  PROVE  Tail(u) \in Seq(Steps) /\ Passing(Tail(u), out)
  <1>1. Tail(u) \in Seq(Steps) /\ \A i \in 1..Len(Tail(u)) : i + 1 \in 1..Len(u) /\ Tail(u)[i] = u[i + 1]
    BY StepsOf
  <1>2. QED
    BY <1>1 DEF Passing

LEMMA PassingPersist ==
  ASSUME NEW x, NEW out, x.kind = "user" /\ x.active => x.email \notin out
  PROVE  Passing(Persist(x), out)
  <1>1. \/ Persist(x) = <<ApplyEntry(x)>>
        \/ Persist(x) = <<AppendEntry(x), ApplyEntry(x)>>
    BY DEF Persist
  <1>2. \A i \in 1..Len(Persist(x)) : Persist(x)[i].x = x
    <2>1. ApplyEntry(x).x = x /\ AppendEntry(x).x = x
      BY DEF ApplyEntry, AppendEntry
    <2> DEFINE a == AppendEntry(x)
               b == ApplyEntry(x)
    <2> HIDE DEF a, b
    <2>2. Len(<<b>>) = 1 /\ Len(<<a, b>>) = 2 /\ \A i \in 1..2 : i = 1 \/ i = 2
      OBVIOUS
    <2>3. <<b>>[1] = b /\ <<a, b>>[1] = a /\ <<a, b>>[2] = b /\ \A i \in 1..1 : i = 1
      OBVIOUS
    <2>4. Persist(x) = <<b>> \/ Persist(x) = <<a, b>>
      BY <1>1 DEF a, b
    <2>5. a.x = x /\ b.x = x
      BY <2>1 DEF a, b
    <2>6. QED
      BY <2>2, <2>3, <2>4, <2>5
  <1>3. QED
    BY <1>2 DEF Passing, Activates

\* A login that is let in writes the account back as it is, and maybe a role.
LEMMA PassingLogin ==
  ASSUME NEW r, Called(r), Knows(r), r.op = "login", NEW out
  PROVE  /\ login_known(r.user.email, r.user.role) \in Seq(Steps)
         /\ Passing(login_known(r.user.email, r.user.role), out)
  <1> DEFINE u == <<Do("cache_session"), Do("record_user"), Do("record_session"), Do("seed")>>
             x == About("top-admin", r.user.email)
             v == IF r.user.role = "top" THEN Persist(x) ELSE <<>>
  <1>1. login_known(r.user.email, r.user.role) = u \o v
    BY DEF login_known, set_top_admin
  <1>2. u \in Seq(Steps) /\ Passing(u, out)
    <2> DEFINE s1 == Do("cache_session")
               s2 == Do("record_user")
               s3 == Do("record_session")
               s4 == Do("seed")
    <2>1. \A s \in {s1, s2, s3, s4} : s \in Steps /\ ~Activates(s)
      BY DEF Do, Steps, Plain, Activates
    <2>2. u = <<s1, s2, s3, s4>>
      OBVIOUS
    <2> HIDE DEF u, s1, s2, s3, s4
    <2>3. u \in Seq(Steps) /\ Len(u) = 4 /\ u[1] = s1 /\ u[2] = s2 /\ u[3] = s3 /\ u[4] = s4
      BY <2>1, <2>2
    <2>4. \A i \in 1..4 : i = 1 \/ i = 2 \/ i = 3 \/ i = 4
      OBVIOUS
    <2>5. QED
      BY <2>1, <2>3, <2>4 DEF Passing
  <1> HIDE DEF u
  <1>3. r.user.role = "top" => x \in Entries /\ Writes(r, x) /\ x.kind # "user"
    BY DEF About, Entries, Writes, Knows, Users
  <1>4. v \in Seq(Steps) /\ Passing(v, out)
    <2> HIDE DEF x
    <2>1. r.user.role = "top" => Persist(x) \in Seq(Steps) /\ Passing(Persist(x), out)
      BY <1>3, SoundPersist, PassingPersist
    <2>2. <<>> \in Seq(Steps) /\ Passing(<<>>, out)
      BY DEF Passing
    <2>3. QED
      BY <2>1, <2>2
  <1> HIDE DEF v
  <1>5. u \o v \in Seq(Steps) /\ Passing(u \o v, out)
    BY <1>2, <1>4, PassingJoin
  <1>6. QED
    BY <1>1, <1>5

\* The steps of a login.
LoginStep(p) ==
    \/ Allowed(p) \/ LoginRole(p) \/ LoginActive(p) \/ CacheSession(p)
    \/ RecordUser(p) \/ RecordSession(p) \/ Seed(p) \/ AppendStep(p) \/ ApplyStep(p)

LEMMA StepOfLogin ==
  ASSUME RequestsInv, NEW p \in Slots, Step(p), req[p].op = "login"
  PROVE  LoginStep(p)
  <1>1. Busy(p)
    BY StepKeeps
  <1>2. Head(req[p].todo).do \in LoginSteps \union {"append", "apply"}
    <2>1. Fits(backend, req[p], Head(req[p].todo))
      BY <1>1, InProgressFields DEF RequestsInv
    <2>2. QED
      BY <2>1 DEF Fits
  <1>3. ~Exists(p) /\ ~OwnsKey(p) /\ ~OwnsShare(p) /\ ~Lookup(p) /\ ~ConfirmSession(p) /\ ~ConfirmKey(p)
    BY <1>2 DEF Exists, OwnsKey, OwnsShare, Lookup, ConfirmSession, ConfirmKey, At, LoginSteps
  <1>4. ~revoke_share_by_id(p) /\ ~update_share_paths(p) /\ ~delete_shares_under(p)
    BY <1>2 DEF revoke_share_by_id, update_share_paths, delete_shares_under, At, LoginSteps
  <1>5. ~drop_sessions(p) /\ ~delete_rows(p) /\ ~drop_keys(p) /\ ~delete_session(p) /\ ~delete_row(p)
    BY <1>2 DEF drop_sessions, delete_rows, drop_keys, delete_session, delete_row, At, LoginSteps
  <1>6. ~CacheKey(p) /\ ~DropKey(p) /\ ~Label(p) /\ ~RemoveTree(p) /\ ~factory_reset_state(p) /\ ~factory_reset(p)
    BY <1>2 DEF CacheKey, DropKey, Label, RemoveTree, factory_reset_state, factory_reset, At, LoginSteps
  <1>7. QED
    BY <1>3, <1>4, <1>5, <1>6 DEF Step, LoginStep

\* The steps a login goes on with.
LEMMA LoginGoesOn ==
  ASSUME TypeOK, RequestsInv, NEW p \in Slots, Step(p), req[p].op = "login", req'[p] # Nothing
  PROVE  LET r == req[p]
         IN  \/ Head(r.todo).do # "record_user" /\ Head(r.todo).do # "is_active" /\ req'[p].todo = Tail(r.todo)
             \/ /\ Head(r.todo).do = "record_user" /\ RecordUser(p)
                /\ req'[p].todo = Persist(UserEntry(r.user.email, tables.users[r.user.email] # "inactive"))
                                   \o Tail(r.todo)
             \/ /\ Head(r.todo).do = "is_active" /\ LoginActive(p)
                /\ req'[p].todo = login_known(r.user.email, r.user.role) \o Tail(r.todo)
  <1> DEFINE r == req[p]
  <1>1. Busy(p) /\ InProgress(backend, r) /\ DOMAIN req = Slots
    BY StepKeeps DEF RequestsInv
  <1>2. Called(r) /\ Tail(r.todo) \in Seq(Steps)
    BY <1>1, InProgressFields, StepsOf
  <1>3. LoginStep(p)
    BY StepOfLogin
  <1>4. \A steps : Then(p, steps) => req'[p].todo = steps \o Tail(r.todo)
    BY <1>1, ThenSame
  <1>5. Advance(p) => req'[p].todo = Tail(r.todo)
    BY <1>2, <1>4, NothingJoined DEF Advance
  <1>6. ~Refuse(p)
    BY <1>1, RefuseMoves
  <1>7. CASE LoginRole(p)
    <2> DEFINE user == [NoUser EXCEPT !.email = r.arg, !.role = login_role(r.arg)]
               q == [[r EXCEPT !.todo = Tail(r.todo)] EXCEPT !.user = user]
    <2>1. Goes(p, q) /\ Head(r.todo).do = "login_role"
      BY <1>7 DEF LoginRole, Rest, At
    <2> DEFINE todo == Tail(r.todo)
    <2>2. q = With(r, todo, user, r.cached) /\ r.cached \in BOOLEAN
      <3> HIDE DEF user
      <3>1. QED
        BY <1>2, ExceptWith
    <2> HIDE DEF user, q
    <2>3. q.todo = todo
      BY <1>2, <2>2, WithFields
    <2>4. req'[p] = q
      BY <1>1, <2>1 DEF Goes
    <2>5. QED
      BY <2>1, <2>3, <2>4
  <1>8. CASE RecordUser(p)
    BY <1>4, <1>8 DEF RecordUser, At, Who
  <1>9. CASE LoginActive(p)
    BY <1>4, <1>6, <1>9 DEF LoginActive, At, Who
  <1>10. CASE Allowed(p) \/ CacheSession(p) \/ RecordSession(p) \/ Seed(p) \/ AppendStep(p) \/ ApplyStep(p)
    <2>1. Advance(p) /\ Head(r.todo).do \notin {"record_user", "is_active"}
      BY <1>6, <1>10 DEF Allowed, CacheSession, RecordSession, Seed, AppendStep, ApplyStep, Pass, At
    <2>2. QED
      BY <1>5, <2>1
  <1>11. QED
    BY <1>3, <1>7, <1>8, <1>9, <1>10 DEF LoginStep

\* The requests behind a log never write a barred account back as active.
LEMMA PassingStays ==
  ASSUME TypeOK, RequestsInv, BarredInv, NEW p \in Slots, Step(p), backend # "pg",
         NEW q \in Slots, Busy(q)'
  PROVE  Passing(req'[q].todo, barred')
  <1>1. /\ Busy(p) /\ InProgress(backend, req[p])
        /\ \A w \in Slots : w # p => req'[w] = req[w]
        /\ \/ req'[p] = Nothing
           \/ InProgress(backend, req'[p]) /\ req'[p].op = req[p].op /\ req'[p].alone = req[p].alone
        /\ \A w \in Slots : w # p /\ Busy(w) => ~req[p].alone /\ ~req[w].alone
    BY StepShape
  <1>2. req'[q] # Nothing
    BY DEF Busy, Idle
  <1>3. barred' \subseteq barred \/ (ApplyStep(p) /\ req[p].alone /\ Arg(p).kind = "user-deactivate")
    <2>1. CASE AppendStep(p)
      BY <2>1 DEF AppendStep
    <2>2. CASE ApplyStep(p)
      BY <2>2 DEF ApplyStep
    <2>3. QED
      BY <2>1, <2>2, StepAccounts
  <1>4. CASE q # p
    <2>1. Busy(q) /\ req'[q] = req[q] /\ ~req[p].alone
      BY <1>1, <1>2, <1>4 DEF Busy, Idle
    <2>2. Passing(req[q].todo, barred)
      BY <2>1 DEF BarredInv, Kept
    <2>3. QED
      BY <1>3, <2>1, <2>2 DEF Passing
  <1>5. CASE q = p /\ req[p].op # "login"
    <2>1. InProgress(backend, req'[p]) /\ req'[p].op # "login"
      BY <1>1, <1>2, <1>5
    <2> DEFINE r == req'[p]
    <2> HIDE DEF r
    <2>2. ASSUME NEW i \in 1..Len(r.todo)
          PROVE  ~Activates(r.todo[i])
      <3>1. Fits(backend, r, r.todo[i]) /\ r.op # "login"
        BY <2>1, <2>2 DEF InProgress, r
      <3>2. QED
        BY <3>1 DEF Fits, Writes, Activates
    <2>3. QED
      BY <1>5, <2>2 DEF Passing, r
  <1>6. CASE q = p /\ req[p].op = "login"
    <2> DEFINE r == req[p]
               e == r.user.email
               x == UserEntry(e, tables.users[e] # "inactive")
    <2>1. Passing(r.todo, barred) /\ r.todo \in Seq(Steps) /\ r.todo # <<>> /\ Called(r)
      BY <1>1, InProgressFields DEF BarredInv, Kept
    <2>2. barred' \subseteq barred
      <3>1. ApplyStep(p) => Arg(p).kind # "user-deactivate"
        BY <1>6, EntryArg DEF ApplyStep, Writes
      <3>2. QED
        BY <1>3, <3>1
    <2>3. Tail(r.todo) \in Seq(Steps) /\ Passing(Tail(r.todo), barred)
      BY <2>1, PassingTail
    <2>4. CASE req'[p].todo = Tail(r.todo)
      BY <1>6, <2>2, <2>3, <2>4 DEF Passing
    <2>5. CASE /\ Head(r.todo).do = "record_user"
               /\ req'[p].todo = Persist(x) \o Tail(r.todo)
      <3>1. Knows(r)
        BY <1>1, <2>5, InProgressFields
      <3>2. e \in Emails
        BY <3>1 DEF Knows, Users
      <3>3. x \in Entries /\ x.kind = "user" /\ x.email = e /\ (x.active <=> tables.users[e] # "inactive")
        BY <3>2 DEF UserEntry, Entries
      <3> HIDE DEF x
      <3>4. Writes(r, x)
        BY <1>6, <3>3 DEF Writes
      <3>5. x.active => x.email \notin barred
        BY <3>3 DEF BarredInv
      <3>6. Persist(x) \in Seq(Steps) /\ Passing(Persist(x), barred)
        BY <3>3, <3>4, <3>5, SoundPersist, PassingPersist
      <3>7. Passing(req'[p].todo, barred)
        BY <2>3, <2>5, <3>6, PassingJoin
      <3>8. QED
        BY <1>6, <2>2, <3>7 DEF Passing
    <2>6. CASE /\ Head(r.todo).do = "is_active"
               /\ req'[p].todo = login_known(e, r.user.role) \o Tail(r.todo)
      <3>1. Knows(r)
        BY <1>1, <2>6, InProgressFields
      <3>2. login_known(e, r.user.role) \in Seq(Steps) /\ Passing(login_known(e, r.user.role), barred)
        BY <1>6, <2>1, <3>1, PassingLogin
      <3>3. Passing(req'[p].todo, barred)
        BY <2>3, <2>6, <3>2, PassingJoin
      <3>4. QED
        BY <1>6, <2>2, <3>3 DEF Passing
    <2>7. QED
      BY <1>2, <1>6, <2>4, <2>5, <2>6, LoginGoesOn
  <1>7. QED
    BY <1>4, <1>5, <1>6

\* The user of a request, after the lookup.
LEMMA LookupFinds ==
  ASSUME RequestsInv, NEW p \in Slots, Lookup(p), req'[p] # Nothing
  PROVE  /\ Busy(p) /\ Called(req[p]) /\ req[p].todo = Identified /\ req'[p].todo = <<Do("confirm")>>
         /\ req'[p].op = req[p].op /\ req'[p].cred = req[p].cred /\ req'[p].arg = req[p].arg
         /\ \/ /\ req[p].cred \in Sessions /\ session_cache[req[p].cred] # NoUser
               /\ req'[p].user = session_cache[req[p].cred] /\ req'[p].cached
            \/ /\ req[p].cred \in Sessions /\ rows[req[p].cred] # Nobody
               /\ req'[p].user = [NoUser EXCEPT !.email = rows[req[p].cred]] /\ ~req'[p].cached
            \/ /\ req[p].cred \notin Sessions /\ api_key_cache[req[p].cred] # NoUser
               /\ req'[p].user = api_key_cache[req[p].cred] /\ req'[p].cached
            \/ /\ req[p].cred \notin Sessions /\ Usable(req[p].cred)
               /\ req'[p].user = Row(req[p].cred) /\ ~req'[p].cached
  <1> DEFINE r == req[p]
             c == r.cred
             found(user, cached) == [Rest(p) EXCEPT !.user = user, !.cached = cached]
  <1>1. Busy(p) /\ Head(r.todo).do = "lookup" /\ DOMAIN req = Slots
    BY DEF Lookup, At, RequestsInv
  <1>2. Called(r) /\ r.todo = Identified
    BY <1>1 DEF RequestsInv, InProgress, Entered
  <1>3. Tail(r.todo) = <<Do("confirm")>>
    <2> DEFINE s == Do("lookup")
               t == Do("confirm")
    <2>1. r.todo = <<s, t>>
      BY <1>2 DEF Identified
    <2> HIDE DEF s, t
    <2>2. Tail(<<s, t>>) = <<t>>
      OBVIOUS
    <2>3. QED
      BY <2>1, <2>2 DEF t
  <1>4. ASSUME NEW user, NEW cached \in BOOLEAN, Goes(p, found(user, cached))
        PROVE  /\ req'[p].todo = Tail(r.todo) /\ req'[p].user = user /\ req'[p].cached = cached
               /\ req'[p].op = r.op /\ req'[p].cred = c /\ req'[p].arg = r.arg
    <2> DEFINE q == found(user, cached)
               todo == Tail(r.todo)
    <2>1. q = [[r EXCEPT !.todo = todo] EXCEPT !.user = user, !.cached = cached]
      BY DEF Rest
    <2>2. req' = [req EXCEPT ![p] = IF q.todo = <<>> THEN Nothing ELSE q]
      BY <1>4 DEF Goes
    <2> HIDE DEF q
    <2>3. q = With(r, todo, user, cached)
      BY <1>2, <2>1, FoundWith
    <2> HIDE DEF todo, r
    <2>4. /\ q.op = r.op /\ q.alone = r.alone /\ q.cred = r.cred /\ q.arg = r.arg
          /\ q.todo = todo /\ q.user = user /\ q.cached = cached
      BY <1>2, <2>3, WithFields
    <2>5. req'[p] = q
      BY <1>1, <2>2
    <2>6. QED
      BY <2>4, <2>5 DEF todo
  <1>5. TRUE \in BOOLEAN /\ FALSE \in BOOLEAN
    OBVIOUS
  <1>6. ~Refuse(p)
    BY <1>1, RefuseMoves
  <1> DEFINE yes == TRUE
             no == FALSE
  <1>7. \/ c \in Sessions /\ session_cache[c] # NoUser /\ Goes(p, found(session_cache[c], yes))
        \/ c \in Sessions /\ rows[c] # Nobody /\ Goes(p, found([NoUser EXCEPT !.email = rows[c]], no))
        \/ c \notin Sessions /\ api_key_cache[c] # NoUser /\ Goes(p, found(api_key_cache[c], yes))
        \/ c \notin Sessions /\ Usable(c) /\ Goes(p, found(Row(c), no))
    BY <1>6 DEF Lookup
  <1>8. yes \in BOOLEAN /\ no \in BOOLEAN /\ yes /\ ~no
    OBVIOUS
  <1> HIDE DEF yes, no, found
  <1>9. QED
    BY <1>1, <1>2, <1>3, <1>4, <1>7, <1>8

\* Whoever has used a key that was not cached was not barred since the request began.
LEMMA KeyUserStays ==
  ASSUME TypeOK, RequestsInv, BarredInv, NEW p \in Slots, Step(p),
         NEW q \in Slots, Busy(q)',
         req'[q].cred \notin Sessions, ~req'[q].cached, Head(req'[q].todo).do # "lookup"
  PROVE  req'[q].user.email \notin since'[q]
  <1>1. /\ Busy(p) /\ InProgress(backend, req[p]) /\ DOMAIN req = Slots
        /\ \A w \in Slots : w # p => req'[w] = req[w]
        /\ req'[p] = Nothing \/ (InProgress(backend, req'[p]) /\ req'[p].op = req[p].op)
    <2>1. DOMAIN req = Slots
      BY DEF RequestsInv
    <2>2. QED
      BY <2>1, StepShape
  <1>2. req'[q] # Nothing
    BY DEF Busy, Idle
  <1>3. since'[q] \subseteq since[q] /\ since'[q] \subseteq barred'
    <2>1. since' = [w \in Slots |-> IF req'[w] = Nothing THEN {} ELSE since[w] \intersect barred']
      BY StepKeeps
    <2>2. QED
      BY <2>1
  <1>4. CASE q # p
    <2>1. Busy(q) /\ req'[q] = req[q]
      BY <1>1, <1>2, <1>4 DEF Busy, Idle
    <2>2. QED
      BY <1>3, <2>1 DEF BarredInv, Kept
  <1>5. ASSUME q = p, req[p].cred \notin Sessions, ~req[p].cached, Head(req[p].todo).do # "lookup",
               req'[p].user = req[p].user
        PROVE  req'[q].user.email \notin since'[q]
    BY <1>1, <1>3, <1>5 DEF BarredInv, Kept
  <1>6. CASE q = p /\ ServedStep(p)
    BY <1>2, <1>5, <1>6, ServedSame DEF SameRequest, Opening
  <1>7. CASE q = p /\ (Allowed(p) \/ LoginRole(p) \/ LoginActive(p))
    <2>1. Head(req[p].todo).do \in LoginSteps
      BY <1>7 DEF Allowed, LoginRole, LoginActive, At, LoginSteps
    <2>2. req[p].op = "login"
      BY <1>1, <2>1, InProgressFields DEF Fits
    <2>3. Called(req'[p]) /\ req'[p].op = "login"
      BY <1>1, <1>2, <1>7, <2>2 DEF InProgress
    <2>4. QED
      BY <1>7, <2>3 DEF Called
  <1>8. CASE q = p /\ ConfirmSession(p)
    <2>1. req[p].cred \in Sessions
      BY <1>8 DEF ConfirmSession
    <2>2. req'[p].cred = req[p].cred
      <3>1. Refuse(p) \/ \E user : Serve(p, user)
        BY <1>8 DEF ConfirmSession
      <3>2. ~Refuse(p)
        BY <1>1, <1>2, <1>8, RefuseMoves
      <3>3. QED
        BY <1>1, <1>2, <1>8, <3>1, <3>2, ServeSame
    <2>3. QED
      BY <1>8, <2>1, <2>2
  <1>9. CASE q = p /\ ConfirmKey(p)
    <2>1. Serve(p, req[p].user)
      <3>1. ~Refuse(p)
        BY <1>1, <1>2, <1>9, RefuseMoves
      <3>2. QED
        BY <1>9, <3>1 DEF ConfirmKey
    <2>2. /\ req'[p].cred = req[p].cred /\ req'[p].user = req[p].user /\ req'[p].cached = req[p].cached
      BY <1>1, <1>2, <1>9, <2>1, ServeSame
    <2>3. Head(req[p].todo).do # "lookup"
      BY <1>9 DEF ConfirmKey, At
    <2>4. QED
      BY <1>5, <1>9, <2>2, <2>3
  <1>10. CASE q = p /\ Lookup(p)
    <2>1. /\ Usable(req[p].cred) /\ req'[p].user = Row(req[p].cred) /\ req[p].cred \notin Sessions
          /\ Called(req[p])
      BY <1>2, <1>10, LookupFinds
    <2> DEFINE k == req[p].cred
    <2>2. k \in Keys /\ tables.keys[k] # Nobody
      BY <2>1 DEF Called, Usable
    <2>3. tables.users[tables.keys[k].email] # "inactive"
      BY <2>1 DEF Usable, Active, IsUser
    <2>4. req'[p].user.email = tables.keys[k].email
      BY <2>1 DEF Row
    <2>5. barred' = barred
      BY <1>10 DEF Lookup
    <2>6. QED
      BY <1>3, <1>10, <2>3, <2>4, <2>5 DEF BarredInv
  <1>11. QED
    BY <1>4, <1>6, <1>7, <1>8, <1>9, <1>10 DEF Step, ServedStep

\* A deactivation on its own is in the log, with nothing after it, before it is applied.
LEMMA LoggedFirst ==
  ASSUME TypeOK, RequestsInv, BarredInv, NEW p \in Slots, Step(p), backend # "pg",
         NEW q \in Slots, Busy(q)', req'[q].alone, Head(req'[q].todo).do = "apply",
         Head(req'[q].todo).x.kind = "user-deactivate"
  PROVE  ShutOut(log', Head(req'[q].todo).x.email)
  <1> DEFINE r == req[p]
             x == Head(req'[q].todo).x
  <1>1. /\ Busy(p) /\ InProgress(backend, r) /\ DOMAIN req = Slots
        /\ \A w \in Slots : w # p => req'[w] = req[w]
        /\ \/ req'[p] = Nothing
           \/ InProgress(backend, req'[p]) /\ req'[p].op = req[p].op /\ req'[p].alone = req[p].alone
        /\ \A w \in Slots : w # p /\ Busy(w) => ~req[p].alone /\ ~req[w].alone
    BY StepShape DEF RequestsInv
  <1>2. req'[q] # Nothing
    BY DEF Busy, Idle
  <1>3. q = p
    <2> SUFFICES ASSUME q # p PROVE FALSE
      OBVIOUS
    <2>1. Busy(q) /\ req'[q] = req[q]
      BY <1>1, <1>2 DEF Busy, Idle
    <2>2. QED
      BY <1>1, <2>1
  <1>4. InProgress(backend, req'[p])
    BY <1>1, <1>2, <1>3
  <1>5. r.op = "deactivate" /\ Called(r) /\ r.todo \in Seq(Steps) /\ r.todo # <<>>
    <2>1. Fits(backend, req'[p], Head(req'[p].todo))
      BY <1>4, InProgressFields
    <2>2. Writes(req'[p], x)
      BY <1>3, <2>1 DEF Fits
    <2>3. req'[p].op = "deactivate"
      BY <2>2 DEF Writes
    <2>4. QED
      BY <1>1, <1>2, <1>3, <2>3, InProgressFields
  <1>6. Fits(backend, r, Head(r.todo)) /\ Head(r.todo).do \in Straight
    BY <1>1, <1>5, InProgressFields DEF Fits, AccountOps
  <1>7. ~Refuse(p)
    BY <1>1, <1>2, <1>3, RefuseMoves
  <1>8. ASSUME Advance(p)
        PROVE  Head(r.todo) = AppendEntry(x)
    <2>1. req'[p].todo = <<>> \o Tail(r.todo)
      BY <1>1, <1>2, <1>3, <1>8, ThenSame DEF Advance
    <2>2. Tail(r.todo) \in Seq(Steps)
      BY <1>5, StepsOf
    <2>3. req'[p].todo = Tail(r.todo)
      BY <2>1, <2>2, NothingJoined
    <2>4. req'[p].todo # <<>>
      BY <1>4 DEF InProgress
    <2>5. /\ Head(Tail(r.todo)) = r.todo[2] /\ 2 \in 1..Len(r.todo) /\ Head(r.todo) = r.todo[1]
      BY <1>5, <2>2, <2>3, <2>4
    <2>6. Follows(backend, r, r.todo[1], r.todo[2])
      BY <1>1, <2>5 DEF InProgress
    <2>7. QED
      BY <1>3, <2>3, <2>5, <2>6 DEF Follows
  <1>9. CASE AppendStep(p)
    <2>1. Head(r.todo) = AppendEntry(x)
      BY <1>8, <1>9 DEF AppendStep
    <2>2. Arg(p) = x /\ Arg(p) \in Entries
      BY <1>9, <2>1, EntryArg DEF AppendStep, Arg, AppendEntry
    <2>3. log' = IF stored THEN Append(log, x) ELSE log
      BY <1>9, <2>2 DEF AppendStep
    <2>4. Bars(x, x.email)
      BY DEF Bars
    <2>5. log \in Seq(Entries) /\ (~stored => log = <<>>)
      BY DEF TypeOK, BarredInv
    <2> HIDE DEF x
    <2>6. ShutOut(log', x.email)
      BY <2>2, <2>3, <2>4, <2>5, ShutOutAppend, ShutOutPolicy
    <2>7. QED
      BY <2>6 DEF x
  <1>10. CASE ApplyStep(p) \/ Exists(p) \/ drop_sessions(p) \/ delete_rows(p) \/ drop_keys(p)
    <2>1. Advance(p) /\ Head(r.todo).do # "append"
      BY <1>7, <1>10 DEF ApplyStep, Exists, drop_sessions, delete_rows, drop_keys, Pass, At
    <2>2. QED
      BY <1>8, <2>1 DEF AppendEntry
  <1>11. CASE ConfirmSession(p) \/ ConfirmKey(p)
    <2>1. PICK user : Serve(p, user)
      BY <1>7, <1>11 DEF ConfirmSession, ConfirmKey
    <2>2. PICK w : w.op = r.op /\ w.arg = r.arg /\ req'[p].todo = Handler(w).todo
      BY <1>1, <1>2, <1>3, <2>1, ServeSame
    <2>3. Handler(w).todo = deactivate_user(w.arg)
      BY <1>5, <2>2 DEF Handler, Serves, TopHandler, UserOps
    <2>4. w.arg \in Emails
      BY <1>5, <2>2 DEF Called, AccountOps
    <2> DEFINE y == About("user-deactivate", w.arg)
               rest == revoke_user_access(w.arg)
    <2>5. deactivate_user(w.arg) = <<AppendEntry(y), ApplyEntry(y)>> \o rest
      BY DEF deactivate_user, Persist
    <2>6. Head(<<AppendEntry(y), ApplyEntry(y)>> \o rest).do = "append"
      <3>1. AppendEntry(y) \in {AppendEntry(y), ApplyEntry(y)} /\ AppendEntry(y).do = "append"
        BY DEF AppendEntry
      <3> DEFINE a == AppendEntry(y)
                 b == ApplyEntry(y)
                 s1 == On("drop_sessions", About("none", w.arg))
                 s2 == On("delete_rows", About("none", w.arg))
                 s3 == On("drop_keys", About("none", w.arg))
      <3>2. rest = <<s1, s2, s3>>
        BY DEF revoke_user_access
      <3> HIDE DEF a, b, s1, s2, s3, rest
      <3> DEFINE S == {a, b, s1, s2, s3}
      <3>3. <<a, b>> \in Seq(S) /\ rest \in Seq(S) /\ <<a, b>> # <<>> /\ <<a, b>>[1] = a
        BY <3>2
      <3> HIDE DEF S
      <3>4. <<a, b>> \o rest \in Seq(S) /\ <<a, b>> \o rest # <<>> /\ (<<a, b>> \o rest)[1] = a
        BY <3>3, JoinEnds
      <3>5. Head(<<a, b>> \o rest) = a
        BY <3>4
      <3>6. QED
        BY <3>1, <3>5 DEF a, b
    <2>7. QED
      BY <1>3, <2>2, <2>3, <2>5, <2>6
  <1>12. CASE Lookup(p)
    <2>1. req'[p].todo = <<Do("confirm")>>
      BY <1>2, <1>3, <1>12, LookupFinds
    <2>2. Head(<<Do("confirm")>>).do = "confirm"
      BY DEF Do
    <2>3. QED
      BY <1>3, <2>1, <2>2
  <1>13. QED
    <2>1. ~revoke_share_by_id(p) /\ ~update_share_paths(p) /\ ~delete_shares_under(p) /\ ~OwnsShare(p)
      BY <1>6 DEF revoke_share_by_id, update_share_paths, delete_shares_under, OwnsShare, At, Straight, Cleanup
    <2>2. ~delete_session(p) /\ ~delete_row(p) /\ ~RemoveTree(p) /\ ~factory_reset_state(p) /\ ~factory_reset(p)
      BY <1>6 DEF delete_session, delete_row, RemoveTree, factory_reset_state, factory_reset, At, Straight, Cleanup
    <2>3. ~CacheKey(p) /\ ~DropKey(p) /\ ~Label(p) /\ ~OwnsKey(p)
      BY <1>5, <1>6 DEF CacheKey, DropKey, Label, OwnsKey, At, Fits
    <2>4. ~Allowed(p) /\ ~LoginRole(p) /\ ~LoginActive(p) /\ ~CacheSession(p) /\ ~RecordUser(p)
          /\ ~RecordSession(p) /\ ~Seed(p)
      BY <1>6 DEF Allowed, LoginRole, LoginActive, CacheSession, RecordUser, RecordSession, Seed, At,
           Straight, Cleanup
    <2>5. QED
      BY <1>9, <1>10, <1>11, <1>12, <2>1, <2>2, <2>3, <2>4 DEF Step

LEMMA StepKeepsBarred ==
  ASSUME TypeOK, RequestsInv, BarredInv, NEW p \in Slots, Step(p)
  PROVE  BarredInv'
  <1>1. backend' = backend
    BY StepKeeps
  <1>2. /\ \A e \in barred' : tables'.users[e] = "inactive"
        /\ backend # "pg" => \A e \in barred' : ShutOut(log', e)
        /\ ~stored' => backend = "store" /\ log' = <<>>
        /\ \A q \in Slots : since'[q] \subseteq barred'
    BY BarredSets
  <1>3. ASSUME NEW q \in Slots, Busy(q)'
        PROVE  Kept(backend, req'[q], barred', since'[q], log')
    <2>1. backend # "pg" => Passing(req'[q].todo, barred')
      BY <1>3, PassingStays
    <2>2. req'[q].cred \notin Sessions /\ ~req'[q].cached /\ Head(req'[q].todo).do # "lookup" =>
              req'[q].user.email \notin since'[q]
      BY <1>3, KeyUserStays
    <2>3. backend # "pg" /\ req'[q].alone /\ Head(req'[q].todo).do = "apply"
            /\ Head(req'[q].todo).x.kind = "user-deactivate" =>
              ShutOut(log', Head(req'[q].todo).x.email)
      BY <1>3, LoggedFirst
    <2>4. QED
      BY <2>1, <2>2, <2>3 DEF Kept
  <1> HIDE DEF Busy
  <1>4. QED
    BY <1>1, <1>2, <1>3 DEF BarredInv

LEMMA BeginKeepsBarred ==
  ASSUME TypeOK, RequestsInv, BarredInv, NEW p \in Slots, Begin(p)
  PROVE  BarredInv'
  <1>1. /\ UNCHANGED <<backend, tables, log, stored, barred>>
        /\ since' = [since EXCEPT ![p] = barred]
    BY DEF Begin, store
  <1>2. /\ ~Busy(p)
        /\ \A q \in Slots : q # p /\ Busy(q) =>
              SameRequest(req'[q], req[q]) /\ req'[q].todo = req[q].todo /\ ~req'[q].alone
        /\ \A q \in Slots : Busy(q)' => q = p \/ Busy(q)
        /\ Called(req'[p]) /\ OnItsWay(req'[p])
        /\ req'[p].todo = Identified \/ (req'[p].todo = LoggingIn /\ req'[p].op = "login")
    BY BeginShape
  <1>3. since \in [Slots -> SUBSET Emails]
    BY DEF TypeOK
  <1>4. \A q \in Slots : since'[q] \subseteq barred' /\ (q # p => since'[q] = since[q])
    BY <1>1, <1>3 DEF BarredInv
  <1>5. ASSUME NEW q \in Slots, Busy(q)'
        PROVE  Kept(backend, req'[q], barred, since'[q], log)
    <2>1. CASE q # p
      <3>1. Busy(q) /\ Kept(backend, req[q], barred, since[q], log)
        BY <1>2, <1>5, <2>1 DEF BarredInv
      <3>2. SameRequest(req'[q], req[q]) /\ req'[q].todo = req[q].todo /\ ~req'[q].alone
        BY <1>2, <2>1, <3>1
      <3>3. QED
        BY <1>4, <2>1, <3>1, <3>2 DEF Kept, SameRequest
    <2>2. CASE q = p
      <3> DEFINE r == req'[p]
      <3>1. \A step : Do(step).do = step /\ (step \notin {"append", "apply"} => ~Activates(Do(step)))
        BY DEF Do, Activates
      <3>2. CASE r.todo = Identified
        <4> DEFINE a == Do("lookup")
                   b == Do("confirm")
        <4>1. r.todo = <<a, b>> /\ a.do = "lookup" /\ ~Activates(a) /\ ~Activates(b)
          BY <3>1, <3>2 DEF Identified
        <4> HIDE DEF a, b, r
        <4>2. Len(<<a, b>>) = 2 /\ <<a, b>>[1] = a /\ <<a, b>>[2] = b /\ Head(<<a, b>>) = a
              /\ \A i \in 1..2 : i = 1 \/ i = 2
          OBVIOUS
        <4>3. Passing(r.todo, barred) /\ Head(r.todo).do = "lookup"
          BY <4>1, <4>2 DEF Passing
        <4>4. QED
          BY <2>2, <4>3 DEF Kept, r
      <3>3. CASE r.todo = LoggingIn /\ r.op = "login"
        <4> DEFINE a == Do("allowed")
                   b == Do("login_role")
                   c == Do("is_active")
        <4>1. r.todo = <<a, b, c>> /\ a.do = "allowed" /\ ~Activates(a) /\ ~Activates(b) /\ ~Activates(c)
          BY <3>1, <3>3 DEF LoggingIn
        <4>2. r.cred \in Sessions
          BY <1>2, <3>3 DEF Called
        <4> HIDE DEF a, b, c, r
        <4>3. Len(<<a, b, c>>) = 3 /\ <<a, b, c>>[1] = a /\ <<a, b, c>>[2] = b /\ <<a, b, c>>[3] = c
              /\ Head(<<a, b, c>>) = a /\ \A i \in 1..3 : i = 1 \/ i = 2 \/ i = 3
          OBVIOUS
        <4>4. Passing(r.todo, barred) /\ Head(r.todo).do = "allowed"
          BY <4>1, <4>3 DEF Passing
        <4>5. QED
          BY <2>2, <4>2, <4>4 DEF Kept, r
      <3>4. QED
        BY <1>2, <3>2, <3>3
    <2>3. QED
      BY <2>1, <2>2
  <1>6. /\ \A e \in barred : tables.users[e] = "inactive"
        /\ backend # "pg" => \A e \in barred : ShutOut(log, e)
        /\ ~stored => backend = "store" /\ log = <<>>
    BY DEF BarredInv
  <1> HIDE DEF Busy
  <1>7. QED
    BY <1>1, <1>4, <1>5, <1>6 DEF BarredInv

LEMMA RestartKeepsBarred ==
  ASSUME TypeOK, RequestsInv, BarredInv, backend \in {"store", "jsonl", "pg"}, Restart
  PROVE  BarredInv'
  <1>1. /\ backend' = backend /\ log' = BootLog(log, stored) /\ stored'
        /\ tables' = BootTables(tables, log')
        /\ req' = [p \in Slots |-> Nothing]
        /\ barred' = {e \in barred : IsUser(tables', e)}
        /\ since' = [p \in Slots |-> {}]
    BY DEF Restart
  <1>2. tables \in Tables /\ log \in Seq(Entries) /\ barred \subseteq Emails
    BY DEF TypeOK
  <1>3. log' \in Seq(Entries) /\ tables' \in Tables
    BY <1>1, <1>2, BootTyped
  <1>4. backend # "pg" => \A e \in barred : ShutOut(log', e)
    <2>1. \A e : ShutOut(SeedEntries, e)
      BY SeedsTyped, ShutOutPolicy
    <2>2. QED
      BY <1>1, <2>1 DEF BootLog, BarredInv
  <1>5. ASSUME NEW e \in barred'
        PROVE  tables'.users[e] = "inactive"
    <2>1. e \in barred /\ e \in Emails /\ tables'.users[e] # "none"
      BY <1>1, <1>2 DEF IsUser
    <2>2. CASE backend = "pg"
      <3>1. tables'.users = tables.users
        BY <1>1, <1>2, <2>2 DEF BootTables, Tables
      <3>2. QED
        BY <2>1, <3>1 DEF BarredInv
    <2>3. CASE backend # "pg"
      <3>1. tables' = replay_jsonl(log')
        BY <1>1, <2>3 DEF BootTables
      <3>2. replay_jsonl(log').users[e] # "active"
        BY <1>3, <1>4, <2>1, <2>3, ShutOutStaysOut
      <3>3. tables'.users[e] \in {"none", "active", "inactive"}
        BY <1>3, <2>1 DEF Tables
      <3>4. QED
        BY <2>1, <3>1, <3>2, <3>3
    <2>4. QED
      BY <2>2, <2>3
  <1>6. \A p \in Slots : ~Busy(p)' /\ since'[p] = {}
    BY <1>1 DEF Busy, Idle
  <1>7. barred' \subseteq barred
    BY <1>1
  <1> HIDE DEF Busy
  <1>8. QED
    BY <1>1, <1>4, <1>5, <1>6, <1>7 DEF BarredInv

LEMMA InitBarred ==
  ASSUME Init
  PROVE  BarredInv
  <1>1. barred = {} /\ stored /\ req = [p \in Slots |-> Nothing] /\ since = [p \in Slots |-> {}]
    BY DEF Init
  <1>2. \A p \in Slots : ~Busy(p) /\ since[p] = {}
    BY <1>1 DEF Busy, Idle
  <1>3. QED
    BY <1>1, <1>2 DEF BarredInv

LEMMA BarredStays ==
  ASSUME AuthInv, BarredInv, [Next]_vars
  PROVE  BarredInv'
  <1>1. TypeOK /\ RequestsInv /\ backend \in {"store", "jsonl", "pg"}
    BY DEF AuthInv
  <1>2. CASE \E p \in Slots : Begin(p)
    BY <1>1, <1>2, BeginKeepsBarred
  <1>3. CASE \E p \in Slots : Step(p)
    BY <1>1, <1>3, StepKeepsBarred
  <1>4. CASE \E s \in Sessions : Expire(s)
    BY <1>4 DEF Expire, BarredInv, caches, Busy, Idle
  <1>5. CASE Restart
    BY <1>1, <1>5, RestartKeepsBarred
  <1>6. CASE UNCHANGED vars
    BY <1>6 DEF vars, BarredInv, Busy, Idle
  <1>7. QED
    BY <1>2, <1>3, <1>4, <1>5, <1>6 DEF Next

LEMMA BarredAlways == Spec => []BarredInv
  <1>1. Init => BarredInv
    BY InitBarred
  <1>2. AuthInv /\ BarredInv /\ [Next]_vars => BarredInv'
    BY BarredStays
  <1>3. QED
    BY <1>1, <1>2, AuthAlways, PTL DEF Spec

\* Whoever is served is not one of those barred ever since the request began.
LEMMA ServedNotBarred ==
  ASSUME TypeOK, RequestsInv, BarredInv, NEW p \in Slots, Step(p), At(p, "confirm"), req'[p] # Nothing
  PROVE  req'[p].user.email \notin since[p]
  <1>1. Busy(p) /\ Head(req[p].todo).do = "confirm" /\ since[p] \subseteq barred
    BY DEF At, BarredInv
  <1>2. DOMAIN req = Slots
    BY DEF RequestsInv
  <1>3. ~Refuse(p)
    BY <1>2, RefuseMoves
  <1>4. \A user : Serve(p, user) => req'[p].user = user
    BY <1>1, ServeSame
  <1>5. Active(tables, Who(p)) => Who(p) \notin barred
    BY DEF Active, BarredInv
  <1>6. CASE ConfirmSession(p)
    <2> DEFINE e == Who(p)
               user == IF req[p].cached THEN req[p].user
                       ELSE [NoUser EXCEPT !.email = e, !.role = resolve_role(tables, e)]
    <2>1. Active(tables, e) /\ Serve(p, user)
      BY <1>3, <1>6 DEF ConfirmSession
    <2>2. user.email = e
      BY DEF NoUser, Who
    <2> HIDE DEF user
    <2>3. req'[p].user = user
      BY <1>4, <2>1
    <2>4. QED
      BY <1>1, <1>5, <2>1, <2>2, <2>3
  <1>7. CASE ConfirmKey(p)
    <2>1. Serve(p, req[p].user) /\ (req[p].cached => Active(tables, Who(p)))
      BY <1>3, <1>7 DEF ConfirmKey
    <2>2. req'[p].user.email = Who(p)
      BY <1>4, <2>1 DEF Who
    <2>3. req[p].cred \notin Sessions
      BY <1>7, AuthAssumption DEF ConfirmKey
    <2>4. ~req[p].cached => Who(p) \notin since[p]
      BY <1>1, <2>3 DEF BarredInv, Kept, Who
    <2>5. QED
      BY <1>1, <1>5, <2>1, <2>2, <2>4
  <1>8. QED
    <2>1. \A other \in {"lookup", "allowed", "login_role", "is_active"} : ~At(p, other)
      BY <1>1 DEF At
    <2>2. ~Lookup(p) /\ ~Allowed(p) /\ ~LoginRole(p) /\ ~LoginActive(p)
      BY <2>1 DEF Lookup, Allowed, LoginRole, LoginActive
    <2>3. ~ServedStep(p)
      BY <1>1, ServedSame DEF Opening
    <2>4. QED
      BY <1>6, <1>7, <2>2, <2>3 DEF Step, ServedStep

\* An account that was deactivated stays out, with any session or key, cached or not, until
\* it is activated or deleted, whatever comes in between (ConfirmSession and ConfirmKey of
\* src/auth/middleware.rs against deactivate_user, record_user, activate_user and restarts).
THEOREM BarredStayOut == Spec => DeactivatedStaysOut
  <1> DEFINE Out == \A p \in Slots : Takes(p, "confirm") =>
                        \/ req'[p] = Nothing
                        \/ req'[p].user.email \notin since[p]
  <1>1. AuthInv /\ BarredInv /\ [Next]_vars => Out
    <2> SUFFICES ASSUME AuthInv, BarredInv, [Next]_vars, NEW p \in Slots, Takes(p, "confirm"),
                        req'[p] # Nothing
                 PROVE  req'[p].user.email \notin since[p]
      OBVIOUS
    <2>1. TypeOK /\ RequestsInv
      BY DEF AuthInv
    <2>2. At(p, "confirm") /\ Busy(p) /\ req'[p].todo # req[p].todo /\ crashes' = crashes
      BY DEF Takes, At
    <2>3. ASSUME NEW q \in Slots, Begin(q)
          PROVE  FALSE
      <3>1. ~Busy(q) /\ \A w \in Slots : w # q /\ Busy(w) => req'[w].todo = req[w].todo
        BY <2>1, <2>3, BeginShape
      <3>2. QED
        BY <2>2, <3>1
    <2>4. ASSUME NEW q \in Slots, Step(q)
          PROVE  req'[p].user.email \notin since[p]
      <3>1. \A w \in Slots : w # q => req'[w] = req[w]
        BY <2>1, <2>4, StepShape
      <3>2. q = p
        BY <2>2, <3>1
      <3>3. QED
        BY <2>1, <2>2, <2>4, <3>2, ServedNotBarred
    <2>5. ~Restart
      BY DEF Restart
    <2>6. ~(\E s \in Sessions : Expire(s)) /\ ~UNCHANGED vars
      BY <2>2 DEF Expire, vars
    <2>7. QED
      BY <2>3, <2>4, <2>5, <2>6 DEF Next
  <1>2. QED
    BY <1>1, AuthAlways, BarredAlways, PTL DEF Spec, DeactivatedStaysOut

-----------------------------------------------------------------------------
(* One top administrator *)

\* Only an entry makes a top administrator.
LEMMA StepTop ==
  ASSUME TypeOK, RequestsInv, NEW p \in Slots, Step(p)
  PROVE  \/ ApplyStep(p)
         \/ tables'.top = tables.top /\ tables'.users = tables.users
         \/ tables'.top = {}
  <1>1. tables \in Tables
    BY DEF TypeOK
  <1>2. CASE \/ Lookup(p) \/ ConfirmSession(p) \/ ConfirmKey(p)
             \/ Allowed(p) \/ LoginRole(p) \/ LoginActive(p) \/ CacheSession(p)
             \/ RecordUser(p) \/ RecordSession(p) \/ Seed(p)
             \/ AppendStep(p) \/ Exists(p) \/ OwnsKey(p) \/ OwnsShare(p)
    BY <1>2 DEF Lookup, ConfirmSession, ConfirmKey, Allowed, LoginRole, LoginActive, CacheSession,
         RecordUser, RecordSession, Seed, AppendStep, Exists, OwnsKey, OwnsShare, store
  <1>3. CASE \/ drop_sessions(p) \/ delete_rows(p) \/ drop_keys(p)
             \/ delete_session(p) \/ delete_row(p) \/ CacheKey(p) \/ DropKey(p) \/ RemoveTree(p)
    BY <1>3 DEF drop_sessions, delete_rows, drop_keys, delete_session, delete_row, CacheKey, DropKey,
         RemoveTree, store
  <1>4. CASE revoke_share_by_id(p)
    BY <1>1, <1>4 DEF revoke_share_by_id, Retain, Tables
  <1>5. CASE update_share_paths(p)
    BY <1>1, <1>5 DEF update_share_paths, Tables
  <1>6. CASE delete_shares_under(p)
    BY <1>1, <1>6 DEF delete_shares_under, Retain, Tables
  <1>7. CASE Label(p)
    BY <1>1, <1>7 DEF Label, Tables
  <1>8. CASE factory_reset_state(p) \/ factory_reset(p)
    <2>1. KeptPolicy.top = {}
      BY DEF KeptPolicy, EmptyTables
    <2>2. tables' = tables \/ tables' = KeptPolicy
      BY <1>8 DEF factory_reset_state, factory_reset
    <2>3. QED
      BY <2>1, <2>2
  <1>9. QED
    BY <1>2, <1>3, <1>4, <1>5, <1>6, <1>7, <1>8 DEF Step

\* The user of a login is found out by LoginRole alone.
LEMMA LoginUserStays ==
  ASSUME TypeOK, RequestsInv, NEW p \in Slots, Step(p), req[p].op = "login", req'[p] # Nothing
  PROVE  LoginRole(p) \/ req'[p].user = req[p].user
  <1>1. LoginStep(p)
    BY StepOfLogin
  <1>2. Busy(p) /\ DOMAIN req = Slots
    BY StepKeeps DEF RequestsInv
  <1>3. ~Refuse(p)
    BY <1>2, RefuseMoves
  <1>4. \A steps : Then(p, steps) => req'[p].user = req[p].user
    BY <1>2, ThenSame DEF SameRequest
  <1>5. LoginRole(p) \/ \E steps : Then(p, steps)
    BY <1>1, <1>3 DEF LoginStep, Allowed, LoginActive, CacheSession, RecordUser, RecordSession, Seed,
         AppendStep, ApplyStep, Pass, Advance
  <1>6. QED
    BY <1>4, <1>5

LEMMA LoginRoleUser ==
  ASSUME TypeOK, RequestsInv, NEW p \in Slots, LoginRole(p), backend = "pg",
         req'[p].user.role = "top"
  PROVE  /\ req'[p].user.email \in tables.top \/ \A e \in Emails : ~IsUser(tables, e)
         /\ UNCHANGED tables
  <1> DEFINE r == req[p]
             user == [NoUser EXCEPT !.email = r.arg, !.role = login_role(r.arg)]
             q == [[r EXCEPT !.todo = Tail(r.todo)] EXCEPT !.user = user]
  <1>1. Busy(p) /\ DOMAIN req = Slots /\ Head(r.todo).do = "login_role"
    BY DEF RequestsInv, LoginRole, At
  <1>2. Called(r) /\ Entered(r, "login_role")
    BY <1>1 DEF RequestsInv, InProgress
  <1>3. Goes(p, q) /\ UNCHANGED tables
    BY DEF LoginRole, Rest, store
  <1>4. user.email = r.arg /\ user.role = login_role(r.arg)
    BY DEF NoUser
  <1>5. q.user = user /\ q.todo = Tail(r.todo)
    <2> DEFINE todo == Tail(r.todo)
    <2>1. q = With(r, todo, user, r.cached) /\ r.cached \in BOOLEAN
      <3> HIDE DEF user
      <3>1. QED
        BY <1>2, ExceptWith
    <2> HIDE DEF user, q
    <2>2. QED
      BY <1>2, <2>1, WithFields
  <1>6. q.todo # <<>>
    <2> DEFINE a == Do("login_role")
               b == Do("is_active")
    <2>1. r.todo = <<a, b>>
      BY <1>2 DEF Entered
    <2> HIDE DEF a, b
    <2>2. Tail(<<a, b>>) # <<>>
      OBVIOUS
    <2> HIDE DEF q
    <2>3. QED
      BY <1>5, <2>1, <2>2
  <1> HIDE DEF q, user
  <1>7. req'[p].user = user
    BY <1>1, <1>3, <1>5, <1>6 DEF Goes
  <1>8. login_role(r.arg) = "top"
    BY <1>4, <1>7
  <1>9. r.arg \in tables.top \/ \A e \in Emails : ~IsUser(tables, e)
    BY <1>8 DEF login_role, resolve_role
  <1>10. QED
    BY <1>3, <1>4, <1>7, <1>9

LEMMA StepKeepsTop ==
  ASSUME TypeOK, RequestsInv, TopInv, backend \in {"store", "jsonl", "pg"}, NEW p \in Slots, Step(p)
  PROVE  TopInv'
  <1> SUFFICES ASSUME {"login"} \notin met
               PROVE  TopInv'
    BY StepKeeps DEF TopInv
  <1>1. backend' = backend /\ met' = met /\ tables \in Tables /\ tables' \in Tables
    BY StepKeeps, StepTables DEF TypeOK
  <1>2. tables'.top \subseteq Emails /\ tables.top \subseteq Emails
    BY <1>1 DEF Tables
  <1>3. /\ \A e, f \in tables.top : e = f
        /\ backend = "pg" => \A e \in tables.top : IsUser(tables, e)
        /\ backend = "pg" => \A q \in Slots :
              Busy(q) /\ req[q].op = "login" /\ req[q].user.role = "top" => tables.top \subseteq {Who(q)}
    BY DEF TopInv
  <1> DEFINE x == Arg(p)
  <1>4. ASSUME ApplyStep(p)
        PROVE  /\ tables' = Changed(tables, x) /\ x \in Entries /\ Writes(req[p], x) /\ Busy(p)
    BY <1>4, EntryArg DEF ApplyStep, At
  <1> HIDE DEF x
  <1>5. ASSUME backend = "pg", NEW e \in tables'.top, e \notin tables.top
        PROVE  /\ ApplyStep(p) /\ e = Who(p) /\ tables.top \subseteq {e}
               /\ req[p].op = "login"
    <2>1. ApplyStep(p)
      BY <1>5, StepTop
    <2>2. x.kind = "top-admin" /\ e = x.email
      BY <1>1, <1>4, <1>5, <2>1, ChangedTop
    <2>3. req[p].op = "login" /\ x.email = Who(p) /\ req[p].user.role = "top"
      BY <1>4, <2>1, <2>2 DEF Writes, Who
    <2>4. tables.top \subseteq {Who(p)}
      BY <1>3, <1>4, <1>5, <2>1, <2>3
    <2>5. QED
      BY <2>1, <2>2, <2>3, <2>4
  <1>6. \A e, f \in tables'.top : e = f
    <2>1. CASE backend = "pg"
      BY <1>3, <1>5, <2>1
    <2>2. CASE backend # "pg"
      <3>1. CASE ApplyStep(p)
        <4>1. tables'.top \subseteq tables.top \/ tables'.top = {x.email}
          BY <1>1, <1>4, <2>2, <3>1, ChangedTop
        <4>2. QED
          BY <1>3, <4>1
      <3>2. CASE ~ApplyStep(p)
        BY <1>3, <3>2, StepTop
      <3>3. QED
        BY <3>1, <3>2
    <2>3. QED
      BY <2>1, <2>2
  <1>7. ASSUME backend = "pg", NEW e \in tables'.top
        PROVE  IsUser(tables', e)
    <2>1. CASE ApplyStep(p)
      BY <1>1, <1>3, <1>4, <1>7, <2>1, ChangedTop
    <2>2. CASE ~ApplyStep(p)
      BY <1>3, <1>7, <2>2, StepTop DEF IsUser
    <2>3. QED
      BY <2>1, <2>2
  <1>8. ASSUME backend = "pg", NEW q \in Slots, Busy(q)', req'[q].op = "login",
               req'[q].user.role = "top", NEW e \in tables'.top
        PROVE  e = req'[q].user.email
    <2>1. /\ Busy(p)
          /\ \A w \in Slots : w # p => req'[w] = req[w]
          /\ req'[p] = Nothing \/ req'[p].op = req[p].op
          /\ \A w \in Slots : w # p /\ Busy(w) => {req[p].op, req[w].op} \in met
      BY StepShape
    <2>2. req'[q] # Nothing
      BY <1>8 DEF Busy, Idle
    <2>3. CASE q # p
      <3>1. Busy(q) /\ req'[q] = req[q]
        BY <2>1, <2>2, <2>3 DEF Busy, Idle
      <3>2. req[p].op # "login"
        <4>1. {req[p].op, req[q].op} \in met /\ req[q].op = "login"
          BY <1>8, <2>1, <2>3, <3>1
        <4>2. req[p].op = "login" => {req[p].op, req[q].op} = {"login"}
          BY <4>1
        <4>3. QED
          BY <4>1, <4>2
      <3>3. e \in tables.top
        BY <1>5, <1>8, <3>2
      <3>4. QED
        BY <1>3, <1>8, <3>1, <3>3 DEF Who
    <2>4. CASE q = p
      <3>1. req[p].op = "login"
        BY <1>8, <2>1, <2>2, <2>4
      <3>2. CASE LoginRole(p)
        <4>1. req'[p].user.email \in tables.top \/ \A w \in Emails : ~IsUser(tables, w)
          BY <1>8, <2>4, <3>2, LoginRoleUser
        <4>2. tables' = tables
          BY <1>8, <2>4, <3>2, LoginRoleUser
        <4>3. QED
          BY <1>2, <1>3, <1>8, <2>4, <4>1, <4>2
      <3>3. CASE ~LoginRole(p)
        <4>1. req'[p].user = req[p].user
          BY <2>2, <2>4, <3>1, <3>3, LoginUserStays
        <4>2. e \in tables.top => e = Who(p)
          BY <1>3, <1>8, <2>1, <2>4, <3>1, <4>1
        <4>3. e \notin tables.top => e = Who(p)
          BY <1>5, <1>8
        <4>4. QED
          BY <2>4, <4>1, <4>2, <4>3 DEF Who
      <3>4. QED
        BY <3>2, <3>3
    <2>5. QED
      BY <2>3, <2>4
  <1> HIDE DEF Busy
  <1>9. QED
    BY <1>1, <1>6, <1>7, <1>8 DEF TopInv, Who

LEMMA BeginKeepsTop ==
  ASSUME TypeOK, RequestsInv, TopInv, NEW p \in Slots, Begin(p)
  PROVE  TopInv'
  <1>1. UNCHANGED <<backend, tables>>
    BY DEF Begin, store
  <1>2. /\ \A q \in Slots : q # p /\ Busy(q) => SameRequest(req'[q], req[q])
        /\ \A q \in Slots : Busy(q)' => q = p \/ Busy(q)
        /\ req'[p].user = NoUser /\ met \subseteq met'
    BY BeginShape
  <1>3. NoUser.role # "top"
    BY DEF NoUser
  <1> HIDE DEF Busy
  <1>4. ASSUME {"login"} \notin met'
        PROVE  /\ \A e, f \in tables.top : e = f
               /\ backend = "pg" => \A e \in tables.top : IsUser(tables, e)
               /\ backend = "pg" => \A q \in Slots : Busy(q)' /\ req'[q].op = "login"
                     /\ req'[q].user.role = "top" => tables.top \subseteq {req'[q].user.email}
    <2>1. /\ \A e, f \in tables.top : e = f
          /\ backend = "pg" => \A e \in tables.top : IsUser(tables, e)
          /\ backend = "pg" => \A q \in Slots : Busy(q) /\ req[q].op = "login"
                /\ req[q].user.role = "top" => tables.top \subseteq {req[q].user.email}
      BY <1>2, <1>4 DEF TopInv, Who
    <2>2. ASSUME backend = "pg", NEW q \in Slots, Busy(q)', req'[q].op = "login",
                 req'[q].user.role = "top"
          PROVE  tables.top \subseteq {req'[q].user.email}
      <3>1. q # p /\ Busy(q) /\ SameRequest(req'[q], req[q])
        BY <1>2, <1>3, <2>2
      <3>2. QED
        BY <2>1, <2>2, <3>1 DEF SameRequest
    <2>3. QED
      BY <2>1, <2>2
  <1>5. QED
    BY <1>1, <1>4 DEF TopInv, Who

LEMMA RestartKeepsTop ==
  ASSUME TypeOK, TopInv, backend \in {"store", "jsonl", "pg"}, Restart
  PROVE  TopInv'
  <1>1. /\ backend' = backend /\ log' = BootLog(log, stored) /\ met' = met
        /\ tables' = BootTables(tables, log')
        /\ req' = [p \in Slots |-> Nothing]
    BY DEF Restart
  <1>2. tables \in Tables /\ log \in Seq(Entries)
    BY DEF TypeOK
  <1>3. log' \in Seq(Entries)
    BY <1>1, <1>2, BootTyped
  <1>4. \A p \in Slots : ~Busy(p)'
    BY <1>1 DEF Busy, Idle
  <1>5. CASE backend = "pg"
    <2>1. tables'.top = tables.top /\ tables'.users = tables.users
      BY <1>1, <1>2, <1>5 DEF BootTables, Tables
    <2>2. {"login"} \notin met => \A e, f \in tables.top : e = f
      BY DEF TopInv
    <2>3. {"login"} \notin met => \A e \in tables.top : tables.users[e] # "none"
      BY <1>5 DEF TopInv, IsUser
    <2> HIDE DEF Busy
    <2>4. QED
      BY <1>1, <1>4, <2>1, <2>2, <2>3 DEF TopInv, IsUser
  <1>6. CASE backend # "pg"
    <2>1. tables' = replay_jsonl(log')
      BY <1>1, <1>6 DEF BootTables
    <2> DEFINE t == replay_jsonl(log')
    <2>2. \A e, f \in t.top : e = f
      BY <1>3, <1>6, ReplayedTop
    <2> HIDE DEF t
    <2>3. tables' = t
      BY <2>1 DEF t
    <2>4. QED
      BY <1>1, <1>6, <2>2, <2>3 DEF TopInv
  <1>7. QED
    BY <1>5, <1>6

LEMMA InitTop ==
  ASSUME Init
  PROVE  TopInv
  <1>1. PICK h \in Histories : tables = replay_jsonl(SeedEntries \o h)
    BY DEF Init
  <1> DEFINE u == SeedEntries
             s == u \o h
  <1>2. /\ u \in Seq(Entries) /\ \A i \in 1..Len(u) : u[i].kind \in PolicyKinds
        /\ h \in Seq(Entries)
        /\ \A i, j \in DOMAIN h :
              h[i].kind = "top-admin" /\ h[j].kind = "top-admin" => h[i].email = h[j].email
    BY HistoriesAssumption, SeedsTyped DEF OnlyPolicy
  <1> HIDE DEF u
  <1>3. s \in Seq(Entries)
    BY <1>2, JoinedEntries
  <1>4. \A i \in 1..Len(s) : s[i].kind = "top-admin" => \E j \in DOMAIN h : s[i] = h[j]
    <2>1. Len(u) \in Nat /\ Len(h) \in Nat /\ Len(s) = Len(u) + Len(h)
      BY <1>2
    <2>2. \A i \in 1..(Len(u) + Len(h)) : \/ i \in 1..Len(u) /\ s[i] = u[i]
                                          \/ i - Len(u) \in 1..Len(h) /\ s[i] = h[i - Len(u)]
      BY <1>2
    <2>3. DOMAIN h = 1..Len(h)
      BY <1>2
    <2>4. "top-admin" \notin PolicyKinds
      BY DEF PolicyKinds
    <2> HIDE DEF s
    <2>5. QED
      BY <1>2, <2>1, <2>2, <2>3, <2>4
  <1>5. \A i, j \in 1..Len(s) :
            s[i].kind = "top-admin" /\ s[j].kind = "top-admin" => s[i].email = s[j].email
    <2> HIDE DEF s
    <2>1. QED
      BY <1>2, <1>4
  <1>6. tables = replay_jsonl(s)
    BY <1>1 DEF u
  <1> HIDE DEF s
  <1> DEFINE t == replay_jsonl(s)
  <1>7. /\ \A e, d \in t.top : e = d
        /\ backend = "pg" => \A e \in t.top : IsUser(t, e)
    BY <1>3, <1>5, ReplayedTop
  <1>8. tables = t
    BY <1>6
  <1> HIDE DEF t
  <1>9. \A p \in Slots : ~Busy(p)
    BY DEF Init, Busy, Idle
  <1>10. QED
    BY <1>7, <1>8, <1>9 DEF TopInv

LEMMA TopStays ==
  ASSUME AuthInv, TopInv, [Next]_vars
  PROVE  TopInv'
  <1>1. TypeOK /\ RequestsInv /\ backend \in {"store", "jsonl", "pg"}
    BY DEF AuthInv
  <1>2. CASE \E p \in Slots : Begin(p)
    BY <1>1, <1>2, BeginKeepsTop
  <1>3. CASE \E p \in Slots : Step(p)
    BY <1>1, <1>3, StepKeepsTop
  <1>4. CASE \E s \in Sessions : Expire(s)
    BY <1>4 DEF Expire, TopInv, Busy, Idle, Who
  <1>5. CASE Restart
    BY <1>1, <1>5, RestartKeepsTop
  <1>6. CASE UNCHANGED vars
    BY <1>6 DEF vars, TopInv, Busy, Idle, Who
  <1>7. QED
    BY <1>2, <1>3, <1>4, <1>5, <1>6 DEF Next

\* There is at most one top administrator, whatever requests meet and wherever the daemon
\* stops, unless two logins were in progress at once, either of which may take itself for
\* the first (login_role and record_user of src/auth/routes.rs, set_top_admin).
THEOREM TopAdminIsOne == Spec => []OneTopAdmin
  <1>1. Init => TopInv
    BY InitTop
  <1>2. AuthInv /\ TopInv /\ [Next]_vars => TopInv'
    BY TopStays
  <1>3. TopInv => OneTopAdmin
    <2> SUFFICES ASSUME TopInv, {"login"} \notin met
                 PROVE  Cardinality(tables.top) <= 1
      BY DEF OneTopAdmin
    <2>1. tables.top = {} \/ \E e : tables.top = {e}
      BY DEF TopInv
    <2>2. CASE tables.top = {}
      <3>1. Cardinality({}) = 0
        BY FS_EmptySet
      <3>2. QED
        BY <2>2, <3>1
    <2>3. ASSUME NEW e, tables.top = {e}
          PROVE  Cardinality(tables.top) <= 1
      <3>1. Cardinality({e}) = 1
        BY FS_Singleton
      <3>2. QED
        BY <2>3, <3>1
    <2>4. QED
      BY <2>1, <2>2, <2>3
  <1>4. QED
    BY <1>1, <1>2, <1>3, AuthAlways, PTL DEF Spec

=============================================================================
