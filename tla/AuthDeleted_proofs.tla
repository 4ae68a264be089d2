-------------------------- MODULE AuthDeleted_proofs --------------------------
(***************************************************************************)
(* Of a deleted account nothing is left that would come back with its next *)
(* login: no session, no cached user, no key and no share it owns or that  *)
(* is in its folders.  The deletion removes what it finds; what makes it   *)
(* enough is that nothing belongs to an account that is not there, in the  *)
(* tables, in what the log replays to or in what a request in progress is  *)
(* about to write.                                                         *)
(***************************************************************************)
EXTENDS AuthKeys_proofs

-----------------------------------------------------------------------------
(* What a request will write *)

\* Which entries an operation writes, of those Writes leaves open.
Tells(r, x) ==
    /\ x.kind = "admin" => r.op = "grant_admin" /\ x.email = r.arg
    /\ x.kind = "admin-revoke" => r.op = "revoke_admin" /\ x.email = r.arg
    /\ x.kind = "allowed-email" => r.op = "add_email" /\ x.email = r.arg
    /\ x.kind = "allowed-email-revoke" => r.op = "remove_email" /\ x.email = r.arg
    /\ x.kind = "domain" => r.op = "add_domain" /\ x.domain = r.arg
    /\ x.kind = "domain-revoke" => r.op = "remove_domain" /\ x.domain = r.arg
    /\ x.kind = "share" =>
          /\ r.op = "create_share"
          /\ x.share = NewShare(r.arg.share, r.user.email, r.arg.grantee,
                                Home(r.user.email, r.arg.folder), r.arg.permission)
    /\ x.kind = "share-revoke" => r.op \in {"revoke_share", "delete"}
    /\ x.kind = "share-path-update" =>
          /\ r.op = "rename"
          /\ \E inside \in Seq(STRING) : x.path = Home(r.user.email, New) \o inside

\* Entries that only tell the log what the tables know already.
LogOnly(b, x) ==
    x.kind \in {"share-revoke", "share-path-update"} \/ (b = "store" /\ x.kind = "api-key-relabel")

TellsStep(b, r, s) ==
    /\ s.do \in {"append", "apply"} => Tells(r, s.x)
    /\ s.do = "apply" => ~LogOnly(b, s.x)
    /\ s.do \in {"owns_share", "revoke_share"} => r.op \in {"revoke_share", "delete"}
    /\ s.do = "update_share_paths" => r.op = "rename"

\* What is written is applied next, and a cached login is recorded next.
Opens(b, s) == s.do = "append" /\ ~LogOnly(b, s.x)
Answers(b, s, next) ==
    /\ Opens(b, s) => next = ApplyEntry(s.x)
    /\ s.do = "cache_session" => next.do = "record_user"

Scripted(b, r, todo) ==
    /\ todo \in Seq(Steps)
    /\ \A i \in 1..Len(todo) :
          /\ TellsStep(b, r, todo[i])
          /\ Opens(b, todo[i]) \/ todo[i].do = "cache_session" =>
                i < Len(todo) /\ Answers(b, todo[i], todo[i + 1])

ScriptInv ==
    \A p \in Slots : Busy(p) /\ Head(req[p].todo).do \notin Opening =>
        Scripted(backend, req[p], req[p].todo)

LEMMA ScriptedNone ==
  ASSUME NEW b, NEW r
  PROVE  Scripted(b, r, <<>>)
  <1>1. <<>> \in Seq(Steps) /\ Len(<<>>) = 0
    OBVIOUS
  <1>2. QED
    BY <1>1 DEF Scripted

Quiet(b, r, s) ==
    /\ s \in Steps /\ TellsStep(b, r, s)
    /\ ~Opens(b, s) /\ s.do # "cache_session"

LEMMA ScriptedQuiet ==
  ASSUME NEW b, NEW r, NEW todo \in Seq(Steps), \A i \in 1..Len(todo) : Quiet(b, r, todo[i])
  PROVE  Scripted(b, r, todo)
  BY DEF Scripted, Quiet

LEMMA ScriptedOne ==
  ASSUME NEW b, NEW r, NEW s, Quiet(b, r, s)
  PROVE  Scripted(b, r, <<s>>)
  <1>1. s \in Steps
    BY DEF Quiet
  <1>2. <<s>> \in Seq(Steps) /\ Len(<<s>>) = 1 /\ <<s>>[1] = s /\ \A i \in 1..1 : i = 1
    BY <1>1
  <1>3. QED
    BY <1>2, ScriptedQuiet

LEMMA ScriptedJoin ==
  ASSUME NEW b, NEW r, NEW u, NEW v, Scripted(b, r, u), Scripted(b, r, v)
  PROVE  Scripted(b, r, u \o v)
  <1> DEFINE m == Len(u)
             n == Len(v)
             w == u \o v
  <1>1. m \in Nat /\ n \in Nat /\ u \in Seq(Steps) /\ v \in Seq(Steps)
    BY DEF Scripted
  <1>2. w \in Seq(Steps) /\ Len(w) = m + n
    BY <1>1
  <1>3. \A i \in 1..(m + n) : w[i] = IF i <= m THEN u[i] ELSE v[i - m]
    BY <1>1
  <1>4. /\ \A i \in 1..m : TellsStep(b, r, u[i])
        /\ \A i \in 1..m : Opens(b, u[i]) \/ u[i].do = "cache_session" =>
              i < m /\ Answers(b, u[i], u[i + 1])
        /\ \A i \in 1..n : TellsStep(b, r, v[i])
        /\ \A i \in 1..n : Opens(b, v[i]) \/ v[i].do = "cache_session" =>
              i < n /\ Answers(b, v[i], v[i + 1])
    BY DEF Scripted
  <1> HIDE DEF m, n, w
  <1>5. ASSUME NEW i \in 1..(m + n)
        PROVE  /\ TellsStep(b, r, w[i])
               /\ Opens(b, w[i]) \/ w[i].do = "cache_session" =>
                     i < m + n /\ Answers(b, w[i], w[i + 1])
    <2>1. CASE i <= m
      <3>1. i \in 1..m /\ w[i] = u[i]
        BY <1>1, <1>3, <2>1
      <3>2. i < m => w[i + 1] = u[i + 1] /\ i < m + n
        BY <1>1, <1>3, <2>1
      <3>3. QED
        BY <1>4, <3>1, <3>2
    <2>2. CASE ~(i <= m)
      <3> DEFINE k == i - m
      <3>1. k \in 1..n /\ w[i] = v[k]
        BY <1>1, <1>3, <2>2
      <3>2. k < n => w[i + 1] = v[k + 1] /\ i < m + n
        <4>1. k < n => i + 1 \in 1..(m + n) /\ ~(i + 1 <= m) /\ (i + 1) - m = k + 1 /\ i < m + n
          BY <1>1, <2>2
        <4>2. QED
          BY <1>3, <4>1
      <3> HIDE DEF k
      <3>3. QED
        BY <1>4, <3>1, <3>2
    <2>3. QED
      BY <2>1, <2>2
  <1>6. QED
    BY <1>2, <1>5 DEF Scripted, w

LEMMA ScriptedTail ==
  ASSUME NEW b, NEW r, NEW u, u # <<>>, Scripted(b, r, u)
  PROVE  Scripted(b, r, Tail(u))
  <1>1. u \in Seq(Steps) /\ Len(u) \in Nat
    BY DEF Scripted
  <1>2. /\ Tail(u) \in Seq(Steps) /\ Len(Tail(u)) = Len(u) - 1
        /\ \A i \in 1..Len(Tail(u)) : i + 1 \in 1..Len(u) /\ Tail(u)[i] = u[i + 1]
    BY <1>1, StepsOf
  <1> DEFINE n == Len(u)
             t == Tail(u)
  <1>3. \A i \in 1..n : /\ TellsStep(b, r, u[i])
                        /\ Opens(b, u[i]) \/ u[i].do = "cache_session" =>
                              i < n /\ Answers(b, u[i], u[i + 1])
    BY DEF Scripted
  <1> HIDE DEF n, t
  <1>4. ASSUME NEW i \in 1..(n - 1)
        PROVE  /\ TellsStep(b, r, t[i])
               /\ Opens(b, t[i]) \/ t[i].do = "cache_session" =>
                     i < n - 1 /\ Answers(b, t[i], t[i + 1])
    <2>1. i + 1 \in 1..n /\ t[i] = u[i + 1] /\ n \in Nat
      BY <1>1, <1>2 DEF n, t
    <2>2. i + 1 < n => i < n - 1 /\ t[i + 1] = u[(i + 1) + 1]
      <3>1. i + 1 < n => i < n - 1 /\ i + 1 \in 1..(n - 1)
        BY <2>1
      <3>2. QED
        BY <1>2, <3>1 DEF n, t
    <2>3. QED
      BY <1>3, <2>1, <2>2
  <1>5. QED
    BY <1>2, <1>4 DEF Scripted, n, t

LEMMA ScriptedPersist ==
  ASSUME NEW r, NEW x \in Entries, Tells(r, x), ~LogOnly(backend, x)
  PROVE  Scripted(backend, r, Persist(x))
  <1> DEFINE a == AppendEntry(x)
             y == ApplyEntry(x)
             b == backend
  <1>1. /\ a \in Steps /\ a.do = "append" /\ a.x = x /\ y \in Steps /\ y.do = "apply" /\ y.x = x
    BY DEF AppendEntry, ApplyEntry, Steps
  <1>2. Persist(x) = IF b = "pg" THEN <<y>> ELSE <<a, y>>
    BY DEF Persist
  <1>3. TellsStep(b, r, a) /\ TellsStep(b, r, y) /\ Answers(b, a, y) /\ Quiet(b, r, y)
    BY <1>1 DEF TellsStep, Answers, Opens, Quiet
  <1> HIDE DEF a, y, b
  <1>4. Scripted(b, r, <<y>>)
    BY <1>3, ScriptedOne
  <1>5. Scripted(b, r, <<a, y>>)
    <2> DEFINE w == <<a, y>>
    <2>1. w \in Seq(Steps) /\ Len(w) = 2 /\ w[1] = a /\ w[2] = y /\ \A i \in 1..2 : i = 1 \/ i = 2
      BY <1>1
    <2> HIDE DEF w
    <2>2. 1 < 2 /\ 1 + 1 = 2 /\ ~Opens(b, y) /\ y.do # "cache_session"
      BY <1>3 DEF Quiet
    <2>3. Scripted(b, r, w)
      BY <1>3, <2>1, <2>2 DEF Scripted
    <2>4. QED
      BY <2>3 DEF w
  <1>6. QED
    BY <1>2, <1>4, <1>5 DEF b

\* The scripts of the handlers.
LEMMA DoQuiet ==
  ASSUME NEW b, NEW r, NEW d \in Plain, d # "cache_session", d = "update_share_paths" => r.op = "rename"
  PROVE  Quiet(b, r, Do(d))
  <1>1. Do(d) \in Steps /\ Do(d).do = d
    BY DEF Do, Steps
  <1>2. d \notin {"append", "apply", "owns_share", "revoke_share"}
    BY DEF Plain
  <1>3. QED
    BY <1>1, <1>2 DEF Quiet, TellsStep, Opens

LEMMA OnQuiet ==
  ASSUME NEW b, NEW r
  PROVE  /\ \A d \in Cleanup \union {"exists"} : \A e \in Emails : Quiet(b, r, On(d, About("none", e)))
         /\ \A d \in {"delete_session", "delete_row"} : \A c \in Sessions :
               Quiet(b, r, On(d, About("none", c)))
         /\ r.op \in {"revoke_share", "delete"} =>
               \A d \in {"owns_share", "revoke_share"} : \A id \in Shares : Quiet(b, r, On(d, ShareRevoke(id)))
  <1>1. ASSUME NEW d \in Cleanup \union {"exists"}, NEW e \in Emails, NEW s, s = On(d, About("none", e))
        PROVE  Quiet(b, r, s)
    <2>1. s = [do |-> d, x |-> [kind |-> "none", email |-> e]]
      BY <1>1 DEF On, About
    <2>2. s \in [do : Cleanup \union {"exists"}, x : [kind : {"none"}, email : Emails]] /\ s.do = d
      BY <2>1
    <2>3. s \in Steps
      BY <2>2 DEF Steps
    <2>4. d \notin {"append", "apply", "owns_share", "revoke_share", "update_share_paths", "cache_session"}
      BY DEF Cleanup
    <2>5. QED
      BY <2>2, <2>3, <2>4 DEF Quiet, TellsStep, Opens
  <1>2. ASSUME NEW d \in {"delete_session", "delete_row"}, NEW c \in Sessions, NEW s, s = On(d, About("none", c))
        PROVE  Quiet(b, r, s)
    <2>1. s = [do |-> d, x |-> [kind |-> "none", email |-> c]]
      BY <1>2 DEF On, About
    <2>2. s \in [do : {"delete_session", "delete_row"}, x : [kind : {"none"}, email : Sessions]] /\ s.do = d
      BY <2>1
    <2>3. s \in Steps
      BY <2>2 DEF Steps
    <2>4. QED
      BY <2>2, <2>3 DEF Quiet, TellsStep, Opens
  <1>3. ASSUME r.op \in {"revoke_share", "delete"},
               NEW d \in {"owns_share", "revoke_share"}, NEW id \in Shares, NEW s, s = On(d, ShareRevoke(id))
        PROVE  Quiet(b, r, s)
    <2>1. s = [do |-> d, x |-> [kind |-> "share-revoke", id |-> id]]
      BY <1>3 DEF On, ShareRevoke
    <2>2. s \in Steps /\ s.do = d
      BY <2>1 DEF Steps
    <2>3. QED
      BY <1>3, <2>2 DEF Quiet, TellsStep, Opens
  <1>4. QED
    BY <1>1, <1>2, <1>3

LEMMA ScriptedCleanup ==
  ASSUME NEW b, NEW r, NEW e \in Emails
  PROVE  Scripted(b, r, revoke_user_access(e))
  <1> DEFINE s1 == On("drop_sessions", About("none", e))
             s2 == On("delete_rows", About("none", e))
             s3 == On("drop_keys", About("none", e))
             u == <<s1, s2, s3>>
  <1>1. revoke_user_access(e) = u
    BY DEF revoke_user_access
  <1>2. \A s \in {s1, s2, s3} : Quiet(b, r, s)
    BY OnQuiet DEF Cleanup
  <1> HIDE DEF s1, s2, s3
  <1>3. \A s \in {s1, s2, s3} : s \in Steps
    BY <1>2 DEF Quiet
  <1>4. u \in Seq(Steps) /\ Len(u) = 3 /\ u[1] = s1 /\ u[2] = s2 /\ u[3] = s3
    BY <1>3
  <1>5. \A i \in 1..3 : i = 1 \/ i = 2 \/ i = 3
    OBVIOUS
  <1> HIDE DEF u
  <1>6. QED
    BY <1>1, <1>2, <1>4, <1>5, ScriptedQuiet

LEMMA ScriptedAround ==
  ASSUME NEW b, NEW r, NEW s, Quiet(b, r, s), NEW u, Scripted(b, r, u), NEW v, Scripted(b, r, v)
  PROVE  Scripted(b, r, <<s>> \o u \o v) /\ Scripted(b, r, u \o v)
  BY ScriptedOne, ScriptedJoin

LEMMA ScriptedTop ==
  ASSUME NEW r, Called(r), r.op \in Ops \ (UserOps \union {"login", "kill_session"})
  PROVE  Scripted(backend, r, TopHandler(r))
  <1>1. CASE r.op \in {"deactivate", "activate"}
    <2> DEFINE x == About(IF r.op = "activate" THEN "user-activate" ELSE "user-deactivate", r.arg)
    <2>1. r.arg \in Emails
      BY <1>1 DEF Called, AccountOps
    <2>2. x \in Entries /\ Tells(r, x) /\ ~LogOnly(backend, x)
      BY <1>1, <2>1 DEF About, Entries, Tells, LogOnly
    <2>3. TopHandler(r) = Persist(x) \o revoke_user_access(r.arg)
      BY <1>1 DEF TopHandler, deactivate_user, activate_user
    <2> HIDE DEF x
    <2>4. QED
      BY <2>1, <2>2, <2>3, ScriptedPersist, ScriptedCleanup, ScriptedJoin
  <1>2. CASE r.op = "delete_user"
    <2> DEFINE x == About("user-delete", r.arg)
               s == On("exists", About("none", r.arg))
    <2>1. r.arg \in Emails
      BY <1>2 DEF Called, AccountOps
    <2>2. x \in Entries /\ Tells(r, x) /\ ~LogOnly(backend, x)
      BY <1>2, <2>1 DEF About, Entries, Tells, LogOnly
    <2>3. Quiet(backend, r, s)
      BY <2>1, OnQuiet
    <2>4. TopHandler(r) = <<s>> \o Persist(x) \o revoke_user_access(r.arg)
      BY <1>2 DEF TopHandler, delete_user
    <2> HIDE DEF x, s
    <2>5. QED
      BY <2>1, <2>2, <2>3, <2>4, ScriptedPersist, ScriptedCleanup, ScriptedAround
  <1>3. CASE r.op \in {"grant_admin", "revoke_admin", "add_email", "remove_email"}
    <2> DEFINE x == About(CASE r.op = "grant_admin" -> "admin" [] r.op = "revoke_admin" -> "admin-revoke"
                            [] r.op = "add_email" -> "allowed-email"
                            [] r.op = "remove_email" -> "allowed-email-revoke", r.arg)
    <2>1. r.arg \in Emails
      BY <1>3 DEF Called, AccountOps
    <2>2. x \in Entries /\ Tells(r, x) /\ ~LogOnly(backend, x)
      BY <1>3, <2>1 DEF About, Entries, Tells, LogOnly
    <2>3. TopHandler(r) = Persist(x)
      BY <1>3 DEF TopHandler, grant_admin, revoke_admin, add_allowed_email, remove_allowed_email
    <2> HIDE DEF x
    <2>4. QED
      BY <2>2, <2>3, ScriptedPersist
  <1>4. CASE r.op \in PolicyOps
    <2> DEFINE x == Policy(IF r.op = "add_domain" THEN "domain" ELSE "domain-revoke", r.arg)
    <2>1. r.arg \in SeedDomains
      BY <1>4 DEF Called
    <2>2. x \in Entries /\ Tells(r, x) /\ ~LogOnly(backend, x)
      BY <1>4, <2>1 DEF Policy, Entries, Tells, LogOnly, PolicyOps
    <2>3. TopHandler(r) = Persist(x)
      BY <1>4 DEF TopHandler, add_domain, remove_domain, PolicyOps
    <2> HIDE DEF x
    <2>4. QED
      BY <2>2, <2>3, ScriptedPersist
  <1>5. CASE r.op = "factory_reset"
    <2> DEFINE s1 == Do("remove_tree")
               s2 == Do("clear")
               s3 == Do("reset_db")
               u == <<s1, s2, s3>>
    <2>1. \A s \in {s1, s2, s3} : Quiet(backend, r, s)
      BY DoQuiet DEF Plain
    <2>2. TopHandler(r) = u
      BY <1>5 DEF TopHandler
    <2> HIDE DEF s1, s2, s3
    <2>3. \A s \in {s1, s2, s3} : s \in Steps
      BY <2>1 DEF Quiet
    <2>4. u \in Seq(Steps) /\ Len(u) = 3 /\ u[1] = s1 /\ u[2] = s2 /\ u[3] = s3
      BY <2>3
    <2>5. \A i \in 1..3 : i = 1 \/ i = 2 \/ i = 3
      OBVIOUS
    <2> HIDE DEF u
    <2>6. QED
      BY <2>1, <2>2, <2>4, <2>5, ScriptedQuiet
  <1>6. QED
    BY <1>1, <1>2, <1>3, <1>4, <1>5 DEF Ops, AccountOps, PolicyOps

LEMMA ScriptedUser ==
  ASSUME NEW r, Called(r), Knows(r), r.op \in UserOps
  PROVE  Scripted(backend, r, UserHandler(r))
  <1> DEFINE b == backend
  <1>0. r.user.email \in Emails
    BY DEF Knows, Users
  <1>1. CASE r.op = "me"
    BY <1>1, ScriptedNone DEF UserHandler
  <1>2. CASE r.op = "logout"
    <2> DEFINE s == On("delete_session", About("none", r.cred))
    <2>1. UserHandler(r) = IF r.cred \in Sessions THEN <<s>> ELSE <<>>
      BY <1>2 DEF UserHandler, logout
    <2>2. r.cred \in Sessions => Quiet(b, r, s)
      BY OnQuiet
    <2> HIDE DEF s
    <2>3. QED
      BY <2>1, <2>2, ScriptedOne, ScriptedNone
  <1>3. CASE r.op = "create_api_key"
    <2> DEFINE x == KeyEntry(r.arg.key, r.user.email, r.arg.label)
               s == Do("cache_key")
    <2>1. r.arg \in [key : Keys, label : Labels]
      BY <1>3 DEF Called, KeyOps
    <2>2. x \in Entries /\ Tells(r, x) /\ ~LogOnly(b, x)
      BY <1>0, <1>3, <2>1 DEF KeyEntry, Entries, Tells, LogOnly
    <2>3. Quiet(b, r, s)
      BY DoQuiet DEF Plain
    <2>4. UserHandler(r) = Persist(x) \o <<s>>
      BY <1>3 DEF UserHandler, create_api_key
    <2> HIDE DEF x, s
    <2>5. QED
      BY <2>2, <2>3, <2>4, ScriptedPersist, ScriptedOne, ScriptedJoin
  <1>4. CASE r.op = "revoke_api_key"
    <2> DEFINE x == KeyRevoke(r.arg.key)
               o == Do("owns_key")
               s == Do("drop_key")
    <2>1. r.arg \in [key : Keys, label : Labels]
      BY <1>4 DEF Called, KeyOps
    <2>2. x \in Entries /\ Tells(r, x) /\ ~LogOnly(b, x)
      BY <1>4, <2>1 DEF KeyRevoke, Entries, Tells, LogOnly
    <2>3. Quiet(b, r, s) /\ Quiet(b, r, o)
      BY DoQuiet DEF Plain
    <2>4. UserHandler(r) = <<o>> \o Persist(x) \o <<s>>
      BY <1>4 DEF UserHandler, revoke_api_key
    <2> HIDE DEF x, s, o
    <2>5. QED
      BY <2>2, <2>3, <2>4, ScriptedPersist, ScriptedOne, ScriptedAround
  <1>5. CASE r.op = "rename_api_key"
    <2> DEFINE x == Relabel(r.arg.key, r.arg.label)
               o == Do("owns_key")
               s == Do("label")
               a == AppendEntry(x)
               u == IF b = "store" THEN <<a>> ELSE Persist(x)
    <2>1. r.arg \in [key : Keys, label : Labels]
      BY <1>5 DEF Called, KeyOps
    <2>2. x \in Entries /\ Tells(r, x) /\ LogOnly(b, x) = (b = "store")
      BY <1>5, <2>1 DEF Relabel, Entries, Tells, LogOnly
    <2>3. Quiet(b, r, s) /\ Quiet(b, r, o)
      BY DoQuiet DEF Plain
    <2>4. UserHandler(r) = <<o>> \o u \o <<s>>
      BY <1>5 DEF UserHandler, rename_api_key
    <2>5. b = "store" => Quiet(b, r, a)
      <3>1. a \in Steps /\ a.do = "append" /\ a.x = x
        BY <2>2 DEF AppendEntry, Steps
      <3>2. QED
        BY <2>2, <3>1 DEF Quiet, TellsStep, Opens
    <2> HIDE DEF x, s, o, a
    <2>6. Scripted(b, r, u)
      <3>1. CASE b = "store"
        BY <2>5, <3>1, ScriptedOne
      <3>2. CASE b # "store"
        <4>1. ~LogOnly(b, x)
          BY <2>2, <3>2
        <4>2. QED
          BY <2>2, <3>2, <4>1, ScriptedPersist
      <3>3. QED
        BY <3>1, <3>2
    <2> HIDE DEF u
    <2>7. QED
      BY <2>3, <2>4, <2>6, ScriptedOne, ScriptedAround
  <1>6. CASE r.op = "create_share"
    <2> DEFINE w == NewShare(r.arg.share, r.user.email, r.arg.grantee, Home(r.user.email, r.arg.folder),
                             r.arg.permission)
               x == ShareEntry(w)
    <2>1. r.arg \in [share : Shares, grantee : Emails, folder : {Old, New}, permission : Permissions]
      BY <1>6 DEF Called
    <2>2. Home(r.user.email, r.arg.folder) \in Seq(STRING)
      BY <1>0, <2>1, HomePath
    <2>3. w \in ShareRecords
      BY <1>0, <2>1, <2>2, AuthAssumption DEF NewShare, ShareRecords
    <2>4. x = [kind |-> "share", share |-> w]
      BY DEF ShareEntry
    <2>5. UserHandler(r) = Persist(x)
      BY <1>6 DEF UserHandler, create_share
    <2>6. Tells(r, x)
      BY <1>6 DEF Tells, ShareEntry
    <2> HIDE DEF x, w
    <2>7. x \in Entries /\ ~LogOnly(b, x)
      BY <2>3, <2>4 DEF Entries, LogOnly
    <2>8. QED
      BY <2>5, <2>6, <2>7, ScriptedPersist
  <1>7. CASE r.op = "revoke_share"
    <2> DEFINE o == On("owns_share", ShareRevoke(r.arg))
               s == On("revoke_share", ShareRevoke(r.arg))
    <2>1. r.arg \in Shares
      BY <1>7 DEF Called
    <2>2. Quiet(b, r, o) /\ Quiet(b, r, s)
      BY <1>7, <2>1, OnQuiet
    <2>3. UserHandler(r) = <<o, s>>
      BY <1>7 DEF UserHandler, revoke_share
    <2> HIDE DEF o, s
    <2>4. <<o, s>> = <<o>> \o <<s>>
      BY PairJoined DEF Concat
    <2>5. QED
      BY <2>2, <2>3, <2>4, ScriptedOne, ScriptedJoin
  <1>8. CASE r.op \in {"rename", "delete"}
    <2> DEFINE s == Do(IF r.op = "rename" THEN "update_share_paths" ELSE "delete_shares_under")
    <2>1. UserHandler(r) = <<s>>
      BY <1>8 DEF UserHandler
    <2>2. Quiet(b, r, s)
      BY <1>8, DoQuiet DEF Plain
    <2> HIDE DEF s
    <2>3. QED
      BY <2>1, <2>2, ScriptedOne
  <1>9. QED
    BY <1>1, <1>2, <1>3, <1>4, <1>5, <1>6, <1>7, <1>8 DEF UserOps

LEMMA ScriptedAlike ==
  ASSUME NEW b, NEW r, NEW q, q.op = r.op, q.arg = r.arg, q.user = r.user, NEW todo, Scripted(b, r, todo)
  PROVE  Scripted(b, q, todo)
  <1>1. \A s : TellsStep(b, r, s) => TellsStep(b, q, s)
    BY DEF TellsStep, Tells
  <1>2. QED
    BY <1>1 DEF Scripted

LEMMA ScriptedHandler ==
  ASSUME NEW r, Called(r), Knows(r), r.op # "login"
  PROVE  Scripted(backend, r, Handler(r).todo)
  <1>1. CASE r.op \in UserOps
    BY <1>1, ScriptedUser DEF Handler, Serves
  <1>2. CASE r.op = "kill_session"
    <2> DEFINE s == On("delete_session", About("none", r.arg))
    <2>1. Handler(r).todo = <<s>>
      BY <1>2 DEF Handler, Serves, UserOps
    <2>2. r.arg \in Sessions
      BY <1>2 DEF Called
    <2>3. Quiet(backend, r, s)
      BY <2>2, OnQuiet
    <2> HIDE DEF s
    <2>4. QED
      BY <2>1, <2>3, ScriptedOne
  <1>3. CASE r.op \notin UserOps \union {"kill_session"}
    <2>1. Handler(r).todo = TopHandler(r)
      BY <1>3 DEF Handler, Serves
    <2>2. r.op \in Ops \ (UserOps \union {"login", "kill_session"})
      BY <1>3 DEF Called
    <2>3. QED
      BY <2>1, <2>2, ScriptedTop
  <1>4. QED
    BY <1>1, <1>2, <1>3

LEMMA ScriptedLogin ==
  ASSUME NEW r, Called(r), Knows(r), r.op = "login"
  PROVE  Scripted(backend, r, login_known(r.user.email, r.user.role))
  <1> DEFINE s1 == Do("cache_session")
             s2 == Do("record_user")
             s3 == Do("record_session")
             s4 == Do("seed")
             u == <<s1, s2, s3, s4>>
             x == About("top-admin", r.user.email)
             v == IF r.user.role = "top" THEN Persist(x) ELSE <<>>
             b == backend
  <1>1. login_known(r.user.email, r.user.role) = u \o v
    BY DEF login_known, set_top_admin
  <1>2. /\ Quiet(b, r, s2) /\ Quiet(b, r, s3) /\ Quiet(b, r, s4)
        /\ s1 \in Steps /\ s1.do = "cache_session" /\ s2.do = "record_user"
    BY DoQuiet DEF Plain, Do, Steps
  <1>3. x \in Entries /\ Tells(r, x) /\ ~LogOnly(b, x)
    BY DEF About, Entries, Tells, LogOnly, Knows, Users
  <1> HIDE DEF s1, s2, s3, s4, x, b
  <1>4. \A s \in {s1, s2, s3, s4} : s \in Steps
    BY <1>2 DEF Quiet
  <1>5. u \in Seq(Steps) /\ Len(u) = 4 /\ u[1] = s1 /\ u[2] = s2 /\ u[3] = s3 /\ u[4] = s4
    BY <1>4
  <1> HIDE DEF u
  <1>6. (\A i \in 1..4 : i = 1 \/ i = 2 \/ i = 3 \/ i = 4) /\ 1 < 4 /\ 1 + 1 = 2
    OBVIOUS
  <1>7. TellsStep(b, r, s1) /\ Answers(b, s1, s2)
    BY <1>2 DEF TellsStep, Answers, Opens
  <1>8. Scripted(b, r, u)
    BY <1>2, <1>5, <1>6, <1>7 DEF Scripted, Quiet
  <1>9. Scripted(b, r, v)
    BY <1>3, ScriptedPersist, ScriptedNone DEF b
  <1>10. QED
    BY <1>1, <1>8, <1>9, ScriptedJoin DEF b

\* What the tables know already is told to the log and applied no more.
LEMMA ScriptedLogged ==
  ASSUME NEW r, NEW n \in Nat, NEW x, x \in [1..n -> Entries],
         \A i \in 1..n : LogOnly(backend, x[i]) /\ Tells(r, x[i])
  PROVE  Scripted(backend, r, Logged(x))
  <1> DEFINE b == backend
             s == [i \in 1..n |-> AppendEntry(x[i])]
  <1>1. Logged(x) = IF b = "pg" THEN <<>> ELSE s
    BY DEF Logged
  <1>2. ASSUME NEW i \in 1..n
        PROVE  s[i] \in Steps /\ Quiet(b, r, s[i])
    <2>1. s[i] = [do |-> "append", x |-> x[i]] /\ x[i] \in Entries
      BY DEF AppendEntry
    <2> HIDE DEF s, b
    <2>2. s[i] \in Steps /\ s[i].do = "append" /\ s[i].x = x[i]
      BY <2>1 DEF Steps
    <2>3. QED
      BY <2>2 DEF Quiet, TellsStep, Opens, b
  <1>3. s \in [1..n -> Steps]
    BY <1>2
  <1> HIDE DEF s
  <1>4. s \in Seq(Steps) /\ Len(s) = n
    BY <1>3
  <1>5. Scripted(b, r, s)
    BY <1>2, <1>4, ScriptedQuiet
  <1>6. QED
    BY <1>1, <1>5, ScriptedNone

LEMMA ThenScripted ==
  ASSUME TypeOK, RequestsInv, NEW p \in Slots, Busy(p), Scripted(backend, req[p], req[p].todo),
         NEW steps, Then(p, steps), Scripted(backend, req[p], steps), req'[p] # Nothing
  PROVE  Scripted(backend, req'[p], req'[p].todo)
  <1>1. SameRequest(req'[p], req[p]) /\ req'[p].todo = steps \o Tail(req[p].todo)
    BY ThenSame
  <1>2. req[p].todo # <<>>
    BY DEF RequestsInv, InProgress
  <1>3. Scripted(backend, req[p], steps \o Tail(req[p].todo))
    BY <1>2, ScriptedTail, ScriptedJoin
  <1>4. QED
    BY <1>1, <1>3, ScriptedAlike DEF SameRequest

\* The folder a share is moved to.
LEMMA MovedInto ==
  ASSUME NEW path \in Seq(STRING), NEW from \in Seq(STRING), NEW to \in Seq(STRING), Under(path, from)
  PROVE  \E inside \in Seq(STRING) : Moved(path, from, to) = to \o inside
  <1> DEFINE inside == SubSeq(path, Len(from) + 1, Len(path))
  <1>1. /\ Len(from) + 1 \in Int /\ Len(path) \in Int /\ Len(from) + 1 >= 1
        /\ \A i \in 1..Len(path) : path[i] \in STRING
    OBVIOUS
  <1>2. \A i \in (Len(from) + 1)..Len(path) : path[i] \in STRING
    BY <1>1
  <1>3. inside \in Seq(STRING)
    BY <1>1, <1>2, SubSeqProperties
  <1>4. Moved(path, from, to) = to \o inside
    BY DEF Moved
  <1>5. QED
    BY <1>3, <1>4

\* The shares below a folder, and what is told of them.
Hit(t, prefix) == Only(t.shares, {s \in ToSet(t.shares) : Under(s.path, prefix)})

LEMMA HitUnder ==
  ASSUME NEW t \in Tables, NEW prefix
  PROVE  LET hit == Hit(t, prefix)
         IN  /\ Len(hit) \in Nat /\ DOMAIN hit = 1..Len(hit) /\ hit \in Seq(ShareRecords)
             /\ \A i \in 1..Len(hit) : /\ hit[i] \in ShareRecords /\ hit[i].id \in Shares
                                       /\ hit[i].path \in Seq(STRING) /\ Under(hit[i].path, prefix)
  <1> DEFINE chosen == {s \in ToSet(t.shares) : Under(s.path, prefix)}
             hit == Only(t.shares, chosen)
  <1>1. t.shares \in Seq(ShareRecords)
    BY DEF Tables
  <1>2. \A s \in chosen : Under(s.path, prefix)
    OBVIOUS
  <1> HIDE DEF chosen
  <1>3. hit \in Seq(ShareRecords) /\ \A i \in 1..Len(hit) : hit[i] \in chosen
    BY <1>1, OnlyPicks DEF Elements
  <1>4. \A s \in ShareRecords : s.id \in Shares /\ s.path \in Seq(STRING)
    BY DEF ShareRecords
  <1> HIDE DEF hit
  <1>5. Len(hit) \in Nat /\ DOMAIN hit = 1..Len(hit) /\ \A i \in 1..Len(hit) : hit[i] \in ShareRecords
    BY <1>3
  <1>6. QED
    BY <1>2, <1>3, <1>4, <1>5 DEF Hit, hit, chosen

Updates(t, e) ==
    [i \in DOMAIN Hit(t, Home(e, Old)) |->
        PathUpdate(Hit(t, Home(e, Old))[i].id, Moved(Hit(t, Home(e, Old))[i].path, Home(e, Old), Home(e, New)))]
Revokes(t, prefix) == [i \in DOMAIN Hit(t, prefix) |-> ShareRevoke(Hit(t, prefix)[i].id)]

LEMMA UpdatesTold ==
  ASSUME NEW t \in Tables, NEW r, r.op = "rename", r.user.email \in Emails
  PROVE  LET u == Updates(t, r.user.email)
             hit == Hit(t, Home(r.user.email, Old))
         IN  /\ u \in [1..Len(hit) -> Entries] /\ Len(hit) \in Nat
             /\ \A i \in 1..Len(hit) : LogOnly(backend, u[i]) /\ Tells(r, u[i])
             /\ \A i \in 1..Len(hit) : /\ u[i].kind = "share-path-update" /\ u[i].id = hit[i].id
                                       /\ u[i].path = Moved(hit[i].path, Home(r.user.email, Old),
                                                            Home(r.user.email, New))
  <1> DEFINE from == Home(r.user.email, Old)
             to == Home(r.user.email, New)
             hit == Hit(t, from)
             u == Updates(t, r.user.email)
  <1>1. from \in Seq(STRING) /\ to \in Seq(STRING)
    BY HomePath
  <1>2. /\ Len(hit) \in Nat /\ DOMAIN hit = 1..Len(hit)
        /\ \A i \in 1..Len(hit) : hit[i].id \in Shares /\ hit[i].path \in Seq(STRING) /\ Under(hit[i].path, from)
    BY HitUnder
  <1>3. u = [i \in 1..Len(hit) |-> PathUpdate(hit[i].id, Moved(hit[i].path, from, to))]
    BY <1>2 DEF Updates
  <1>4. Home(r.user.email, New) = to
    OBVIOUS
  <1> HIDE DEF hit, from, to, u
  <1>5. ASSUME NEW i \in 1..Len(hit)
        PROVE  /\ u[i] \in Entries /\ LogOnly(backend, u[i]) /\ Tells(r, u[i])
               /\ u[i].kind = "share-path-update" /\ u[i].id = hit[i].id
               /\ u[i].path = Moved(hit[i].path, from, to)
    <2> DEFINE path == Moved(hit[i].path, from, to)
    <2>1. u[i] = [kind |-> "share-path-update", id |-> hit[i].id, path |-> path]
      BY <1>3 DEF PathUpdate
    <2>2. path \in Seq(STRING)
      BY <1>1, <1>2, MovedPath
    <2>3. \E inside \in Seq(STRING) : path = to \o inside
      BY <1>1, <1>2, MovedInto
    <2> HIDE DEF path
    <2>4. u[i].kind = "share-path-update" /\ u[i].path = path /\ u[i].id = hit[i].id /\ u[i] \in Entries
      BY <1>2, <2>1, <2>2 DEF Entries
    <2>5. LogOnly(backend, u[i]) /\ Tells(r, u[i])
      BY <1>4, <2>3, <2>4 DEF LogOnly, Tells
    <2>6. QED
      BY <2>4, <2>5 DEF path
  <1>6. u \in [1..Len(hit) -> Entries]
    BY <1>3, <1>5
  <1>7. QED
    BY <1>2, <1>5, <1>6 DEF hit, u, from, to

LEMMA RevokesTold ==
  ASSUME NEW t \in Tables, NEW r, r.op \in {"revoke_share", "delete"}, NEW prefix
  PROVE  LET u == Revokes(t, prefix)
             hit == Hit(t, prefix)
         IN  /\ u \in [1..Len(hit) -> Entries] /\ Len(hit) \in Nat
             /\ \A i \in 1..Len(hit) : LogOnly(backend, u[i]) /\ Tells(r, u[i])
             /\ \A i \in 1..Len(hit) : /\ u[i] = ShareRevoke(hit[i].id) /\ hit[i].id \in Shares
                                       /\ u[i].kind = "share-revoke" /\ u[i].id = hit[i].id
  <1> DEFINE hit == Hit(t, prefix)
             u == Revokes(t, prefix)
  <1>1. Len(hit) \in Nat /\ DOMAIN hit = 1..Len(hit) /\ \A i \in 1..Len(hit) : hit[i].id \in Shares
    BY HitUnder
  <1>2. u = [i \in 1..Len(hit) |-> ShareRevoke(hit[i].id)]
    BY <1>1 DEF Revokes
  <1> HIDE DEF hit, u
  <1>3. ASSUME NEW i \in 1..Len(hit)
        PROVE  /\ u[i] = ShareRevoke(hit[i].id) /\ u[i] \in Entries /\ u[i].kind = "share-revoke"
               /\ u[i].id = hit[i].id /\ LogOnly(backend, u[i]) /\ Tells(r, u[i])
    <2>1. u[i] = ShareRevoke(hit[i].id) /\ u[i] = [kind |-> "share-revoke", id |-> hit[i].id]
      BY <1>2 DEF ShareRevoke
    <2>2. u[i] \in Entries /\ u[i].kind = "share-revoke" /\ u[i].id = hit[i].id
      BY <1>1, <2>1 DEF Entries
    <2>3. QED
      BY <2>1, <2>2 DEF LogOnly, Tells
  <1>4. u \in [1..Len(hit) -> Entries]
    BY <1>2, <1>3
  <1>5. QED
    BY <1>1, <1>3, <1>4 DEF hit, u

\* What a step of a served request leaves to do.
LEMMA ServedTodo ==
  ASSUME TypeOK, RequestsInv, NEW p \in Slots, ServedStep(p)
  PROVE  \/ Advance(p) /\ Head(req[p].todo).do \notin {"record_user", "revoke_share", "update_share_paths",
                                                   "delete_shares_under", "delete_session"}
         \/ Refuse(p) /\ Head(req[p].todo).do \in {"seed", "exists", "owns_key", "owns_share"}
         \/ /\ RecordUser(p) /\ Head(req[p].todo).do = "record_user"
            /\ Then(p, Persist(UserEntry(Who(p), tables.users[Who(p)] # "inactive")))
         \/ /\ revoke_share_by_id(p) /\ Head(req[p].todo).do = "revoke_share"
            /\ Then(p, Logged(<<Arg(p)>>)) \/ Then(p, <<>>)
         \/ /\ update_share_paths(p) /\ Head(req[p].todo).do = "update_share_paths"
            /\ Then(p, Logged(Updates(tables, Who(p))))
         \/ /\ delete_shares_under(p) /\ Head(req[p].todo).do = "delete_shares_under"
            /\ \/ backend = "store" /\ Then(p, Logged(Revokes(tables, req[p].arg)))
               \/ /\ backend # "store"
                  /\ Then(p, [i \in DOMAIN Revokes(tables, req[p].arg) |->
                                  On("revoke_share", Revokes(tables, req[p].arg)[i])])
         \/ /\ delete_session(p) /\ Head(req[p].todo).do = "delete_session"
            /\ Then(p, <<>>) \/ (Then(p, <<On("delete_row", Arg(p))>>) /\ backend # "store")
  <1>1. CASE RecordUser(p)
    BY <1>1 DEF RecordUser, At
  <1>2. CASE revoke_share_by_id(p)
    BY <1>2 DEF revoke_share_by_id, At
  <1>3. CASE update_share_paths(p)
    BY <1>3 DEF update_share_paths, At, Updates, Hit
  <1>4. CASE delete_shares_under(p)
    BY <1>4 DEF delete_shares_under, At, Revokes, Hit
  <1>5. CASE delete_session(p)
    BY <1>5 DEF delete_session, At
  <1>6. CASE \/ CacheSession(p) \/ RecordSession(p) \/ Seed(p) \/ AppendStep(p) \/ ApplyStep(p) \/ Exists(p)
             \/ OwnsKey(p) \/ OwnsShare(p)
    BY <1>6 DEF CacheSession, RecordSession, Seed, AppendStep, ApplyStep, Exists, OwnsKey, OwnsShare, At, Pass
  <1>7. CASE \/ drop_sessions(p) \/ delete_rows(p) \/ drop_keys(p) \/ delete_row(p) \/ CacheKey(p) \/ DropKey(p)
             \/ Label(p) \/ RemoveTree(p) \/ factory_reset_state(p) \/ factory_reset(p)
    BY <1>7 DEF drop_sessions, delete_rows, drop_keys, delete_row, CacheKey, DropKey, Label, RemoveTree,
           factory_reset_state, factory_reset, At
  <1>8. QED
    BY <1>1, <1>2, <1>3, <1>4, <1>5, <1>6, <1>7 DEF ServedStep

LEMMA ServedScript ==
  ASSUME TypeOK, RequestsInv, ScriptInv, NEW p \in Slots, ServedStep(p), req'[p] # Nothing
  PROVE  Scripted(backend, req'[p], req'[p].todo)
  <1> DEFINE r == req[p]
             s == Head(r.todo)
  <1>1. Busy(p) /\ s.do \notin Opening /\ DOMAIN req = Slots
    BY ServedSame DEF RequestsInv
  <1>2. /\ InProgress(backend, r) /\ Called(r) /\ Knows(r) /\ Fits(backend, r, s) /\ s \in Steps
        /\ r.todo \in Seq(Steps) /\ r.todo # <<>>
    BY <1>1, Served
  <1>3. Scripted(backend, r, r.todo)
    BY <1>1 DEF ScriptInv
  <1>4. TellsStep(backend, r, s)
    <2>1. 1 \in 1..Len(r.todo) /\ s = r.todo[1]
      BY <1>2, StepsOf
    <2>2. QED
      BY <1>3, <2>1 DEF Scripted
  <1>5. ~Refuse(p)
    BY <1>1, RefuseMoves
  <1>6. tables \in Tables /\ Who(p) \in Emails /\ Who(p) = r.user.email
    BY <1>2 DEF TypeOK, Who, Knows, Users
  <1>7. ASSUME NEW steps, Then(p, steps), Scripted(backend, r, steps)
        PROVE  Scripted(backend, req'[p], req'[p].todo)
    BY <1>1, <1>3, <1>7, ThenScripted
  <1>8. Then(p, <<>>) => Scripted(backend, req'[p], req'[p].todo)
    BY <1>7, ScriptedNone
  <1>9. CASE Advance(p)
    BY <1>8, <1>9 DEF Advance
  <1>10. CASE RecordUser(p)
    <2> DEFINE x == UserEntry(Who(p), tables.users[Who(p)] # "inactive")
    <2>1. Then(p, Persist(x))
      BY <1>10 DEF RecordUser
    <2>2. x \in Entries /\ Tells(r, x) /\ ~LogOnly(backend, x)
      BY <1>6 DEF UserEntry, Entries, Tells, LogOnly
    <2> HIDE DEF x
    <2>3. Scripted(backend, r, Persist(x))
      BY <2>2, ScriptedPersist
    <2>4. QED
      BY <1>7, <2>1, <2>3
  <1>11. CASE s.do = "revoke_share" /\ (Then(p, Logged(<<Arg(p)>>)) \/ Then(p, <<>>))
    <2>1. s.x \in [kind : {"share-revoke"}, id : Shares] /\ s.x = Arg(p)
      BY <1>2, <1>11 DEF Steps, Cleanup, Plain, Arg
    <2> DEFINE y == s.x
               x == <<y>>
    <2>2. y \in Entries /\ y.kind = "share-revoke"
      BY <2>1 DEF Entries
    <2>3. LogOnly(backend, y) /\ Tells(r, y)
      BY <1>4, <1>11, <2>2 DEF LogOnly, Tells, TellsStep
    <2>4. x \in [1..1 -> Entries] /\ \A i \in 1..1 : x[i] = y
      BY <2>2
    <2>5. \A i \in 1..1 : LogOnly(backend, x[i]) /\ Tells(r, x[i])
      BY <2>3, <2>4
    <2> HIDE DEF x, y
    <2>6. Scripted(backend, r, Logged(x))
      BY <2>4, <2>5, ScriptedLogged
    <2>7. Then(p, Logged(x)) \/ Then(p, <<>>)
      BY <1>11, <2>1 DEF x, y
    <2>8. QED
      BY <1>7, <1>8, <2>6, <2>7
  <1>12. CASE s.do = "update_share_paths" /\ Then(p, Logged(Updates(tables, Who(p))))
    <2> DEFINE u == Updates(tables, r.user.email)
               hit == Hit(tables, Home(r.user.email, Old))
    <2>1. r.op = "rename"
      BY <1>4, <1>12 DEF TellsStep
    <2>2. /\ u \in [1..Len(hit) -> Entries] /\ Len(hit) \in Nat
          /\ \A i \in 1..Len(hit) : LogOnly(backend, u[i]) /\ Tells(r, u[i])
      BY <1>6, <2>1, UpdatesTold
    <2> HIDE DEF u, hit
    <2>3. Scripted(backend, r, Logged(u))
      BY <2>2, ScriptedLogged
    <2>4. Then(p, Logged(u))
      BY <1>6, <1>12 DEF u
    <2>5. QED
      BY <1>7, <2>3, <2>4
  <1>13. ASSUME s.do = "delete_shares_under"
         PROVE  /\ Scripted(backend, r, Logged(Revokes(tables, r.arg)))
                /\ Scripted(backend, r, [i \in DOMAIN Revokes(tables, r.arg) |->
                                            On("revoke_share", Revokes(tables, r.arg)[i])])
    <2> DEFINE u == Revokes(tables, r.arg)
               hit == Hit(tables, r.arg)
               w == [i \in DOMAIN u |-> On("revoke_share", u[i])]
    <2>1. r.op = "delete"
      BY <1>2, <1>13 DEF Fits
    <2>2. /\ u \in [1..Len(hit) -> Entries] /\ Len(hit) \in Nat
          /\ \A i \in 1..Len(hit) : LogOnly(backend, u[i]) /\ Tells(r, u[i])
          /\ \A i \in 1..Len(hit) : u[i] = ShareRevoke(hit[i].id) /\ hit[i].id \in Shares
      BY <1>6, <2>1, RevokesTold
    <2> HIDE DEF u, hit
    <2>3. Scripted(backend, r, Logged(u))
      BY <2>2, ScriptedLogged
    <2>4. \A i \in 1..Len(hit) : Quiet(backend, r, On("revoke_share", ShareRevoke(hit[i].id)))
      BY <2>1, <2>2, OnQuiet
    <2>5. w = [i \in 1..Len(hit) |-> On("revoke_share", u[i])]
      BY <2>2
    <2>6. \A i \in 1..Len(hit) : w[i] = On("revoke_share", ShareRevoke(hit[i].id))
      BY <2>2, <2>5
    <2>7. \A i \in 1..Len(hit) : Quiet(backend, r, w[i])
      BY <2>4, <2>6
    <2>8. w \in [1..Len(hit) -> Steps]
      BY <2>5, <2>7 DEF Quiet
    <2> HIDE DEF w
    <2>9. w \in Seq(Steps) /\ Len(w) = Len(hit)
      BY <2>2, <2>8
    <2>10. Scripted(backend, r, w)
      BY <2>7, <2>9, ScriptedQuiet
    <2>11. QED
      BY <2>3, <2>10 DEF u, w
  <1>14. CASE /\ s.do = "delete_shares_under"
              /\ \/ Then(p, Logged(Revokes(tables, r.arg)))
                 \/ Then(p, [i \in DOMAIN Revokes(tables, r.arg) |->
                                On("revoke_share", Revokes(tables, r.arg)[i])])
    BY <1>7, <1>13, <1>14
  <1>15. CASE s.do = "delete_session" /\ (Then(p, <<>>) \/ Then(p, <<On("delete_row", Arg(p))>>))
    <2>1. s.x \in [kind : {"none"}, email : Sessions]
      BY <1>2, <1>15 DEF Steps, Cleanup, Plain
    <2>2. Arg(p) = About("none", s.x.email) /\ s.x.email \in Sessions
      BY <2>1 DEF About, Arg
    <2>3. Quiet(backend, r, On("delete_row", Arg(p)))
      BY <2>2, OnQuiet
    <2>4. Scripted(backend, r, <<On("delete_row", Arg(p))>>)
      BY <2>3, ScriptedOne
    <2>5. QED
      BY <1>7, <1>8, <1>15, <2>4
  <1>16. QED
    BY <1>5, <1>9, <1>10, <1>11, <1>12, <1>14, <1>15, ServedTodo

LEMMA StepKeepsScript ==
  ASSUME TypeOK, RequestsInv, ScriptInv, NEW p \in Slots, Step(p)
  PROVE  ScriptInv'
  <1>0. backend' = backend
    BY StepKeeps
  <1>1. /\ Busy(p) /\ InProgress(backend, req[p])
        /\ \A q \in Slots : q # p => req'[q] = req[q]
        /\ \/ req'[p] = Nothing
           \/ InProgress(backend, req'[p]) /\ req'[p].op = req[p].op
    BY StepShape
  <1>2. ASSUME req'[p] # Nothing, Head(req'[p].todo).do \notin Opening
        PROVE  Scripted(backend, req'[p], req'[p].todo)
    <2>0. InProgress(backend, req'[p]) /\ Called(req'[p]) /\ Knows(req'[p])
      BY <1>1, <1>2, InProgressFields DEF Opening
    <2>1. CASE ServedStep(p)
      BY <1>2, <2>1, ServedScript
    <2>2. CASE ConfirmSession(p) \/ ConfirmKey(p)
      <3>1. ~Refuse(p)
        BY <1>2, RefuseMoves DEF RequestsInv
      <3>2. PICK user : Serve(p, user)
        BY <2>2, <3>1 DEF ConfirmSession, ConfirmKey
      <3>3. req[p].op # "login"
        BY <1>1, <2>2, InProgressFields DEF Fits, LoginSteps, ConfirmSession, ConfirmKey, At
      <3> DEFINE q == req'[p]
      <3>4. /\ q.op = req[p].op /\ q.cred = req[p].cred /\ q.arg = req[p].arg /\ q.user = user
            /\ \E r : /\ r.op = req[p].op /\ r.arg = req[p].arg /\ r.user = user /\ r.cred = req[p].cred
                      /\ q.todo = Handler(r).todo
        BY <1>1, <1>2, <3>2, ServeSame
      <3>5. PICK r : /\ r.op = q.op /\ r.arg = q.arg /\ r.user = q.user /\ r.cred = q.cred
                     /\ q.todo = Handler(r).todo
        BY <3>4
      <3>6. Handler(r).todo = Handler(q).todo
        BY <3>5 DEF Handler, Serves, UserHandler, TopHandler
      <3>7. Scripted(backend, q, Handler(q).todo)
        BY <2>0, <3>3, <3>4, ScriptedHandler
      <3>8. QED
        BY <3>5, <3>6, <3>7
    <2>3. CASE Lookup(p)
      <3>1. req'[p].todo = <<Do("confirm")>>
        BY <1>2, <2>3, LookupFinds
      <3>2. Head(<<Do("confirm")>>).do = "confirm"
        BY DEF Do
      <3>3. QED
        BY <1>2, <3>1, <3>2 DEF Opening
    <2>4. CASE Allowed(p) \/ LoginRole(p) \/ LoginActive(p)
      <3>1. req[p].op = "login" /\ Head(req[p].todo).do \in {"allowed", "login_role", "is_active"}
        BY <1>1, <2>4, InProgressFields DEF Fits, LoginSteps, Allowed, LoginRole, LoginActive, At
      <3>2. Entered(req[p], Head(req[p].todo).do)
        BY <1>1 DEF InProgress
      <3>3. CASE Head(req[p].todo).do = "is_active"
        <4>1. req[p].todo = <<Do("is_active")>> /\ Tail(<<Do("is_active")>>) = <<>>
          BY <3>2, <3>3 DEF Entered
        <4>2. /\ LoginActive(p)
              /\ req'[p].todo = login_known(req[p].user.email, req[p].user.role) \o Tail(req[p].todo)
          BY <1>2, <3>1, <3>3, LoginGoesOn
        <4>3. SameRequest(req'[p], req[p])
          <5>1. ~Refuse(p)
            BY <1>2, RefuseMoves DEF RequestsInv
          <5>2. \E steps : Then(p, steps)
            BY <4>2, <5>1 DEF LoginActive
          <5>3. QED
            BY <1>1, <1>2, <5>2, ThenSame
        <4> DEFINE q == req'[p]
        <4>4. Scripted(backend, q, login_known(q.user.email, q.user.role))
          BY <2>0, <3>1, <4>3, ScriptedLogin DEF SameRequest
        <4>5. Scripted(backend, q, login_known(q.user.email, q.user.role) \o <<>>)
          BY <4>4, ScriptedNone, ScriptedJoin
        <4>6. QED
          BY <4>1, <4>2, <4>3, <4>5 DEF SameRequest
      <3>4. CASE Head(req[p].todo).do \in {"allowed", "login_role"}
        <4>1. req'[p].todo = Tail(req[p].todo)
          BY <1>2, <3>1, <3>4, LoginGoesOn
        <4>2. \/ req[p].todo = LoggingIn
              \/ req[p].todo = <<Do("login_role"), Do("is_active")>>
          BY <3>2, <3>4 DEF Entered
        <4> DEFINE c == Do("allowed")
                   d == Do("login_role")
                   e == Do("is_active")
        <4>3. d.do \in Opening /\ e.do \in Opening /\ LoggingIn = <<c, d, e>>
          BY DEF Do, Opening, LoggingIn
        <4>4. \/ req[p].todo = <<c, d, e>>
              \/ req[p].todo = <<d, e>>
          BY <4>2, <4>3
        <4> HIDE DEF c, d, e
        <4>5. Head(Tail(<<c, d, e>>)) = d /\ Head(Tail(<<d, e>>)) = e
          OBVIOUS
        <4>6. QED
          BY <1>2, <4>1, <4>3, <4>4, <4>5
      <3>5. QED
        BY <3>1, <3>3, <3>4
    <2>5. QED
      BY <2>1, <2>2, <2>3, <2>4 DEF Step, ServedStep
  <1>3. \A q \in Slots : Busy(q)' => req'[q] # Nothing
    BY DEF Busy, Idle
  <1>4. ASSUME NEW q \in Slots, q # p, Busy(q)', Head(req'[q].todo).do \notin Opening
        PROVE  Scripted(backend, req'[q], req'[q].todo)
    BY <1>1, <1>4 DEF ScriptInv, Busy, Idle
  <1> HIDE DEF Busy
  <1>5. QED
    BY <1>0, <1>2, <1>3, <1>4 DEF ScriptInv

LEMMA OpeningFirst ==
  Head(Identified).do \in Opening /\ Head(LoggingIn).do \in Opening
  <1> DEFINE a == Do("lookup")
             b == Do("confirm")
             c == Do("allowed")
             d == Do("login_role")
             e == Do("is_active")
  <1>1. Identified = <<a, b>> /\ LoggingIn = <<c, d, e>> /\ a.do \in Opening /\ c.do \in Opening
    BY DEF Identified, LoggingIn, Opening, Do
  <1> HIDE DEF a, b, c, d, e
  <1>2. QED
    BY <1>1, FirstOf

LEMMA ScriptStays ==
  ASSUME AuthInv, ScriptInv, [Next]_vars
  PROVE  ScriptInv'
  <1>1. TypeOK /\ RequestsInv
    BY DEF AuthInv
  <1>2. ASSUME NEW p \in Slots, Begin(p)
        PROVE  ScriptInv'
    <2>1. /\ \A q \in Slots : q # p /\ Busy(q) => SameRequest(req'[q], req[q]) /\ req'[q].todo = req[q].todo
          /\ \A q \in Slots : Busy(q)' => q = p \/ Busy(q)
          /\ req'[p].todo = Identified \/ req'[p].todo = LoggingIn
      BY <1>1, <1>2, BeginShape
    <2>2. Head(req'[p].todo).do \in Opening
      BY <2>1, OpeningFirst
    <2>3. ASSUME NEW q \in Slots, q # p, Busy(q), Head(req'[q].todo).do \notin Opening
          PROVE  Scripted(backend, req'[q], req'[q].todo)
      <3>1. Scripted(backend, req[q], req[q].todo) /\ SameRequest(req'[q], req[q]) /\ req'[q].todo = req[q].todo
        BY <2>1, <2>3 DEF ScriptInv
      <3>2. QED
        BY <3>1, ScriptedAlike DEF SameRequest
    <2>4. backend' = backend
      BY BackendStays
    <2> HIDE DEF Busy
    <2>5. QED
      BY <2>1, <2>2, <2>3, <2>4 DEF ScriptInv
  <1>3. CASE \E p \in Slots : Step(p)
    BY <1>1, <1>3, StepKeepsScript
  <1>4. CASE \E s \in Sessions : Expire(s)
    BY <1>4 DEF Expire, ScriptInv, Busy, Idle
  <1>5. CASE Restart
    <2>1. \A p \in Slots : ~Busy(p)'
      BY <1>5 DEF Restart, Busy, Idle
    <2> HIDE DEF Busy
    <2>2. QED
      BY <2>1 DEF ScriptInv
  <1>6. CASE UNCHANGED vars
    BY <1>6 DEF vars, ScriptInv, Busy, Idle
  <1>7. QED
    BY <1>2, <1>3, <1>4, <1>5, <1>6 DEF Next

-----------------------------------------------------------------------------
(* What the log replays to *)

Replayed == replay_jsonl(log)

LEMMA ReplayNext ==
  ASSUME backend' = backend
  PROVE  Replayed' = replay_jsonl(log')
  BY DEF Replayed, replay_jsonl, Changed, execute, apply_entry, Retain, Only, DeletedUser, set_role,
         upsert_user, IsUser, EmptyTables

LEMMA ReplayNone == replay_jsonl(<<>>) = EmptyTables
  <1>1. <<>> \in Seq(Entries) /\ Len(<<>>) = 0
    OBVIOUS
  <1>2. PICK f : Replaying(f, <<>>)
    BY <1>1, ReplayUnfolds
  <1>3. QED
    BY <1>1, <1>2 DEF Replaying

LEMMA ReplayAppend ==
  ASSUME NEW s \in Seq(Entries), NEW x \in Entries
  PROVE  replay_jsonl(Append(s, x)) = Changed(replay_jsonl(s), x)
  <1> DEFINE N == Len(s)
             w == Append(s, x)
  <1>1. /\ N \in Nat /\ w \in Seq(Entries) /\ Len(w) = N + 1 /\ w[N + 1] = x
        /\ \A i \in 1..N : w[i] = s[i] /\ s[i] \in Entries
    OBVIOUS
  <1>2. PICK f : Replaying(f, s)
    BY ReplayUnfolds
  <1>3. PICK h : Replaying(h, w)
    BY <1>1, ReplayUnfolds
  <1> HIDE DEF N, w
  <1>4. /\ f[0] = EmptyTables /\ h[0] = EmptyTables
        /\ \A n \in 1..N : f[n] = Changed(f[n - 1], s[n])
        /\ \A n \in 1..(N + 1) : h[n] = Changed(h[n - 1], w[n])
        /\ replay_jsonl(s) = f[N] /\ replay_jsonl(w) = h[N + 1]
    BY <1>1, <1>2, <1>3 DEF Replaying, N
  <1> DEFINE same == {n \in 0..N : f[n] = h[n]}
  <1>5. 0 \in same
    BY <1>1, <1>4
  <1>6. ASSUME NEW k \in 0..N, k \in same, k # N
        PROVE  k + 1 \in same
    <2>1. k + 1 \in 1..N /\ k + 1 \in 1..(N + 1) /\ (k + 1) - 1 = k /\ k + 1 \in 0..N
      BY <1>1, <1>6
    <2>2. f[k + 1] = Changed(f[k], s[k + 1]) /\ h[k + 1] = Changed(h[k], w[k + 1])
      BY <1>4, <2>1
    <2>3. QED
      BY <1>1, <1>6, <2>1, <2>2
  <1> HIDE DEF same
  <1>7. N \in same
    <2>1. \A k \in 0..N : k \in same
      BY <1>1, <1>5, <1>6, UpTo
    <2>2. QED
      BY <1>1, <2>1
  <1>8. N + 1 \in 1..(N + 1) /\ (N + 1) - 1 = N
    BY <1>1
  <1>9. h[N + 1] = Changed(h[N], x)
    BY <1>1, <1>4, <1>8
  <1>10. QED
    BY <1>4, <1>7, <1>9 DEF same, w

-----------------------------------------------------------------------------
(* Shares: what changes them *)

\* A share after a change was there before, or is new, or has been moved.
ShareChanged(t, x, s) ==
    \/ /\ s \in Elements(t.shares)
       /\ x.kind = "user-delete" => s.owner # x.email
    \/ x.kind = "share" /\ s = x.share /\ (backend = "pg" => IsUser(t, s.owner))
    \/ /\ x.kind = "share-path-update" /\ s.id = x.id /\ s.path = x.path
       /\ \E u \in Elements(t.shares) : u.id = s.id /\ u.owner = s.owner

LEMMA ElementOf ==
  ASSUME NEW S, NEW s \in Seq(S)
  PROVE  Elements(s) \subseteq S
  BY DEF Elements

LEMMA AppendedElements ==
  ASSUME NEW S, NEW s \in Seq(S), NEW e \in S, NEW x \in Elements(Append(s, e))
  PROVE  x \in Elements(s) \/ x = e
  <1>1. Len(Append(s, e)) = Len(s) + 1 /\ Len(s) \in Nat
    OBVIOUS
  <1>2. PICK i \in 1..(Len(s) + 1) : x = Append(s, e)[i]
    BY <1>1 DEF Elements
  <1>3. i \in 1..Len(s) \/ i = Len(s) + 1
    BY <1>1
  <1>4. QED
    BY <1>1, <1>2, <1>3 DEF Elements

LEMMA RetainedElements ==
  ASSUME NEW t \in Tables, NEW chosen, NEW s \in Elements(Only(t.shares, chosen))
  PROVE  s \in Elements(t.shares) /\ s \in chosen
  <1>1. t.shares \in Seq(ShareRecords)
    BY DEF Tables
  <1>2. QED
    BY <1>1, OnlyPicks

\* The shares with some of them moved.
LEMMA MappedElements ==
  ASSUME NEW v \in Seq(ShareRecords), NEW w, NEW s \in Elements(w), DOMAIN w = DOMAIN v,
         \A i \in DOMAIN v : w[i].owner = v[i].owner
  PROVE  \E u \in Elements(v) : u.owner = s.owner
  <1>1. DOMAIN v = 1..Len(v) /\ Len(v) \in Nat
    OBVIOUS
  <1>2. Len(w) = Len(v)
    <2>1. DOMAIN w = 1..Len(v)
      BY <1>1
    <2>2. QED
      BY <1>1, <2>1, LenProperties
  <1>3. PICK i \in 1..Len(v) : s = w[i]
    BY <1>2 DEF Elements
  <1>4. v[i] \in Elements(v)
    BY <1>1 DEF Elements
  <1>5. QED
    BY <1>1, <1>3, <1>4

LEMMA ChangedShares ==
  ASSUME NEW t \in Tables, NEW x \in Entries, NEW s \in Elements(Changed(t, x).shares)
  PROVE  ShareChanged(t, x, s)
  <1> USE EntryFields
  <1>0. t.shares \in Seq(ShareRecords)
    BY DEF Tables
  <1>1. CASE x.kind = "user-delete"
    <2> DEFINE chosen == {u \in ToSet(t.shares) : ~(u.owner = x.email \/ u.grantee = x.email \/ u.path[1] = x.email)}
    <2>1. Changed(t, x) = DeletedUser(t, x.email)
      BY <1>1 DEF Changed, execute, apply_entry
    <2>2. DeletedUser(t, x.email).shares = Only(t.shares, chosen)
      BY DEF DeletedUser, Retain, Tables
    <2>3. \A u \in chosen : u.owner # x.email
      OBVIOUS
    <2> HIDE DEF chosen
    <2>4. s \in Elements(t.shares) /\ s \in chosen
      BY <2>1, <2>2, RetainedElements
    <2>5. QED
      BY <2>3, <2>4 DEF ShareChanged
  <1>2. CASE x.kind = "share"
    <2>1. Changed(t, x).shares = t.shares
          \/ (Changed(t, x).shares = Append(t.shares, x.share) /\ (backend = "pg" => IsUser(t, x.share.owner)))
      BY <1>2 DEF Changed, execute, apply_entry, Tables
    <2>2. x.share \in ShareRecords
      BY <1>2
    <2>3. CASE Changed(t, x).shares = t.shares
      BY <1>2, <2>3 DEF ShareChanged
    <2>4. CASE Changed(t, x).shares = Append(t.shares, x.share) /\ (backend = "pg" => IsUser(t, x.share.owner))
      <3>1. s \in Elements(t.shares) \/ s = x.share
        BY <1>0, <2>2, <2>4, AppendedElements
      <3>2. QED
        BY <1>2, <2>4, <3>1 DEF ShareChanged
    <2>5. QED
      BY <2>1, <2>3, <2>4
  <1>3. CASE x.kind = "share-revoke"
    <2> DEFINE chosen == {u \in ToSet(t.shares) : ~(u.id = x.id)}
    <2>1. Changed(t, x).shares = Only(t.shares, chosen)
      BY <1>3 DEF Changed, execute, apply_entry, Retain, Tables
    <2> HIDE DEF chosen
    <2>2. s \in Elements(t.shares)
      BY <2>1, RetainedElements
    <2>3. QED
      BY <1>3, <2>2 DEF ShareChanged
  <1>4. CASE x.kind = "share-path-update"
    <2> DEFINE v == t.shares
               w == [i \in DOMAIN v |-> IF v[i].id = x.id THEN [v[i] EXCEPT !.path = x.path] ELSE v[i]]
    <2>1. Changed(t, x).shares = w
      BY <1>4 DEF Changed, execute, apply_entry, Tables
    <2>2. DOMAIN w = DOMAIN v /\ \A i \in DOMAIN v : w[i] = v[i] \/ w[i] = [v[i] EXCEPT !.path = x.path]
      OBVIOUS
    <2>3. \A i \in DOMAIN v : v[i].id = x.id => w[i] = [v[i] EXCEPT !.path = x.path]
      OBVIOUS
    <2>4. \A i \in DOMAIN v : v[i].id # x.id => w[i] = v[i]
      OBVIOUS
    <2>5. DOMAIN v = 1..Len(v) /\ Len(v) \in Nat /\ v \in Seq(ShareRecords)
      BY <1>0
    <2> HIDE DEF v, w
    <2>6. Len(w) = Len(v)
      BY <2>2, <2>5, LenProperties
    <2>7. PICK i \in 1..Len(v) : s = w[i]
      BY <2>1, <2>6 DEF Elements
    <2>8. v[i] \in ShareRecords /\ v[i] \in Elements(v)
      BY <2>5, <2>7 DEF Elements
    <2>9. CASE v[i].id = x.id
      <3>1. s.id = x.id /\ s.path = x.path /\ v[i].id = s.id /\ v[i].owner = s.owner
        BY <2>3, <2>5, <2>7, <2>8, <2>9 DEF ShareRecords
      <3>2. QED
        BY <1>4, <2>8, <3>1 DEF ShareChanged, v
    <2>10. CASE v[i].id # x.id
      BY <1>4, <2>4, <2>5, <2>7, <2>8, <2>10 DEF ShareChanged, v
    <2>11. QED
      BY <2>9, <2>10
  <1>5. CASE x.kind \in {"top-admin", "admin", "admin-revoke", "user", "api-key"}
    <2>1. Changed(t, x).shares = t.shares
      BY <1>5 DEF Changed, execute, set_role, upsert_user, apply_entry, Tables
    <2>2. QED
      BY <1>5, <2>1 DEF ShareChanged
  <1>6. CASE x.kind \in {"user-deactivate", "user-activate", "api-key-relabel", "api-key-revoke", "domain",
                         "domain-revoke", "allowed-email", "allowed-email-revoke"}
    <2>1. Changed(t, x) = apply_entry(t, x)
      BY <1>6 DEF Changed, execute
    <2>2. apply_entry(t, x).shares = t.shares
      BY <1>6 DEF apply_entry, Tables
    <2>3. QED
      BY <1>6, <2>1, <2>2 DEF ShareChanged
  <1>7. QED
    BY <1>1, <1>2, <1>3, <1>4, <1>5, <1>6 DEF Kinds, AccountKinds

\* What a step does to the shares.
LEMMA StepShares ==
  ASSUME TypeOK, RequestsInv, NEW p \in Slots, Step(p)
  PROVE  \/ ApplyStep(p) /\ tables' = Changed(tables, Arg(p)) /\ Arg(p) \in Entries
         \/ tables'.shares = tables.shares
         \/ \E chosen : tables'.shares = Only(tables.shares, chosen)
         \/ update_share_paths(p)
         \/ tables' = KeptPolicy
  <1>1. tables \in Tables
    BY DEF TypeOK
  <1>2. CASE \/ Lookup(p) \/ ConfirmSession(p) \/ ConfirmKey(p)
             \/ Allowed(p) \/ LoginRole(p) \/ LoginActive(p) \/ CacheSession(p)
             \/ RecordUser(p) \/ RecordSession(p) \/ Seed(p)
             \/ AppendStep(p) \/ Exists(p) \/ OwnsKey(p) \/ OwnsShare(p)
    BY <1>2 DEF Lookup, ConfirmSession, ConfirmKey, Allowed, LoginRole, LoginActive, CacheSession,
         RecordUser, RecordSession, Seed, AppendStep, Exists, OwnsKey, OwnsShare, store
  <1>3. CASE \/ drop_sessions(p) \/ delete_rows(p) \/ drop_keys(p)
             \/ delete_session(p) \/ delete_row(p) \/ CacheKey(p) \/ DropKey(p) \/ RemoveTree(p)
    BY <1>3 DEF drop_sessions, delete_rows, drop_keys, delete_session, delete_row, CacheKey, DropKey,
         RemoveTree, store
  <1>4. CASE revoke_share_by_id(p)
    <2> DEFINE chosen == {s \in ToSet(tables.shares) : ~(s.id = Arg(p).id)}
    <2>1. tables'.shares = Only(tables.shares, chosen)
      BY <1>1, <1>4 DEF revoke_share_by_id, Retain, Tables
    <2>2. QED
      BY <2>1
  <1>5. CASE delete_shares_under(p)
    <2> DEFINE chosen == {s \in ToSet(tables.shares) : ~Under(s.path, req[p].arg)}
    <2>1. tables' = tables \/ tables'.shares = Only(tables.shares, chosen)
      BY <1>1, <1>5 DEF delete_shares_under, Retain, Tables
    <2>2. QED
      BY <2>1
  <1>6. CASE Label(p)
    BY <1>1, <1>6 DEF Label, Tables
  <1>7. CASE factory_reset_state(p) \/ factory_reset(p)
    BY <1>7 DEF factory_reset_state, factory_reset
  <1>8. CASE ApplyStep(p)
    BY <1>8, EntryArg DEF ApplyStep
  <1>9. QED
    BY <1>2, <1>3, <1>4, <1>5, <1>6, <1>7, <1>8 DEF Step

\* A login policy has no accounts, keys and shares.
LEMMA ChangedPolicy ==
  ASSUME NEW t \in Tables, NEW x \in Entries, x.kind \in PolicyKinds
  PROVE  /\ Changed(t, x).users = t.users /\ Changed(t, x).keys = t.keys
         /\ Changed(t, x).shares = t.shares /\ Changed(t, x).top = t.top
  BY DEF Changed, execute, apply_entry, Tables, PolicyKinds

Bare(t) == t.users = EmptyTables.users /\ t.keys = EmptyTables.keys /\ t.shares = <<>> /\ t.top = {}

LEMMA PolicyBare ==
  ASSUME NEW s, OnlyPolicy(s), NEW f, Replaying(f, s), NEW n \in 0..Len(s)
  PROVE  Bare(f[n])
  <1> DEFINE N == Len(s)
             good == {i \in 0..N : Bare(f[i])}
  <1>1. N \in Nat /\ \A i \in 1..N : s[i] \in Entries /\ s[i].kind \in PolicyKinds
    BY DEF OnlyPolicy
  <1>2. /\ f \in [0..N -> Tables] /\ f[0] = EmptyTables
        /\ \A i \in 1..N : f[i] = Changed(f[i - 1], s[i])
    BY DEF Replaying
  <1> HIDE DEF N
  <1>3. 0 \in good
    BY <1>1, <1>2 DEF Bare, EmptyTables
  <1>4. \A i \in 0..N : i \in good /\ i # N => i + 1 \in good
    <2> SUFFICES ASSUME NEW i \in 0..N, Bare(f[i]), i # N
                 PROVE  i + 1 \in 0..N /\ Bare(f[i + 1])
      OBVIOUS
    <2>1. i + 1 \in 1..N /\ (i + 1) - 1 = i /\ i + 1 \in 0..N
      BY <1>1
    <2> DEFINE u == f[i]
               x == s[i + 1]
    <2>2. u \in Tables /\ x \in Entries /\ x.kind \in PolicyKinds /\ f[i + 1] = Changed(u, x)
      BY <1>1, <1>2, <2>1
    <2> HIDE DEF x
    <2>3. Bare(Changed(u, x))
      <3>1. Bare(u)
        OBVIOUS
      <3> HIDE DEF u
      <3>2. QED
        BY <2>2, <3>1, ChangedPolicy DEF Bare
    <2>4. QED
      BY <2>1, <2>2, <2>3
  <1> HIDE DEF good
  <1>5. \A i \in 0..N : i \in good
    BY <1>1, <1>3, <1>4, UpTo
  <1>6. QED
    BY <1>5 DEF good, N

LEMMA ReplayedPolicy ==
  ASSUME NEW s, OnlyPolicy(s)
  PROVE  Bare(replay_jsonl(s))
  <1>1. s \in Seq(Entries)
    BY DEF OnlyPolicy
  <1>2. PICK f : Replaying(f, s)
    BY <1>1, ReplayUnfolds
  <1>3. Len(s) \in 0..Len(s)
    BY <1>1
  <1>4. QED
    BY <1>2, <1>3, PolicyBare DEF Replaying

LEMMA NothingPolicy == OnlyPolicy(<<>>)
  <1>1. <<>> \in Seq(Entries) /\ Len(<<>>) = 0
    OBVIOUS
  <1>2. QED
    BY <1>1 DEF OnlyPolicy

LEMMA BareNone ==
  ASSUME NEW t, Bare(t)
  PROVE  /\ \A e \in Emails : ~IsUser(t, e)
         /\ \A k \in Keys : t.keys[k] = Nobody
         /\ Elements(t.shares) = {}
  BY DEF Bare, IsUser, Elements, EmptyTables

LEMMA KeptBare ==
  ASSUME tables \in Tables
  PROVE  Bare(KeptPolicy) /\ KeptPolicy \in Tables
  BY EmptyTyped DEF KeptPolicy, Bare, EmptyTables, Tables

\* What the log replays to, after a step.
LEMMA StepReplay ==
  ASSUME TypeOK, RequestsInv, NEW p \in Slots, Step(p)
  PROVE  /\ Replayed \in Tables /\ Replayed' \in Tables
         /\ \/ AppendStep(p) /\ stored /\ Arg(p) \in Entries /\ Replayed' = Changed(Replayed, Arg(p))
            \/ log' = log /\ Replayed' = Replayed
            \/ req[p].op = "factory_reset" /\ Head(req[p].todo).do \notin Opening /\ Bare(Replayed')
  <1>1. log \in Seq(Entries) /\ tables \in Tables /\ backend' = backend
    BY StepKeeps DEF TypeOK
  <1>2. Replayed' = replay_jsonl(log')
    BY <1>1, ReplayNext
  <1>3. log' \in Seq(Entries)
    BY StepLog
  <1>4. Replayed \in Tables /\ Replayed' \in Tables
    BY <1>1, <1>2, <1>3, ReplayTyped DEF Replayed
  <1>5. CASE AppendStep(p)
    <2>1. Arg(p) \in Entries /\ log' = IF stored THEN Append(log, Arg(p)) ELSE log
      BY <1>5, EntryArg DEF AppendStep
    <2>2. QED
      BY <1>1, <1>2, <1>4, <1>5, <2>1, ReplayAppend DEF Replayed
  <1>6. CASE log' = log
    BY <1>2, <1>4, <1>6 DEF Replayed
  <1>7. CASE RemoveTree(p) \/ factory_reset(p)
    <2>1. PICK d \in {"remove_tree", "reset_db"} : At(p, d)
      BY <1>7 DEF RemoveTree, factory_reset
    <2>2. d \notin Opening
      BY DEF Opening
    <2>3. Fits(backend, req[p], Head(req[p].todo)) /\ Head(req[p].todo).do = d
      BY <2>1, <2>2, AtServed
    <2>4. req[p].op = "factory_reset"
      BY <2>3 DEF Fits
    <2>5. log' = log \/ log' = <<>> \/ log' = PolicyEntries(tables)
      BY <1>7 DEF RemoveTree, factory_reset
    <2>6. CASE log' # log
      <3>1. OnlyPolicy(log')
        BY <1>1, <2>5, <2>6, NothingPolicy, KeptTyped
      <3>2. QED
        BY <1>2, <1>4, <2>2, <2>3, <2>4, <3>1, ReplayedPolicy
    <2>7. QED
      BY <1>6, <2>6
  <1>8. QED
    <2>1. CASE \/ Lookup(p) \/ ConfirmSession(p) \/ ConfirmKey(p)
               \/ Allowed(p) \/ LoginRole(p) \/ LoginActive(p) \/ CacheSession(p)
               \/ RecordUser(p) \/ RecordSession(p) \/ Seed(p)
               \/ ApplyStep(p) \/ Exists(p) \/ OwnsKey(p) \/ OwnsShare(p)
      BY <1>6, <2>1 DEF Lookup, ConfirmSession, ConfirmKey, Allowed, LoginRole, LoginActive, CacheSession,
           RecordUser, RecordSession, Seed, ApplyStep, Exists, OwnsKey, OwnsShare, store
    <2>2. CASE \/ revoke_share_by_id(p) \/ update_share_paths(p) \/ delete_shares_under(p)
               \/ drop_sessions(p) \/ delete_rows(p) \/ drop_keys(p)
               \/ delete_session(p) \/ delete_row(p) \/ CacheKey(p) \/ DropKey(p) \/ Label(p)
               \/ factory_reset_state(p)
      BY <1>6, <2>2 DEF revoke_share_by_id, update_share_paths, delete_shares_under, drop_sessions,
           delete_rows, drop_keys, delete_session, delete_row, CacheKey, DropKey, Label, store,
           factory_reset_state
    <2>3. QED
      BY <1>5, <1>7, <2>1, <2>2 DEF Step

-----------------------------------------------------------------------------
(* Whose share it is: an id is of one owner, in the tables, in the log and in what is to come *)

Placed(s) == s.path # <<>> /\ s.path[1] = s.owner

Grants == Elements(tables.shares) \union Elements(Replayed.shares)

\* What a request knows of a share: of the one it creates, or is going to log as moved.
Owning(r, id, e) ==
    /\ r.user.email = e
    /\ \/ r.op = "create_share" /\ Head(r.todo).do \notin Opening /\ r.arg.share = id
       \/ \E i \in 1..Len(r.todo) : /\ r.todo[i].do = "append" /\ r.todo[i].x.kind = "share-path-update"
                                    /\ r.todo[i].x.id = id

Claims(id, e) ==
    \/ \E s \in Grants : s.id = id /\ s.owner = e
    \/ \E p \in Slots : Busy(p) /\ Owning(req[p], id, e)

SharesInv ==
    /\ \A s \in Grants : Placed(s)
    /\ \A id, e, d : Claims(id, e) /\ Claims(id, d) => e = d
    /\ \A id, e : Claims(id, e) => id \in issued
    /\ \A p \in Slots : Busy(p) /\ req[p].op = "create_share" =>
          /\ req[p].arg.share \in issued
          /\ Head(req[p].todo).do \in Opening => \A id, e : id = req[p].arg.share => ~Claims(id, e)
    /\ \A p, q \in Slots : Busy(p) /\ Busy(q) /\ req[p].op = "create_share" /\
          req[q].op = "create_share" /\ req[p].arg.share = req[q].arg.share => p = q

LEMMA GrantTyped ==
  ASSUME tables \in Tables, Replayed \in Tables, NEW s \in Grants
  PROVE  s \in ShareRecords
  BY ElementOf DEF Grants, Tables

\* A path of the owner's.
LEMMA HomePlaced ==
  ASSUME NEW e \in Emails, NEW folder \in {Old, New}, NEW inside \in Seq(STRING)
  PROVE  LET path == Home(e, folder) \o inside
         IN  path # <<>> /\ path[1] = e
  <1> DEFINE home == Home(e, folder)
             names == STRING
  <1>1. home \in Seq(names) /\ home[1] = e /\ Len(home) = 2 /\ inside \in Seq(names)
    BY HomePath
  <1> HIDE DEF home, names
  <1>2. Len(home \o inside) = 2 + Len(inside) /\ (home \o inside)[1] = e /\ Len(inside) \in Nat
    <2>1. Len(inside) \in Nat
      BY <1>1
    <2>2. Len(home \o inside) = 2 + Len(inside) /\ \A i \in 1..2 : (home \o inside)[i] = home[i]
      <3> DEFINE k == Len(inside)
      <3>1. /\ Len(home \o inside) = 2 + k
            /\ \A i \in 1..(2 + k) : (home \o inside)[i] = IF i <= 2 THEN home[i] ELSE inside[i - 2]
        <4>1. /\ Len(home \o inside) = Len(home) + Len(inside)
              /\ \A i \in 1..(Len(home) + Len(inside)) :
                    (home \o inside)[i] = IF i <= Len(home) THEN home[i] ELSE inside[i - Len(home)]
          BY <1>1, ConcatProperties
        <4>2. QED
          BY <1>1, <4>1
      <3>2. k \in Nat
        BY <2>1
      <3> HIDE DEF k
      <3>3. \A i \in 1..2 : i \in 1..(2 + k) /\ i <= 2
        BY <3>2
      <3>4. QED
        BY <3>1, <3>3 DEF k
    <2>3. QED
      BY <1>1, <2>1, <2>2
  <1>3. home \o inside # <<>>
    BY <1>1, <1>2
  <1>4. QED
    BY <1>2, <1>3 DEF home

\* A created share is its creator's.
LEMMA NewPlaced ==
  ASSUME NEW e \in Emails, NEW folder \in {Old, New}, NEW id, NEW grantee, NEW permission
  PROVE  LET s == NewShare(id, e, grantee, Home(e, folder), permission)
         IN  Placed(s) /\ s.id = id /\ s.owner = e
  <1> DEFINE home == Home(e, folder)
             s == NewShare(id, e, grantee, home, permission)
  <1>1. home \in Seq(STRING) /\ home[1] = e /\ Len(home) = 2
    BY HomePath
  <1> HIDE DEF home
  <1>2. home # <<>> /\ home[1] = e
    BY <1>1
  <1>3. s.path = home /\ s.id = id /\ s.owner = e
    BY DEF NewShare
  <1>4. QED
    BY <1>2, <1>3 DEF Placed, home

\* What is written of shares is the requester's own.
LEMMA WrittenOwning ==
  ASSUME RequestsInv, ScriptInv, NEW p \in Slots, At(p, "append") \/ At(p, "apply")
  PROVE  /\ Arg(p).kind = "share" =>
               /\ Placed(Arg(p).share) /\ Owning(req[p], Arg(p).share.id, Arg(p).share.owner)
               /\ req[p].op = "create_share" /\ Arg(p).share.owner = Who(p)
         /\ Arg(p).kind = "share-path-update" =>
               /\ At(p, "append") /\ Owning(req[p], Arg(p).id, Who(p))
               /\ Arg(p).path # <<>> /\ Arg(p).path[1] = Who(p)
         /\ Busy(p)
  <1> DEFINE r == req[p]
             s == Head(r.todo)
  <1>1. PICK d \in {"append", "apply"} : At(p, d)
    OBVIOUS
  <1>2. d \notin Opening
    BY DEF Opening
  <1>3. s.do = d /\ Busy(p) /\ InProgress(backend, r) /\ Called(r) /\ Who(p) \in Emails
    BY <1>1, <1>2, AtServed
  <1>4. r.todo \in Seq(Steps) /\ r.todo # <<>>
    BY <1>3 DEF InProgress
  <1>5. 1 \in 1..Len(r.todo) /\ s = r.todo[1]
    BY <1>4, StepsOf
  <1>6. TellsStep(backend, r, s)
    <2>1. Scripted(backend, r, r.todo)
      BY <1>2, <1>3 DEF ScriptInv
    <2>2. QED
      BY <1>5, <2>1 DEF Scripted
  <1>7. Tells(r, s.x) /\ (d = "apply" => ~LogOnly(backend, s.x)) /\ s.x = Arg(p) /\ Who(p) = r.user.email
    BY <1>3, <1>6 DEF TellsStep, Arg, Who
  <1> HIDE DEF r, s
  <1>8. CASE Arg(p).kind = "share"
    <2>1. /\ r.op = "create_share"
          /\ Arg(p).share = NewShare(r.arg.share, r.user.email, r.arg.grantee,
                                     Home(r.user.email, r.arg.folder), r.arg.permission)
      BY <1>7, <1>8 DEF Tells
    <2>2. r.arg.folder \in {Old, New}
      BY <1>3, <2>1 DEF Called
    <2>3. Placed(Arg(p).share) /\ Arg(p).share.id = r.arg.share /\ Arg(p).share.owner = r.user.email
      BY <1>3, <1>7, <2>1, <2>2, NewPlaced
    <2>4. QED
      BY <1>2, <1>3, <1>7, <1>8, <2>1, <2>3 DEF Owning, r, s
  <1>9. CASE Arg(p).kind = "share-path-update"
    <2>1. PICK inside \in Seq(STRING) : Arg(p).path = Home(Who(p), New) \o inside
      BY <1>7, <1>9 DEF Tells
    <2>2. Arg(p).path # <<>> /\ Arg(p).path[1] = Who(p)
      BY <1>3, <2>1, HomePlaced
    <2>3. d = "append"
      BY <1>7, <1>9 DEF LogOnly
    <2>4. Owning(r, Arg(p).id, Who(p))
      BY <1>3, <1>5, <1>7, <1>9, <2>3 DEF Owning
    <2>5. QED
      BY <1>1, <1>3, <1>9, <2>2, <2>3, <2>4 DEF r
  <1>10. QED
    BY <1>3, <1>8, <1>9

LEMMA StepGrants ==
  ASSUME TypeOK, RequestsInv, ScriptInv, SharesInv, NEW p \in Slots, Step(p), NEW s \in Grants'
  PROVE  Placed(s) /\ Claims(s.id, s.owner)
  <1> DEFINE T == tables
             R == Replayed
  <1>1. T \in Tables /\ T' \in Tables /\ R \in Tables /\ R' \in Tables
    BY StepTables, StepReplay DEF TypeOK
  <1>2. ASSUME NEW u \in Grants
        PROVE  Placed(u) /\ Claims(u.id, u.owner) /\ u \in ShareRecords
    BY <1>1, GrantTyped DEF SharesInv, Claims
  <1>3. s \in Elements(T'.shares) \/ s \in Elements(R'.shares)
    BY DEF Grants
  <1>4. Elements(T.shares) \subseteq Grants /\ Elements(R.shares) \subseteq Grants
    BY DEF Grants
  <1>5. ASSUME At(p, "append") \/ At(p, "apply"), NEW t \in Tables, Elements(t.shares) \subseteq Grants,
               Arg(p) \in Entries, s \in Elements(Changed(t, Arg(p)).shares)
        PROVE  Placed(s) /\ Claims(s.id, s.owner)
    <2>1. ShareChanged(t, Arg(p), s)
      BY <1>5, ChangedShares
    <2>2. CASE s \in Elements(t.shares)
      BY <1>2, <1>5, <2>2
    <2>3. CASE Arg(p).kind = "share" /\ s = Arg(p).share
      <3>1. Placed(s) /\ Owning(req[p], s.id, s.owner) /\ Busy(p)
        BY <1>5, <2>3, WrittenOwning
      <3>2. QED
        BY <3>1 DEF Claims
    <2>4. CASE /\ Arg(p).kind = "share-path-update" /\ s.id = Arg(p).id /\ s.path = Arg(p).path
               /\ \E u \in Elements(t.shares) : u.id = s.id /\ u.owner = s.owner
      <3>1. PICK u \in Grants : u.id = s.id /\ u.owner = s.owner
        BY <1>5, <2>4
      <3>2. Claims(s.id, s.owner)
        BY <1>2, <3>1
      <3>3. Owning(req[p], s.id, Who(p)) /\ Busy(p) /\ s.path # <<>> /\ s.path[1] = Who(p)
        BY <1>5, <2>4, WrittenOwning
      <3>4. Claims(s.id, Who(p))
        BY <3>3 DEF Claims
      <3>5. Who(p) = s.owner
        BY <3>2, <3>4 DEF SharesInv
      <3>6. QED
        BY <3>2, <3>3, <3>5 DEF Placed
    <2>5. QED
      BY <2>1, <2>2, <2>3, <2>4 DEF ShareChanged
  <1>6. CASE s \in Elements(R'.shares)
    <2>1. CASE AppendStep(p) /\ Arg(p) \in Entries /\ R' = Changed(R, Arg(p))
      <3>1. At(p, "append")
        BY <2>1 DEF AppendStep
      <3>2. QED
        BY <1>1, <1>4, <1>5, <1>6, <2>1, <3>1
    <2>2. CASE R' = R
      BY <1>2, <1>4, <1>6, <2>2
    <2>3. CASE Bare(R')
      BY <1>6, <2>3, BareNone
    <2>4. QED
      BY <2>1, <2>2, <2>3, StepReplay
  <1>7. CASE s \in Elements(T'.shares)
    <2>1. CASE ApplyStep(p) /\ T' = Changed(T, Arg(p)) /\ Arg(p) \in Entries
      <3>1. At(p, "apply")
        BY <2>1 DEF ApplyStep
      <3>2. QED
        BY <1>1, <1>4, <1>5, <1>7, <2>1, <3>1
    <2>2. CASE T'.shares = T.shares
      BY <1>2, <1>4, <1>7, <2>2
    <2>3. CASE \E chosen : T'.shares = Only(T.shares, chosen)
      BY <1>1, <1>2, <1>4, <1>7, <2>3, RetainedElements
    <2>4. CASE T' = KeptPolicy
      BY <1>1, <1>7, <2>4, KeptBare, BareNone
    <2>5. CASE update_share_paths(p)
      <3> DEFINE from == Home(Who(p), Old)
                 to == Home(Who(p), New)
                 v == T.shares
                 w == Relocated(v, from, to)
      <3>1. Who(p) \in Emails
        BY <2>5, AtServed DEF update_share_paths, Opening
      <3>2. T'.shares = w
        BY <1>1, <2>5 DEF update_share_paths, Tables
      <3>3. v \in Seq(ShareRecords)
        BY <1>1 DEF Tables
      <3>4. w = [i \in DOMAIN v |-> [v[i] EXCEPT !.path = Moved(v[i].path, from, to)]]
        BY DEF Relocated
      <3>5. from \in Seq(STRING) /\ to \in Seq(STRING)
        BY <3>1, HomePath
      <3>6. DOMAIN v = 1..Len(v) /\ Len(v) \in Nat
        BY <3>3
      <3>7. \A path : Moved(path, from, to) = Moved(path, Home(Who(p), Old), Home(Who(p), New))
        OBVIOUS
      <3>8. \A i \in Seq(STRING) : (to \o i) # <<>> /\ (to \o i)[1] = Who(p)
        BY <3>1, HomePlaced
      <3>9. from[1] = Who(p) /\ Len(from) = 2
        BY <3>1, HomePath
      <3> HIDE DEF from, to, v, w
      <3>10. DOMAIN w = DOMAIN v /\ \A i \in DOMAIN v : w[i] = [v[i] EXCEPT !.path = Moved(v[i].path, from, to)]
        BY <3>4
      <3>11. Len(w) = Len(v)
        BY <3>6, <3>10, LenProperties
      <3>12. PICK i \in 1..Len(v) : s = w[i]
        BY <1>7, <3>2, <3>11 DEF Elements
      <3>13. v[i] \in ShareRecords /\ v[i] \in Grants
        BY <1>4, <3>3, <3>12 DEF Elements, v
      <3>14. s.id = v[i].id /\ s.owner = v[i].owner /\ s.path = Moved(v[i].path, from, to)
             /\ v[i].path \in Seq(STRING)
        BY <3>6, <3>10, <3>12, <3>13 DEF ShareRecords
      <3>15. Placed(v[i]) /\ Claims(s.id, s.owner)
        BY <1>2, <3>13, <3>14
      <3>16. CASE Under(v[i].path, from)
        <4>1. PICK inside \in Seq(STRING) : Moved(v[i].path, from, to) = to \o inside
          BY <3>5, <3>14, <3>16, MovedInto
        <4>2. s.path # <<>> /\ s.path[1] = Who(p)
          BY <3>8, <3>14, <4>1
        <4>3. v[i].path[1] = from[1]
          <5>1. IsPrefix(from, v[i].path)
            BY <3>16 DEF Under
          <5> DEFINE path == v[i].path
          <5>3. path \in Seq(STRING) /\ IsPrefix(from, path)
            BY <3>14, <5>1
          <5> HIDE DEF path
          <5>4. \A j \in 1..Len(from) : from[j] = path[j]
            BY <3>5, <5>3, PrefixOf
          <5>5. QED
            BY <3>9, <5>4 DEF path
        <4>4. QED
          BY <3>9, <3>14, <3>15, <4>2, <4>3 DEF Placed
      <3>17. CASE ~Under(v[i].path, from)
        BY <3>14, <3>15, <3>17 DEF Moved, Placed
      <3>18. QED
        BY <3>16, <3>17
    <2>6. QED
      BY <2>1, <2>2, <2>3, <2>4, <2>5, StepShares
  <1>8. QED
    BY <1>3, <1>6, <1>7

\* On its way in a request has nothing to write yet.
LEMMA OpeningSteps ==
  ASSUME NEW b, NEW r, InProgress(b, r), Head(r.todo).do \in Opening, NEW i \in 1..Len(r.todo)
  PROVE  r.todo[i].do # "append"
  <1> DEFINE u == Do("lookup")
             v == Do("confirm")
             w == Do("allowed")
             x == Do("login_role")
             y == Do("is_active")
             opening == {<<u, v>>, <<v>>, <<w, x, y>>, <<x, y>>, <<y>>}
  <1>1. \A d \in {u, v, w, x, y} : d.do # "append"
    BY DEF Do
  <1>2. r.todo \in opening
    BY DEF InProgress, Entered, Opening, Identified, LoggingIn
  <1> HIDE DEF u, v, w, x, y
  <1>3. r.todo[i] \in {u, v, w, x, y}
    <2>1. CASE r.todo = <<u, v>>
      BY <2>1
    <2>2. CASE r.todo = <<v>>
      BY <2>2
    <2>3. CASE r.todo = <<w, x, y>>
      BY <2>3
    <2>4. CASE r.todo = <<x, y>>
      BY <2>4
    <2>5. CASE r.todo = <<y>>
      BY <2>5
    <2>6. QED
      BY <1>2, <2>1, <2>2, <2>3, <2>4, <2>5
  <1>4. QED
    BY <1>1, <1>3

\* An entry of todo that tells of a moved share.
Moving(s, id) == s.do = "append" /\ s.x.kind = "share-path-update" /\ s.x.id = id

LEMMA JoinedSteps ==
  ASSUME NEW u \in Seq(Steps), NEW v \in Seq(Steps), v # <<>>, NEW i \in 1..Len(u \o Tail(v))
  PROVE  \/ \E j \in 1..Len(u) : (u \o Tail(v))[i] = u[j]
         \/ \E j \in 1..Len(v) : (u \o Tail(v))[i] = v[j]
  <1> DEFINE w == Tail(v)
  <1>1. w \in Seq(Steps) /\ Len(w) = Len(v) - 1 /\ \A j \in 1..Len(w) : w[j] = v[j + 1] /\ j + 1 \in 1..Len(v)
    OBVIOUS
  <1> HIDE DEF w
  <1>2. /\ Len(u \o w) = Len(u) + Len(w) /\ Len(u) \in Nat /\ Len(w) \in Nat
        /\ \A j \in 1..(Len(u) + Len(w)) : (u \o w)[j] = IF j <= Len(u) THEN u[j] ELSE w[j - Len(u)]
    <2>1. Len(u) \in Nat /\ Len(w) \in Nat
      BY <1>1
    <2>2. /\ Len(u \o w) = Len(u) + Len(w)
          /\ \A j \in 1..(Len(u) + Len(w)) : (u \o w)[j] = IF j <= Len(u) THEN u[j] ELSE w[j - Len(u)]
      BY <1>1, ConcatProperties
    <2>3. QED
      BY <2>1, <2>2
  <1>3. i \in 1..(Len(u) + Len(w))
    BY <1>2 DEF w
  <1>4. CASE i <= Len(u)
    BY <1>2, <1>3, <1>4 DEF w
  <1>5. CASE i > Len(u)
    <2>1. i - Len(u) \in 1..Len(w) /\ (u \o w)[i] = w[i - Len(u)]
      BY <1>2, <1>3, <1>5
    <2>2. QED
      BY <1>1, <2>1 DEF w
  <1>6. QED
    BY <1>2, <1>3, <1>4, <1>5

\* What a served step leaves to tell of moved shares: what was left, or the shares it moves.
LEMMA ServedMoving ==
  ASSUME TypeOK, RequestsInv, ScriptInv, NEW p \in Slots, ServedStep(p), req'[p] # Nothing,
         NEW id, NEW i \in 1..Len(req'[p].todo), Moving(req'[p].todo[i], id)
  PROVE  \/ \E j \in 1..Len(req[p].todo) : Moving(req[p].todo[j], id)
         \/ /\ update_share_paths(p)
            /\ LET hit == Hit(tables, Home(Who(p), Old))
               IN  \E j \in 1..Len(hit) : hit[j].id = id
  <1> DEFINE r == req[p]
             s == Head(r.todo)
             told(steps) == \E j \in 1..Len(steps) : Moving(steps[j], id)
             hit == Hit(tables, Home(Who(p), Old))
             moves == update_share_paths(p) /\ \E j \in 1..Len(hit) : hit[j].id = id
  <1>1. Busy(p) /\ s.do \notin Opening /\ DOMAIN req = Slots
    BY ServedSame DEF RequestsInv
  <1>2. /\ InProgress(backend, r) /\ Called(r) /\ Knows(r) /\ Fits(backend, r, s) /\ s \in Steps
        /\ r.todo \in Seq(Steps) /\ r.todo # <<>>
    BY <1>1, Served
  <1>3. ~Refuse(p)
    BY <1>1, RefuseMoves
  <1>4. tables \in Tables /\ Who(p) \in Emails /\ Who(p) = r.user.email
    BY <1>2 DEF TypeOK, Who, Knows, Users
  <1>5. ASSUME NEW steps \in Seq(Steps), Then(p, steps), told(steps) => moves
        PROVE  told(r.todo) \/ moves
    <2>1. req'[p].todo = steps \o Tail(r.todo)
      BY <1>1, <1>5, ThenSame
    <2>2. i \in 1..Len(steps \o Tail(r.todo)) /\ Moving((steps \o Tail(r.todo))[i], id)
      BY <2>1
    <2>3. \/ \E j \in 1..Len(steps) : (steps \o Tail(r.todo))[i] = steps[j]
          \/ \E j \in 1..Len(r.todo) : (steps \o Tail(r.todo))[i] = r.todo[j]
      BY <1>2, <1>5, <2>2, JoinedSteps
    <2>4. told(steps) \/ told(r.todo)
      BY <2>2, <2>3
    <2>5. QED
      BY <1>5, <2>4
  <1>6. <<>> \in Seq(Steps) /\ ~told(<<>>)
    OBVIOUS
  <1> SUFFICES told(r.todo) \/ moves
    OBVIOUS
  <1> HIDE DEF told, moves
  <1>7. CASE Then(p, <<>>)
    BY <1>5, <1>6, <1>7
  <1>8. ASSUME NEW entries, NEW n \in Nat, entries \in [1..n -> Entries],
               \A j \in 1..n : entries[j].kind = "share-path-update" /\ entries[j].id = id => moves
        PROVE  Logged(entries) \in Seq(Steps) /\ (told(Logged(entries)) => moves)
    <2>1. CASE backend = "pg"
      BY <1>6, <2>1 DEF Logged
    <2>2. CASE backend # "pg"
      <3> DEFINE l == [j \in 1..n |-> AppendEntry(entries[j])]
      <3>1. Logged(entries) = l
        <4>1. DOMAIN entries = 1..n
          BY <1>8
        <4>2. QED
          BY <2>2, <4>1 DEF Logged
      <3>2. \A j \in 1..n : /\ AppendEntry(entries[j]) \in Steps
                            /\ AppendEntry(entries[j]).x = entries[j]
        BY <1>8 DEF AppendEntry, Steps
      <3>3. l \in [1..n -> Steps] /\ \A j \in 1..n : l[j].x = entries[j]
        BY <3>2
      <3> HIDE DEF l
      <3>4. l \in Seq(Steps) /\ Len(l) = n
        BY <3>3
      <3>5. QED
        BY <1>8, <3>1, <3>3, <3>4 DEF Moving, told
    <2>3. QED
      BY <2>1, <2>2
  <1>9. CASE Then(p, Persist(UserEntry(Who(p), tables.users[Who(p)] # "inactive")))
    <2> DEFINE x == UserEntry(Who(p), tables.users[Who(p)] # "inactive")
               a == AppendEntry(x)
               b == ApplyEntry(x)
    <2>1. x \in Entries /\ x.kind = "user"
      BY <1>4 DEF UserEntry, Entries
    <2> HIDE DEF x
    <2>2. a \in Steps /\ b \in Steps /\ ~Moving(a, id) /\ ~Moving(b, id)
      BY <2>1 DEF AppendEntry, ApplyEntry, Steps, Moving
    <2>3. Persist(x) = <<b>> \/ Persist(x) = <<a, b>>
      BY DEF Persist
    <2> HIDE DEF a, b
    <2>4. Persist(x) \in Seq(Steps) /\ ~told(Persist(x))
      <3>1. <<b>> \in Seq(Steps) /\ ~told(<<b>>)
        BY <2>2 DEF told
      <3>2. <<a, b>> \in Seq(Steps) /\ ~told(<<a, b>>)
        BY <2>2 DEF told
      <3>3. QED
        BY <2>3, <3>1, <3>2
    <2>5. Then(p, Persist(x))
      BY <1>9 DEF x
    <2>6. QED
      BY <1>5, <2>4, <2>5
  <1>10. CASE revoke_share_by_id(p) /\ s.do = "revoke_share" /\ Then(p, Logged(<<Arg(p)>>))
    <2> DEFINE x == Arg(p)
    <2>1. x \in Entries /\ x.kind = "share-revoke"
      BY <1>2, <1>10 DEF Steps, Plain, Cleanup, Arg, Entries
    <2> HIDE DEF x
    <2>2. <<x>> \in [1..1 -> Entries] /\ \A j \in 1..1 : <<x>>[j].kind # "share-path-update"
      BY <2>1
    <2>3. Logged(<<x>>) \in Seq(Steps) /\ (told(Logged(<<x>>)) => moves)
      BY <1>8, <2>2
    <2>4. QED
      BY <1>5, <1>10, <2>3 DEF x
  <1>11. CASE update_share_paths(p) /\ s.do = "update_share_paths" /\ Then(p, Logged(Updates(tables, Who(p))))
    <2> DEFINE u == Updates(tables, Who(p))
    <2>1. r.op = "rename"
      <3>1. 1 \in 1..Len(r.todo) /\ s = r.todo[1]
        BY <1>2, StepsOf
      <3>2. TellsStep(backend, r, s)
        BY <1>1, <3>1 DEF ScriptInv, Scripted
      <3>3. QED
        BY <1>11, <3>2 DEF TellsStep
    <2>2. /\ u \in [1..Len(hit) -> Entries] /\ Len(hit) \in Nat
          /\ \A j \in 1..Len(hit) : u[j].id = hit[j].id
      <3>1. r.user.email = Who(p) /\ r.user.email \in Emails
        BY <1>4
      <3> HIDE DEF r
      <3>2. LET v == Updates(tables, r.user.email)
                found == Hit(tables, Home(r.user.email, Old))
            IN  /\ v \in [1..Len(found) -> Entries] /\ Len(found) \in Nat
                /\ \A j \in 1..Len(found) : v[j].id = found[j].id
        BY <1>4, <2>1, <3>1, UpdatesTold
      <3>3. QED
        BY <3>1, <3>2
    <2> HIDE DEF u
    <2>3. \A j \in 1..Len(hit) : u[j].id = id => moves
      BY <1>11, <2>2 DEF moves
    <2>4. Logged(u) \in Seq(Steps) /\ (told(Logged(u)) => moves)
      BY <1>8, <2>2, <2>3
    <2>5. QED
      BY <1>5, <1>11, <2>4 DEF u
  <1>12. CASE delete_shares_under(p) /\ backend = "store" /\ Then(p, Logged(Revokes(tables, r.arg)))
    <2> DEFINE u == Revokes(tables, r.arg)
               n == Len(Hit(tables, r.arg))
    <2>1. r.op = "delete"
      BY <1>2, <1>12 DEF delete_shares_under, At, Fits
    <2>2. u \in [1..n -> Entries] /\ n \in Nat /\ \A j \in 1..n : u[j].kind = "share-revoke"
      BY <1>4, <2>1, RevokesTold
    <2> HIDE DEF u, n
    <2>3. Logged(u) \in Seq(Steps) /\ (told(Logged(u)) => moves)
      BY <1>8, <2>2
    <2>4. QED
      BY <1>5, <1>12, <2>3 DEF u
  <1>13. CASE /\ delete_shares_under(p)
              /\ Then(p, [j \in DOMAIN Revokes(tables, r.arg) |-> On("revoke_share", Revokes(tables, r.arg)[j])])
    <2> DEFINE u == Revokes(tables, r.arg)
               n == Len(Hit(tables, r.arg))
               l == [j \in DOMAIN u |-> On("revoke_share", u[j])]
    <2>1. r.op = "delete"
      BY <1>2, <1>13 DEF delete_shares_under, At, Fits
    <2>2. u \in [1..n -> Entries] /\ n \in Nat /\ \A j \in 1..n : u[j].kind = "share-revoke"
      BY <1>4, <2>1, RevokesTold
    <2>3. \A j \in 1..n : u[j] = ShareRevoke(Hit(tables, r.arg)[j].id) /\ Hit(tables, r.arg)[j].id \in Shares
      BY <1>4, <2>1, RevokesTold
    <2>4. \A j \in 1..n : u[j] \in [kind : {"share-revoke"}, id : Shares]
      <3> SUFFICES ASSUME NEW j \in 1..n
                   PROVE  u[j] \in [kind : {"share-revoke"}, id : Shares]
        OBVIOUS
      <3> DEFINE shareId == Hit(tables, r.arg)[j].id
      <3>1. u[j] = ShareRevoke(shareId) /\ shareId \in Shares
        BY <2>3
      <3> HIDE DEF shareId, u
      <3>2. QED
        BY <3>1 DEF ShareRevoke
    <2> HIDE DEF u, n
    <2>5. \A j \in 1..n : On("revoke_share", u[j]) \in Steps /\ On("revoke_share", u[j]).do = "revoke_share"
      BY <2>4 DEF On, Steps
    <2>6. l \in [1..n -> Steps] /\ \A j \in 1..n : l[j].do = "revoke_share"
      BY <2>2, <2>5
    <2>7. Then(p, l)
      BY <1>13 DEF u
    <2> HIDE DEF l
    <2>8. l \in Seq(Steps) /\ ~told(l)
      BY <2>2, <2>6 DEF Moving, told
    <2>9. QED
      BY <1>5, <2>7, <2>8
  <1>14. CASE delete_session(p) /\ s.do = "delete_session" /\ Then(p, <<On("delete_row", Arg(p))>>)
    <2> DEFINE a == On("delete_row", Arg(p))
    <2>1. s.x \in [kind : {"none"}, email : Sessions]
      BY <1>2, <1>14 DEF Steps, Plain, Cleanup
    <2>2. a \in Steps /\ a.do = "delete_row"
      BY <2>1 DEF On, Steps, Arg
    <2> HIDE DEF a
    <2>3. <<a>> \in Seq(Steps) /\ ~told(<<a>>)
      BY <2>2 DEF Moving, told
    <2>4. QED
      BY <1>5, <1>14, <2>3 DEF a
  <1>15. QED
    BY <1>3, <1>7, <1>9, <1>10, <1>11, <1>12, <1>13, <1>14, ServedTodo DEF Advance


\* What a step leaves to tell of a share is known before it, but of the one a request is to create.
LEMMA StepOwning ==
  ASSUME TypeOK, RequestsInv, ScriptInv, ScriptInv', SharesInv, NEW p \in Slots, Step(p), req'[p] # Nothing,
         NEW id, NEW e, Owning(req'[p], id, e)
  PROVE  \/ Claims(id, e)
         \/ /\ req[p].op = "create_share" /\ id = req[p].arg.share
            /\ Head(req[p].todo).do \in Opening /\ Head(req'[p].todo).do \notin Opening
  <1> DEFINE r == req[p]
             new == req'[p]
             tells(q) == \E i \in 1..Len(q.todo) : Moving(q.todo[i], id)
  <1>0. backend' = backend
    BY StepKeeps
  <1>1. /\ Busy(p) /\ InProgress(backend, r) /\ InProgress(backend, new) /\ new.op = r.op
        /\ Head(new.todo).do \in Opening => Head(r.todo).do \in Opening
    BY StepShape
  <1>2. new.arg = r.arg /\ (ServedStep(p) => SameRequest(new, r) /\ Head(r.todo).do \notin Opening)
    BY StepSame, ServedSame
  <1>3. \/ new.op = "create_share" /\ Head(new.todo).do \notin Opening /\ new.arg.share = id
        \/ tells(new)
    BY DEF Owning, Moving
  <1>4. new.user.email = e
    BY DEF Owning
  <1>5. Busy(p)'
    BY DEF Busy, Idle
  <1>6. CASE ServedStep(p)
    <2>1. Head(r.todo).do \notin Opening /\ r.user = new.user
      BY <1>2, <1>6 DEF SameRequest
    <2>2. Owning(r, id, e) => Claims(id, e)
      BY <1>1 DEF Claims
    <2>3. CASE new.op = "create_share" /\ new.arg.share = id
      <3>1. Owning(r, id, e)
        BY <1>1, <1>2, <1>4, <2>1, <2>3 DEF Owning
      <3>2. QED
        BY <2>2, <3>1
    <2>4. CASE tells(r)
      <3>1. Owning(r, id, e)
        BY <1>4, <2>1, <2>4 DEF Owning, Moving
      <3>2. QED
        BY <2>2, <3>1
    <2>5. CASE tells(new) /\ ~tells(r)
      <3> DEFINE hit == Hit(tables, Home(Who(p), Old))
      <3>1. update_share_paths(p) /\ \E j \in 1..Len(hit) : hit[j].id = id
        BY <1>6, <2>5, ServedMoving
      <3>2. PICK j \in 1..Len(hit) : hit[j].id = id
        BY <3>1
      <3>3. tables \in Tables
        BY DEF TypeOK
      <3> DEFINE from == Home(Who(p), Old)
                 u == hit[j]
      <3>4. u \in ShareRecords /\ u.path \in Seq(STRING) /\ Under(u.path, from)
        BY <3>3, HitUnder
      <3>5. u \in Elements(tables.shares)
        <4> DEFINE chosen == {x \in ToSet(tables.shares) : Under(x.path, from)}
        <4>1. hit = Only(tables.shares, chosen)
          BY DEF Hit
        <4>2. hit[j] \in Elements(hit)
          BY DEF Elements
        <4> HIDE DEF chosen, hit
        <4>3. QED
          BY <3>3, <4>1, <4>2, RetainedElements
      <3>6. u \in Grants /\ Placed(u)
        BY <3>5 DEF Grants, SharesInv
      <3>7. Who(p) \in Emails /\ Who(p) = e
        <4>1. Who(p) \in Emails
          BY <3>1, AtServed DEF update_share_paths, Opening
        <4>2. QED
          BY <1>4, <2>1, <4>1 DEF Who
      <3>8. from \in Seq(STRING) /\ from[1] = Who(p) /\ Len(from) = 2
        BY <3>7, HomePath
      <3> HIDE DEF from
      <3>9. u.path[1] = from[1]
        <4> DEFINE path == u.path
        <4>1. path \in Seq(STRING) /\ IsPrefix(from, path)
          BY <3>4 DEF Under
        <4> HIDE DEF path, u
        <4>2. \A i \in 1..Len(from) : from[i] = path[i]
          <5>1. from \in Seq(STRING)
            BY <3>8
          <5>2. QED
            BY <4>1, <5>1, PrefixOf
        <4>3. QED
          BY <3>8, <4>2 DEF path
      <3>10. u.owner = e /\ u.id = id
        BY <3>2, <3>6, <3>7, <3>8, <3>9 DEF Placed
      <3>11. QED
        BY <3>6, <3>10 DEF Claims
    <2>6. QED
      BY <1>3, <2>3, <2>4, <2>5
  <1>7. CASE ~ServedStep(p)
    <2>1. Head(r.todo).do \in Opening
      BY <1>7, StepTaken
    <2>2. ~tells(new)
      <3>1. CASE Head(new.todo).do \in Opening
        BY <1>1, <3>1, OpeningSteps DEF Moving
      <3>2. CASE Head(new.todo).do \notin Opening
        <4> SUFFICES ASSUME NEW i \in 1..Len(new.todo), Moving(new.todo[i], id)
                     PROVE  FALSE
          OBVIOUS
        <4>1. Scripted(backend, new, new.todo)
          BY <1>0, <1>5, <3>2 DEF ScriptInv
        <4>2. new.op = "rename"
          BY <4>1 DEF Scripted, TellsStep, Tells, Moving
        <4>3. Fits(backend, r, Head(r.todo))
          BY <1>1, InProgressFields
        <4>4. CASE Allowed(p) \/ LoginRole(p) \/ LoginActive(p)
          <5>1. Head(r.todo).do \in LoginSteps
            BY <4>4 DEF Allowed, LoginRole, LoginActive, At, LoginSteps
          <5>2. QED
            BY <1>1, <4>2, <4>3, <5>1 DEF Fits
        <4>5. CASE Lookup(p)
          <5>1. new.todo = <<Do("confirm")>>
            BY <4>5, LookupFinds
          <5>2. Head(<<Do("confirm")>>).do = "confirm"
            BY DEF Do
          <5>3. QED
            BY <3>2, <5>1, <5>2 DEF Opening
        <4>6. CASE ConfirmSession(p) \/ ConfirmKey(p)
          <5>1. ~Refuse(p)
            BY RefuseMoves DEF RequestsInv
          <5>2. PICK user : Serve(p, user)
            BY <4>6, <5>1 DEF ConfirmSession, ConfirmKey
          <5>3. PICK q : q.op = r.op /\ new.todo = Handler(q).todo
            BY <1>1, <5>2, ServeSame
          <5>4. new.todo = <<Do("update_share_paths")>>
            BY <1>1, <4>2, <5>3 DEF Handler, Serves, UserHandler, UserOps
          <5>5. Do("update_share_paths").do # "append"
            BY DEF Do
          <5>6. QED
            BY <5>4, <5>5 DEF Moving
        <4>7. QED
          BY <1>7, <4>4, <4>5, <4>6 DEF Step, ServedStep
      <3>3. QED
        BY <3>1, <3>2
    <2>3. QED
      BY <1>1, <1>2, <1>3, <2>1, <2>2
  <1>8. QED
    BY <1>6, <1>7

LEMMA StepClaims ==
  ASSUME TypeOK, RequestsInv, ScriptInv, ScriptInv', SharesInv, NEW p \in Slots, Step(p),
         NEW id, NEW e, Claims(id, e)'
  PROVE  \/ Claims(id, e)
         \/ /\ req[p].op = "create_share" /\ id = req[p].arg.share /\ Head(req[p].todo).do \in Opening
            /\ req'[p] # Nothing /\ Head(req'[p].todo).do \notin Opening /\ req'[p].user.email = e
  <1>1. \A q \in Slots : q # p => req'[q] = req[q]
    BY StepShape
  <1>2. CASE \E s \in Grants' : s.id = id /\ s.owner = e
    BY <1>2, StepGrants
  <1>3. CASE \E q \in Slots : Busy(q)' /\ Owning(req'[q], id, e)
    <2>1. PICK q \in Slots : Busy(q)' /\ Owning(req'[q], id, e)
      BY <1>3
    <2>2. req'[q] # Nothing
      BY <2>1 DEF Busy, Idle
    <2>3. CASE q = p
      <3>1. req'[p].user.email = e
        BY <2>1, <2>3 DEF Owning
      <3>2. QED
        BY <2>1, <2>2, <2>3, <3>1, StepOwning
    <2>4. CASE q # p
      <3>1. Busy(q) /\ Owning(req[q], id, e)
        BY <1>1, <2>1, <2>2, <2>4 DEF Busy, Idle
      <3>2. QED
        BY <3>1 DEF Claims
    <2>5. QED
      BY <2>3, <2>4
  <1>4. Claims(id, e)' <=> \/ \E s \in Grants' : s.id = id /\ s.owner = e
                           \/ \E q \in Slots : Busy(q)' /\ Owning(req'[q], id, e)
    BY DEF Claims, Owning
  <1>5. QED
    BY <1>2, <1>3, <1>4

LEMMA StepKeepsShares ==
  ASSUME TypeOK, RequestsInv, ScriptInv, ScriptInv', SharesInv, NEW p \in Slots, Step(p)
  PROVE  SharesInv'
  <1>1. issued' = issued
    BY DEF Step
  <1>2. \A q \in Slots : q # p => req'[q] = req[q]
    BY StepShape
  <1>3. /\ Busy(p)
        /\ req'[p] # Nothing => /\ req'[p].op = req[p].op /\ req'[p].arg = req[p].arg
                                /\ Head(req'[p].todo).do \in Opening => Head(req[p].todo).do \in Opening
    BY StepShape, StepSame
  <1>4. \A q \in Slots : Busy(q)' <=> req'[q] # Nothing
    BY DEF Busy, Idle
  <1>5. \A q \in Slots : q # p /\ Busy(q)' => Busy(q)
    BY <1>2, <1>4 DEF Busy, Idle
  <1> DEFINE new(id, e) == /\ req[p].op = "create_share" /\ id = req[p].arg.share
                           /\ Head(req[p].todo).do \in Opening
                           /\ req'[p] # Nothing /\ Head(req'[p].todo).do \notin Opening
                           /\ req'[p].user.email = e
  <1>6. \A id, e : Claims(id, e)' => Claims(id, e) \/ new(id, e)
    BY StepClaims
  <1>7. \A s \in Grants' : Placed(s)
    BY StepGrants
  <1>8. \A id, e, d : Claims(id, e)' /\ Claims(id, d)' => e = d
    <2>1. \A id, e, d : new(id, e) => ~Claims(id, d)
      BY <1>3 DEF SharesInv
    <2>2. \A id, e, d : new(id, e) /\ new(id, d) => e = d
      OBVIOUS
    <2>3. \A id, e, d : Claims(id, e) /\ Claims(id, d) => e = d
      BY DEF SharesInv
    <2> HIDE DEF new
    <2>4. QED
      BY <1>6, <2>1, <2>2, <2>3
  <1>9. \A id, e : Claims(id, e)' => id \in issued
    <2>1. \A id, e : new(id, e) => id \in issued
      BY <1>3 DEF SharesInv
    <2>2. \A id, e : Claims(id, e) => id \in issued
      BY DEF SharesInv
    <2> HIDE DEF new
    <2>3. QED
      BY <1>6, <2>1, <2>2
  <1>10. \A q \in Slots : Busy(q)' => Busy(q) /\ req'[q].op = req[q].op /\ req'[q].arg = req[q].arg
                                      /\ (Head(req'[q].todo).do \in Opening => Head(req[q].todo).do \in Opening)
    BY <1>2, <1>3, <1>4, <1>5
  <1>11. ASSUME NEW q \in Slots, Busy(q)', req'[q].op = "create_share"
         PROVE  /\ req'[q].arg.share \in issued
                /\ Head(req'[q].todo).do \in Opening => \A id, e : id = req'[q].arg.share => ~Claims(id, e)'
    <2>1. Busy(q) /\ req[q].op = "create_share" /\ req'[q].arg.share = req[q].arg.share
          /\ (Head(req'[q].todo).do \in Opening => Head(req[q].todo).do \in Opening)
      BY <1>10, <1>11
    <2>2. /\ req[q].arg.share \in issued
          /\ Head(req[q].todo).do \in Opening => \A id, e : id = req[q].arg.share => ~Claims(id, e)
      BY <2>1 DEF SharesInv
    <2>3. ASSUME NEW id, NEW e, id = req[q].arg.share, Head(req'[q].todo).do \in Opening, new(id, e)
          PROVE  FALSE
      <3>1. p = q
        BY <1>3, <2>1, <2>3 DEF SharesInv
      <3>2. QED
        BY <2>3, <3>1
    <2> HIDE DEF new
    <2>4. QED
      BY <1>6, <2>1, <2>2, <2>3
  <1>12. ASSUME NEW q \in Slots, NEW q2 \in Slots, Busy(q)', Busy(q2)', req'[q].op = "create_share",
                req'[q2].op = "create_share", req'[q].arg.share = req'[q2].arg.share
         PROVE  q = q2
    <2>1. Busy(q) /\ Busy(q2) /\ req[q].op = "create_share" /\ req[q2].op = "create_share"
          /\ req[q].arg.share = req[q2].arg.share
      BY <1>10, <1>12
    <2>2. QED
      BY <2>1 DEF SharesInv
  <1> HIDE DEF new, Busy, Claims
  <1>13. QED
    BY <1>1, <1>7, <1>8, <1>9, <1>11, <1>12 DEF SharesInv

\* A share is created once.
LEMMA BeginIssues ==
  ASSUME TypeOK, RequestsInv, NEW p \in Slots, Begin(p), req'[p].op = "create_share"
  PROVE  req'[p].arg.share \notin issued /\ req'[p].arg.share \in issued'
  <1>1. PICK r \in Requests : Enters(p, r)
    BY DEF Begin
  <1> DEFINE a == AllIdle
             new == [r EXCEPT !.alone = a]
  <1>2. req'[p] = new /\ issued' = issued \union Issues(r)
    <2>1. req' = [q \in Slots |-> IF q = p THEN new ELSE IF Busy(q) THEN [req[q] EXCEPT !.alone = FALSE]
                                  ELSE Nothing]
      BY <1>1 DEF Enters
    <2>2. QED
      BY <1>1, <2>1 DEF Enters
  <1>3. ASSUME NEW s, NEW e, r = Request("login", s, e, LoggingIn)
        PROVE  FALSE
    BY <1>2, <1>3 DEF Request
  <1>4. r \in {Request(b.op, c, b.arg, Identified) : b \in Asked, c \in issued \ Shares}
    BY <1>1, <1>3 DEF Requests
  <1>5. PICK b \in Asked, c \in issued \ Shares : r = Request(b.op, c, b.arg, Identified)
    BY <1>4
  <1>6. new.op = b.op /\ new.arg = b.arg /\ r.op = b.op /\ r.arg = b.arg
    BY <1>5 DEF Request
  <1>7. b.op = "create_share"
    BY <1>2, <1>6
  <1>8. b \in [op : {"create_share"}, arg : [share : Fresh(Shares), grantee : Emails,
                                             folder : {Old, New}, permission : Permissions]]
    BY <1>7 DEF Asked
  <1>9. b.arg.share \in Fresh(Shares)
    BY <1>8
  <1>10. b.arg.share \notin issued
    BY <1>9 DEF Fresh
  <1>11. Issues(r) = {b.arg.share}
    BY <1>6, <1>7 DEF Issues
  <1>12. QED
    BY <1>2, <1>6, <1>10, <1>11

LEMMA BeginKeepsShares ==
  ASSUME TypeOK, RequestsInv, SharesInv, NEW p \in Slots, Begin(p)
  PROVE  SharesInv'
  <1>1. /\ ~Busy(p)
        /\ \A q \in Slots : q # p /\ Busy(q) => SameRequest(req'[q], req[q]) /\ req'[q].todo = req[q].todo
        /\ \A q \in Slots : Busy(q)' => q = p \/ Busy(q)
        /\ InProgress(backend, req'[p])
        /\ req'[p].todo = Identified \/ req'[p].todo = LoggingIn
    BY BeginShape
  <1>2. Grants' = Grants /\ issued \subseteq issued'
    <2>1. backend' = backend /\ log' = log /\ tables' = tables
      BY DEF Begin, store
    <2>2. Replayed' = Replayed
      BY <2>1, ReplayNext DEF Replayed
    <2>3. QED
      BY <2>1, <2>2, BeginIds DEF Grants
  <1>3. Head(req'[p].todo).do \in Opening
    BY <1>1, OpeningFirst
  <1>4. \A id, e : ~Owning(req'[p], id, e)
    BY <1>1, <1>3, OpeningSteps DEF Owning
  <1>5. \A q \in Slots : \A id, e : q # p /\ Busy(q) /\ Owning(req'[q], id, e) => Owning(req[q], id, e)
    BY <1>1 DEF Owning, SameRequest
  <1>6. \A id, e : Claims(id, e)' <=> \/ \E s \in Grants : s.id = id /\ s.owner = e
                                      \/ \E q \in Slots : Busy(q)' /\ Owning(req'[q], id, e)
    BY <1>2 DEF Claims, Owning
  <1>7. \A id, e : Claims(id, e)' => Claims(id, e)
    BY <1>1, <1>4, <1>5, <1>6 DEF Claims
  <1>8. req'[p].op = "create_share" => req'[p].arg.share \notin issued /\ req'[p].arg.share \in issued'
    BY BeginIssues
  <1>9. \A q \in Slots : q # p /\ Busy(q)' => Busy(q) /\ req'[q].op = req[q].op /\ req'[q].arg = req[q].arg
                                              /\ Head(req'[q].todo).do = Head(req[q].todo).do
    BY <1>1 DEF SameRequest
  <1> HIDE DEF Busy, Claims
  <1>10. ASSUME NEW q \in Slots, Busy(q)', req'[q].op = "create_share"
         PROVE  /\ req'[q].arg.share \in issued'
                /\ Head(req'[q].todo).do \in Opening => \A id, e : id = req'[q].arg.share => ~Claims(id, e)'
    <2>1. CASE q = p
      BY <1>2, <1>7, <1>8, <1>10, <2>1 DEF SharesInv
    <2>2. CASE q # p
      BY <1>2, <1>7, <1>9, <1>10, <2>2 DEF SharesInv
    <2>3. QED
      BY <2>1, <2>2
  <1>11. ASSUME NEW q \in Slots, NEW q2 \in Slots, Busy(q)', Busy(q2)', req'[q].op = "create_share",
                req'[q2].op = "create_share", req'[q].arg.share = req'[q2].arg.share
         PROVE  q = q2
    <2>1. \A o \in Slots : o # p /\ Busy(o)' /\ req'[o].op = "create_share" =>
             Busy(o) /\ req[o].op = "create_share" /\ req[o].arg.share = req'[o].arg.share
             /\ req[o].arg.share \in issued
      BY <1>9 DEF SharesInv
    <2>2. CASE q = p \/ q2 = p
      BY <1>8, <1>11, <2>1, <2>2
    <2>3. CASE q # p /\ q2 # p
      BY <1>11, <2>1, <2>3 DEF SharesInv
    <2>4. QED
      BY <2>2, <2>3
  <1>12. (\A s \in Grants' : Placed(s)) /\ (\A id, e, d : Claims(id, e)' /\ Claims(id, d)' => e = d)
         /\ \A id, e : Claims(id, e)' => id \in issued'
    BY <1>2, <1>7 DEF SharesInv
  <1>13. QED
    BY <1>10, <1>11, <1>12 DEF SharesInv

\* A start of the daemon.
LEMMA RestartReplay ==
  ASSUME TypeOK, backend \in {"store", "jsonl", "pg"}, Restart
  PROVE  /\ Replayed \in Tables /\ Replayed' \in Tables /\ tables' \in Tables
         /\ Replayed' = Replayed \/ (~stored /\ Bare(Replayed'))
         /\ IF backend = "pg"
            THEN /\ tables'.users = tables.users /\ tables'.keys = tables.keys /\ tables'.top = tables.top
                 /\ tables'.shares = tables.shares
            ELSE tables' = Replayed'
  <1>1. /\ backend' = backend /\ log' = BootLog(log, stored) /\ tables' = BootTables(tables, log')
        /\ tables \in Tables /\ log \in Seq(Entries)
    BY DEF Restart, TypeOK
  <1>2. Replayed' = replay_jsonl(log')
    BY <1>1, ReplayNext
  <1>3. log' \in Seq(Entries) /\ tables' \in Tables
    BY <1>1, BootTyped
  <1>4. Replayed \in Tables /\ Replayed' \in Tables
    BY <1>1, <1>2, <1>3, ReplayTyped DEF Replayed
  <1>5. Replayed' = Replayed \/ (~stored /\ Bare(Replayed'))
    <2>1. CASE log' = log
      BY <1>2, <2>1 DEF Replayed
    <2>2. CASE log' # log
      <3>1. ~stored /\ log' = SeedEntries
        BY <1>1, <2>2 DEF BootLog
      <3>2. QED
        BY <1>2, <3>1, SeedsTyped, ReplayedPolicy
    <2>3. QED
      BY <2>1, <2>2
  <1>6. CASE backend = "pg"
    BY <1>1, <1>3, <1>4, <1>5, <1>6 DEF BootTables, Tables
  <1>7. CASE backend # "pg"
    BY <1>1, <1>2, <1>3, <1>4, <1>5, <1>7 DEF BootTables
  <1>8. QED
    BY <1>6, <1>7

LEMMA RestartKeepsShares ==
  ASSUME TypeOK, SharesInv, backend \in {"store", "jsonl", "pg"}, Restart
  PROVE  SharesInv'
  <1>1. issued' = issued /\ \A p \in Slots : ~Busy(p)'
    BY DEF Restart, Busy, Idle
  <1>2. Elements(Replayed'.shares) \subseteq Grants
    BY RestartReplay, BareNone DEF Grants
  <1>3. Elements(tables'.shares) \subseteq Grants
    BY <1>2, RestartReplay DEF Grants
  <1>4. Grants' \subseteq Grants
    BY <1>2, <1>3 DEF Grants
  <1>5. \A id, e : Claims(id, e)' <=> \/ \E s \in Grants' : s.id = id /\ s.owner = e
                                      \/ \E q \in Slots : Busy(q)' /\ Owning(req'[q], id, e)
    BY DEF Claims, Owning
  <1>6. \A id, e : Claims(id, e)' => Claims(id, e)
    BY <1>1, <1>4, <1>5 DEF Claims
  <1> HIDE DEF Busy, Claims
  <1>7. QED
    BY <1>1, <1>4, <1>6 DEF SharesInv

\* Every share of a log has an owner of its own, and stays in that owner's folders.
OwnFolders(w) ==
    \A i, j \in 1..Len(w) : w[i].kind = "share" =>
        /\ Placed(w[i].share)
        /\ w[j].kind = "share" /\ w[j].share.id = w[i].share.id => w[j].share.owner = w[i].share.owner
        /\ w[j].kind = "share-path-update" /\ w[j].id = w[i].share.id =>
              w[j].path # <<>> /\ w[j].path[1] = w[i].share.owner

SharedBy(w, n, s) ==
    /\ Placed(s)
    /\ \E i \in 1..n : w[i].kind = "share" /\ w[i].share.id = s.id /\ w[i].share.owner = s.owner

LEMMA ReplayedShares ==
  ASSUME NEW w \in Seq(Entries), OwnFolders(w), NEW s \in Elements(replay_jsonl(w).shares)
  PROVE  SharedBy(w, Len(w), s)
  <1>1. PICK f : Replaying(f, w)
    BY ReplayUnfolds
  <1> DEFINE N == Len(w)
             good == {n \in 0..N : \A u \in Elements(f[n].shares) : SharedBy(w, n, u)}
  <1>2. N \in Nat /\ \A i \in 1..N : w[i] \in Entries
    OBVIOUS
  <1>3. /\ f \in [0..N -> Tables] /\ f[0] = EmptyTables /\ replay_jsonl(w) = f[N]
        /\ \A i \in 1..N : f[i] = Changed(f[i - 1], w[i])
    BY <1>1 DEF Replaying
  <1>4. /\ \A i \in 1..N : w[i].kind = "share" => Placed(w[i].share)
        /\ \A i, j \in 1..N : w[i].kind = "share" /\ w[j].kind = "share-path-update" /\ w[j].id = w[i].share.id =>
              w[j].path # <<>> /\ w[j].path[1] = w[i].share.owner
    BY DEF OwnFolders
  <1> HIDE DEF N
  <1>5. 0 \in good
    <2>1. Elements(EmptyTables.shares) = {}
      BY DEF EmptyTables, Elements
    <2>2. QED
      BY <1>2, <1>3, <2>1
  <1>6. \A n \in 0..N : n \in good /\ n # N => n + 1 \in good
    <2> SUFFICES ASSUME NEW n \in 0..N, n \in good, n # N
                 PROVE  n + 1 \in good
      OBVIOUS
    <2>1. n + 1 \in 1..N /\ (n + 1) - 1 = n /\ n + 1 \in 0..N /\ n + 1 \in 1..(n + 1) /\ 1..n \subseteq 1..(n + 1)
          /\ 1..n \subseteq 1..N
      BY <1>2
    <2> DEFINE t == f[n]
               x == w[n + 1]
    <2>2. t \in Tables /\ x \in Entries /\ f[n + 1] = Changed(t, x)
      BY <1>2, <1>3, <2>1
    <2>3. \A u \in Elements(t.shares) : SharedBy(w, n, u)
      OBVIOUS
    <2> SUFFICES ASSUME NEW u \in Elements(f[n + 1].shares)
                 PROVE  SharedBy(w, n + 1, u)
      BY <2>1
    <2> HIDE DEF good, t
    <2>4. ShareChanged(t, x, u)
      <3> HIDE DEF x
      <3>1. QED
        BY <2>2, ChangedShares
    <2>5. CASE u \in Elements(t.shares)
      BY <2>1, <2>3, <2>5 DEF SharedBy
    <2>6. CASE x.kind = "share" /\ u = x.share
      BY <1>4, <2>1, <2>6 DEF SharedBy
    <2>7. CASE /\ x.kind = "share-path-update" /\ u.id = x.id /\ u.path = x.path
               /\ \E v \in Elements(t.shares) : v.id = u.id /\ v.owner = u.owner
      <3>1. PICK v \in Elements(t.shares) : v.id = u.id /\ v.owner = u.owner
        BY <2>7
      <3>2. PICK i \in 1..n : w[i].kind = "share" /\ w[i].share.id = v.id /\ w[i].share.owner = v.owner
        BY <2>3 DEF SharedBy
      <3>3. i \in 1..N /\ i \in 1..(n + 1)
        BY <2>1
      <3>4. x.path # <<>> /\ x.path[1] = u.owner
        BY <1>4, <2>1, <2>7, <3>1, <3>2, <3>3
      <3>5. QED
        BY <2>7, <3>1, <3>2, <3>3, <3>4 DEF SharedBy, Placed
    <2>8. QED
      BY <2>4, <2>5, <2>6, <2>7 DEF ShareChanged
  <1> HIDE DEF good
  <1>7. \A n \in 0..N : n \in good
    BY <1>2, <1>5, <1>6, UpTo
  <1>8. N \in 0..N
    BY <1>2
  <1>9. QED
    BY <1>3, <1>7, <1>8 DEF good, N

\* The entries of the seeds and of a history.
LEMMA SeededEntries ==
  ASSUME NEW h \in Histories
  PROVE  /\ SeedEntries \o h \in Seq(Entries)
         /\ \A i \in 1..Len(SeedEntries \o h) :
               \/ i \in 1..Len(SeedEntries) /\ (SeedEntries \o h)[i].kind \in PolicyKinds
               \/ /\ i - Len(SeedEntries) \in 1..Len(h)
                  /\ (SeedEntries \o h)[i] = h[i - Len(SeedEntries)]
  <1> DEFINE u == SeedEntries
  <1>1. u \in Seq(Entries) /\ (\A i \in 1..Len(u) : u[i].kind \in PolicyKinds) /\ h \in Seq(Entries)
    BY HistoriesAssumption, SeedsTyped DEF OnlyPolicy
  <1> HIDE DEF u
  <1>2. u \o h \in Seq(Entries)
    BY <1>1, JoinedEntries
  <1>3. Len(u) \in Nat /\ Len(h) \in Nat /\ Len(u \o h) = Len(u) + Len(h)
    BY <1>1
  <1>4. \A i \in 1..(Len(u) + Len(h)) : \/ i \in 1..Len(u) /\ (u \o h)[i] = u[i]
                                        \/ i - Len(u) \in 1..Len(h) /\ (u \o h)[i] = h[i - Len(u)]
    BY <1>1
  <1>5. QED
    BY <1>1, <1>2, <1>3, <1>4 DEF u

LEMMA InitShares ==
  ASSUME Init
  PROVE  SharesInv
  <1>1. PICK h \in Histories :
          /\ log = IF backend = "pg" THEN <<>> ELSE SeedEntries \o h
          /\ tables = replay_jsonl(SeedEntries \o h)
          /\ \E s \in Sessions :
              issued = {h[i].key : i \in {j \in DOMAIN h : h[j].kind = "api-key"}}
                          \union {h[i].share.id : i \in {j \in DOMAIN h : h[j].kind = "share"}}
                          \union (IF tables.top = {} THEN {} ELSE {s})
    BY DEF Init
  <1> DEFINE d == Len(SeedEntries)
             w == SeedEntries \o h
  <1>2. /\ w \in Seq(Entries)
        /\ \A i \in 1..Len(w) : \/ w[i].kind \in PolicyKinds
                                \/ i - d \in 1..Len(h) /\ w[i] = h[i - d]
    BY SeededEntries
  <1>3. DOMAIN h = 1..Len(h)
    BY HistoriesAssumption
  <1>4. /\ log = IF backend = "pg" THEN <<>> ELSE w
        /\ tables = replay_jsonl(w)
        /\ \A i \in DOMAIN h : h[i].kind = "share" => h[i].share.id \in issued
    BY <1>1
  <1> HIDE DEF w, d
  <1>5. OwnFolders(w)
    <2>1. \A i \in 1..Len(w) : w[i].kind \in {"share", "share-path-update"} => i - d \in DOMAIN h /\ w[i] = h[i - d]
      BY <1>2, <1>3 DEF PolicyKinds
    <2> SUFFICES ASSUME NEW i \in 1..Len(w), NEW j \in 1..Len(w), w[i].kind = "share"
                 PROVE  /\ Placed(w[i].share)
                        /\ w[j].kind = "share" /\ w[j].share.id = w[i].share.id => w[j].share.owner = w[i].share.owner
                        /\ w[j].kind = "share-path-update" /\ w[j].id = w[i].share.id =>
                              w[j].path # <<>> /\ w[j].path[1] = w[i].share.owner
      BY DEF OwnFolders
    <2>2. i - d \in DOMAIN h /\ w[i] = h[i - d]
      BY <2>1
    <2>3. w[j].kind \in {"share", "share-path-update"} => j - d \in DOMAIN h /\ w[j] = h[j - d]
      BY <2>1
    <2>4. QED
      BY <2>2, <2>3, SharesAssumption DEF Placed
  <1>6. \A s \in Elements(tables.shares) : SharedBy(w, Len(w), s)
    BY <1>2, <1>4, <1>5, ReplayedShares
  <1>7. Elements(Replayed.shares) \subseteq Elements(tables.shares)
    <2>1. CASE log = w
      BY <1>4, <2>1 DEF Replayed
    <2>2. CASE log = <<>>
      <3>1. Bare(replay_jsonl(log))
        BY <2>2, NothingPolicy, ReplayedPolicy
      <3>2. QED
        BY <3>1, BareNone DEF Replayed
    <2>3. QED
      BY <1>4, <2>1, <2>2
  <1>8. \A s \in Grants : SharedBy(w, Len(w), s)
    BY <1>6, <1>7 DEF Grants
  <1>9. \A p \in Slots : ~Busy(p)
    BY DEF Init, Busy, Idle
  <1>10. \A id, e : Claims(id, e) => \E s \in Grants : s.id = id /\ s.owner = e
    BY <1>9 DEF Claims
  <1>11. \A s \in Grants : s.id \in issued
    <2> SUFFICES ASSUME NEW s \in Grants
                 PROVE  s.id \in issued
      OBVIOUS
    <2>1. PICK i \in 1..Len(w) : w[i].kind = "share" /\ w[i].share.id = s.id
      BY <1>8 DEF SharedBy
    <2>2. w[i].kind \notin PolicyKinds
      BY <2>1 DEF PolicyKinds
    <2>3. QED
      BY <1>2, <1>3, <1>4, <2>1, <2>2
  <1>12. \A s, u \in Grants : s.id = u.id => s.owner = u.owner
    <2> SUFFICES ASSUME NEW s \in Grants, NEW u \in Grants, s.id = u.id
                 PROVE  s.owner = u.owner
      OBVIOUS
    <2>1. SharedBy(w, Len(w), s) /\ SharedBy(w, Len(w), u)
      BY <1>8
    <2>2. PICK i \in 1..Len(w) : w[i].kind = "share" /\ w[i].share.id = s.id /\ w[i].share.owner = s.owner
      BY <2>1 DEF SharedBy
    <2>3. PICK j \in 1..Len(w) : w[j].kind = "share" /\ w[j].share.id = u.id /\ w[j].share.owner = u.owner
      BY <2>1 DEF SharedBy
    <2>4. QED
      BY <1>5, <2>2, <2>3 DEF OwnFolders
  <1>13. \A s \in Grants : Placed(s)
    BY <1>8 DEF SharedBy
  <1> HIDE DEF Busy, Claims, Grants
  <1>14. (\A id, e, g : Claims(id, e) /\ Claims(id, g) => e = g) /\ \A id, e : Claims(id, e) => id \in issued
    BY <1>10, <1>11, <1>12
  <1>15. QED
    BY <1>9, <1>13, <1>14 DEF SharesInv

LEMMA SharesStay ==
  ASSUME AuthInv, ScriptInv, ScriptInv', SharesInv, [Next]_vars
  PROVE  SharesInv'
  <1>1. TypeOK /\ RequestsInv /\ backend \in {"store", "jsonl", "pg"}
    BY DEF AuthInv
  <1>2. CASE \E p \in Slots : Begin(p)
    BY <1>1, <1>2, BeginKeepsShares
  <1>3. CASE \E p \in Slots : Step(p)
    BY <1>1, <1>3, StepKeepsShares
  <1>4. CASE (\E s \in Sessions : Expire(s)) \/ UNCHANGED vars
    <2>1. req' = req /\ issued' = issued /\ tables' = tables /\ log' = log /\ backend' = backend
      BY <1>4 DEF Expire, vars
    <2>2. Replayed' = Replayed
      BY <2>1, ReplayNext DEF Replayed
    <2>3. Grants' = Grants
      BY <2>1, <2>2 DEF Grants
    <2>4. \A id, e : Claims(id, e)' <=> Claims(id, e)
      BY <2>1, <2>3 DEF Claims, Owning, Busy, Idle
    <2>5. \A p \in Slots : Busy(p)' <=> Busy(p)
      BY <2>1 DEF Busy, Idle
    <2> HIDE DEF Busy, Claims
    <2>6. QED
      BY <2>1, <2>3, <2>4, <2>5 DEF SharesInv
  <1>5. CASE Restart
    BY <1>1, <1>5, RestartKeepsShares
  <1>6. QED
    BY <1>2, <1>3, <1>4, <1>5 DEF Next

-----------------------------------------------------------------------------
(* Accounts: what their keys and shares rest on *)

Owned(t) ==
    /\ \A k \in Keys : t.keys[k] # Nobody => IsUser(t, t.keys[k].email)
    /\ \A s \in Elements(t.shares) : IsUser(t, s.owner)

\* An entry that gives something to an account that is there.
Founded(t, x) ==
    backend # "pg" =>
        /\ x.kind = "api-key" => IsUser(t, x.email)
        /\ x.kind = "share" => IsUser(t, x.share.owner)

\* Which accounts there are after a change.
LEMMA ChangedAccounts ==
  ASSUME NEW t \in Tables, NEW x \in Entries, NEW e \in Emails
  PROVE  /\ IsUser(Changed(t, x), e) => IsUser(t, e) \/ (x.kind = "user" /\ x.email = e)
         /\ x.kind = "user" /\ x.email = e => IsUser(Changed(t, x), e)
         /\ x.kind = "user-delete" => (IsUser(Changed(t, x), e) <=> IsUser(t, e) /\ e # x.email)
         /\ IsUser(t, e) => IsUser(Changed(t, x), e) \/ (x.kind = "user-delete" /\ x.email = e)
  <1> USE EntryFields
  <1>1. CASE x.kind = "user-delete"
    <2>1. Changed(t, x) = DeletedUser(t, x.email) /\ x.email \in Emails
      BY <1>1 DEF Changed, execute, apply_entry, AccountKinds
    <2>2. Changed(t, x).users = [t.users EXCEPT ![x.email] = "none"]
      BY <2>1, DeletedFields
    <2>3. QED
      BY <1>1, <2>1, <2>2 DEF IsUser, Tables
  <1>2. CASE x.kind = "user"
    <2>1. x.email \in Emails
      BY <1>2
    <2>2. IsUser(Changed(t, x), e) <=> IsUser(t, e) \/ x.email = e
      <3>1. CASE backend = "pg"
        BY <1>2, <2>1, <3>1 DEF Changed, execute, upsert_user, Tables, IsUser
      <3>2. CASE backend # "pg"
        BY <1>2, <2>1, <3>2 DEF Changed, apply_entry, Tables, IsUser
      <3>3. QED
        BY <3>1, <3>2
    <2>3. QED
      BY <1>2, <2>2
  <1>3. CASE x.kind \notin {"user", "user-delete"}
    <2>1. IsUser(t, e) => IsUser(Changed(t, x), e)
      BY <1>3, ChangedIsUser
    <2>2. IsUser(Changed(t, x), e) => IsUser(t, e)
      <3>1. CASE x.kind \in {"top-admin", "admin", "admin-revoke"}
        <4>1. Changed(t, x).users = t.users
          BY <3>1 DEF Changed, execute, set_role, apply_entry, Tables
        <4>2. QED
          BY <4>1 DEF IsUser
      <3>2. CASE x.kind \in {"user-deactivate", "user-activate"}
        BY <3>2 DEF Changed, execute, apply_entry, Tables, IsUser, AccountKinds
      <3>3. CASE x.kind \in Kinds \ {"user-delete", "top-admin", "admin", "admin-revoke", "user",
                                   "user-deactivate", "user-activate"}
        <4>1. apply_entry(t, x).users = t.users
          BY <3>3 DEF apply_entry, Retain, Tables, Kinds, AccountKinds
        <4>2. Changed(t, x) \in {t, apply_entry(t, x)}
          BY <3>3 DEF Changed, execute
        <4>3. QED
          BY <4>1, <4>2 DEF IsUser
      <3>4. QED
        BY <1>3, <3>1, <3>2, <3>3
    <2>3. QED
      BY <1>3, <2>1, <2>2
  <1>4. QED
    BY <1>1, <1>2, <1>3

LEMMA ChangedOwned ==
  ASSUME NEW t \in Tables, NEW x \in Entries, Owned(t), Founded(t, x)
  PROVE  Owned(Changed(t, x))
  <1> DEFINE u == Changed(t, x)
  <1>1. u \in Tables /\ t.keys \in [Keys -> KeyRecords \union {Nobody}] /\ u.keys \in [Keys -> KeyRecords \union {Nobody}]
        /\ t.shares \in Seq(ShareRecords) /\ u.shares \in Seq(ShareRecords)
    BY ChangedTyped DEF Tables
  <1>2. \A e \in Emails : IsUser(t, e) => IsUser(u, e) \/ (x.kind = "user-delete" /\ x.email = e)
    BY ChangedAccounts
  <1>3. ASSUME NEW k \in Keys, u.keys[k] # Nobody
        PROVE  IsUser(u, u.keys[k].email)
    <2> DEFINE key == u.keys[k]
    <2>1. KeyChanged(t, x, k, key)
      BY ChangedKeys
    <2>2. key \in KeyRecords /\ key.email \in Emails
      BY <1>1, <1>3 DEF KeyRecords
    <2>3. key # Nobody /\ (t.keys[k] # Nobody => IsUser(t, t.keys[k].email))
      BY <1>3 DEF Owned
    <2> HIDE DEF key, u
    <2>4. CASE x.kind = "api-key"
      <3>1. IsUser(t, key.email)
        BY <2>1, <2>3, <2>4 DEF KeyChanged, Founded
      <3>2. QED
        BY <1>2, <2>2, <2>4, <3>1 DEF key
    <2>5. CASE x.kind = "user-delete"
      <3>1. IsUser(t, key.email) /\ key.email # x.email
        BY <2>1, <2>3, <2>5 DEF KeyChanged
      <3>2. QED
        BY <1>2, <2>2, <3>1 DEF key
    <2>6. CASE x.kind \notin {"api-key", "user-delete"}
      <3>1. IsUser(t, key.email)
        BY <2>1, <2>3, <2>6 DEF KeyChanged
      <3>2. QED
        BY <1>2, <2>2, <2>6, <3>1 DEF key
    <2>7. QED
      BY <2>4, <2>5, <2>6
  <1>4. ASSUME NEW s \in Elements(u.shares)
        PROVE  IsUser(u, s.owner)
    <2>1. ShareChanged(t, x, s)
      BY <1>4, ChangedShares
    <2>2. s \in ShareRecords /\ s.owner \in Emails
      <3> HIDE DEF u
      <3>1. s \in ShareRecords
        BY <1>1, <1>4, ElementOf
      <3>2. QED
        BY <3>1 DEF ShareRecords
    <2>3. \A v \in Elements(t.shares) : IsUser(t, v.owner)
      BY DEF Owned
    <2>4. IsUser(t, s.owner) /\ (x.kind = "user-delete" => s.owner # x.email)
      BY <2>1, <2>3 DEF ShareChanged, Founded
    <2>5. QED
      BY <1>2, <2>2, <2>4
  <1> HIDE DEF u
  <1>5. Owned(u)
    BY <1>3, <1>4 DEF Owned
  <1>6. QED
    BY <1>5 DEF u

LEMMA BareOwned ==
  ASSUME NEW t, Bare(t)
  PROVE  Owned(t)
  BY BareNone DEF Owned

\* A top administrator has an account, if it had one when it became that.
LEMMA ChangedTops ==
  ASSUME NEW t \in Tables, NEW x \in Entries, \A e \in t.top : IsUser(t, e),
         x.kind = "top-admin" => backend = "pg" \/ IsUser(t, x.email),
         NEW e \in Changed(t, x).top
  PROVE  IsUser(Changed(t, x), e)
  <1> USE EntryFields
  <1>1. CASE backend = "pg"
    BY <1>1, ChangedTop
  <1>2. CASE backend # "pg"
    <2> DEFINE u == Changed(t, x)
    <2>1. u = apply_entry(t, x) /\ u \in Tables
      BY <1>2, ChangedTyped DEF Changed
    <2>2. e \in Emails
      BY <2>1 DEF Tables
    <2>3. IsUser(t, e) => IsUser(u, e) \/ (x.kind = "user-delete" /\ x.email = e)
      BY <2>2, ChangedAccounts
    <2>4. CASE x.kind = "user-delete"
      <3>1. u = DeletedUser(t, x.email) /\ x.email \in Emails
        BY <2>1, <2>4 DEF apply_entry, AccountKinds
      <3> HIDE DEF u
      <3>2. u.top = t.top \ {x.email}
        BY <3>1, DeletedFields
      <3>3. QED
        BY <2>3, <3>2 DEF u
    <2>5. CASE x.kind = "top-admin"
      <3>1. u.top = {x.email}
        BY <2>1, <2>5 DEF apply_entry, Tables
      <3>2. QED
        BY <1>2, <2>3, <2>5, <3>1
    <2>6. CASE x.kind \notin {"user-delete", "top-admin"}
      <3>1. u.top = t.top
        <4>1. CASE x.kind \in {"user-deactivate", "user-activate"}
          BY <2>1, <4>1 DEF apply_entry, Tables
        <4>2. CASE x.kind \in {"share", "share-revoke", "share-path-update"}
          BY <2>1, <4>2 DEF apply_entry, Retain, Tables
        <4>3. CASE x.kind \in {"user", "admin", "admin-revoke", "api-key", "api-key-revoke", "api-key-relabel"}
          BY <2>1, <4>3 DEF apply_entry, Tables
        <4>4. CASE x.kind \in {"domain", "domain-revoke", "allowed-email", "allowed-email-revoke"}
          BY <2>1, <4>4 DEF apply_entry, Tables
        <4>5. x.kind \in Kinds
          OBVIOUS
        <4>6. QED
          BY <2>6, <4>1, <4>2, <4>3, <4>4, <4>5 DEF Kinds, AccountKinds
      <3>2. QED
        BY <2>3, <2>6, <3>1
    <2>7. QED
      BY <2>4, <2>5, <2>6
  <1>3. QED
    BY <1>1, <1>2

\* The step that empties the tables.
Empties(p) ==
    \/ factory_reset_state(p) /\ backend = "store"
    \/ factory_reset(p) /\ backend # "store"

\* What a step does to the accounts, their keys and their shares.
LEMMA StepHoldings ==
  ASSUME TypeOK, RequestsInv, NEW p \in Slots, Step(p)
  PROVE  \/ ApplyStep(p) /\ tables' = Changed(tables, Arg(p)) /\ Arg(p) \in Entries
         \/ Empties(p) /\ tables' = KeptPolicy
         \/ /\ tables'.users = tables.users
            /\ \A k \in Keys : tables'.keys[k] # Nobody =>
                  tables.keys[k] # Nobody /\ tables'.keys[k].email = tables.keys[k].email
            /\ \A s \in Elements(tables'.shares) : \E u \in Elements(tables.shares) : u.owner = s.owner
  <1>1. tables \in Tables /\ tables' \in Tables
    BY StepTables DEF TypeOK
  <1> DEFINE held == /\ tables'.users = tables.users
                     /\ \A k \in Keys : tables'.keys[k] # Nobody =>
                           tables.keys[k] # Nobody /\ tables'.keys[k].email = tables.keys[k].email
                     /\ \A s \in Elements(tables'.shares) : \E u \in Elements(tables.shares) : u.owner = s.owner
  <1>2. ASSUME tables' = tables
        PROVE  held
    BY <1>2
  <1>3. CASE \/ Lookup(p) \/ ConfirmSession(p) \/ ConfirmKey(p)
             \/ Allowed(p) \/ LoginRole(p) \/ LoginActive(p) \/ CacheSession(p)
             \/ RecordUser(p) \/ RecordSession(p) \/ Seed(p)
             \/ AppendStep(p) \/ Exists(p) \/ OwnsKey(p) \/ OwnsShare(p)
    <2>1. tables' = tables
      BY <1>3 DEF Lookup, ConfirmSession, ConfirmKey, Allowed, LoginRole, LoginActive, CacheSession,
           RecordUser, RecordSession, Seed, AppendStep, Exists, OwnsKey, OwnsShare, store
    <2>2. QED
      BY <1>2, <2>1
  <1>4. CASE \/ drop_sessions(p) \/ delete_rows(p) \/ drop_keys(p)
             \/ delete_session(p) \/ delete_row(p) \/ CacheKey(p) \/ DropKey(p) \/ RemoveTree(p)
    <2>1. tables' = tables
      BY <1>4 DEF drop_sessions, delete_rows, drop_keys, delete_session, delete_row, CacheKey, DropKey,
           RemoveTree, store
    <2>2. QED
      BY <1>2, <2>1
  <1>5. CASE revoke_share_by_id(p) \/ delete_shares_under(p)
    <2> DEFINE one == {s \in ToSet(tables.shares) : ~(s.id = Arg(p).id)}
               two == {s \in ToSet(tables.shares) : ~Under(s.path, req[p].arg)}
    <2>1. \/ tables' = tables
          \/ /\ tables'.users = tables.users /\ tables'.keys = tables.keys
             /\ tables'.shares = Only(tables.shares, one) \/ tables'.shares = Only(tables.shares, two)
      BY <1>1, <1>5 DEF revoke_share_by_id, delete_shares_under, Retain, Tables
    <2> HIDE DEF one, two
    <2>2. CASE tables' = tables
      BY <1>2, <2>2
    <2>3. CASE tables' # tables
      <3>1. PICK chosen \in {one, two} : tables'.shares = Only(tables.shares, chosen)
        BY <2>1, <2>3
      <3>2. \A s \in Elements(tables'.shares) : s \in Elements(tables.shares)
        BY <1>1, <3>1, RetainedElements
      <3>3. QED
        BY <2>1, <2>3, <3>2
    <2>4. QED
      BY <2>2, <2>3
  <1>6. CASE update_share_paths(p)
    <2> DEFINE from == Home(Who(p), Old)
               to == Home(Who(p), New)
               v == tables.shares
               w == Relocated(v, from, to)
    <2>1. tables'.users = tables.users /\ tables'.keys = tables.keys /\ tables'.shares = w
      BY <1>1, <1>6 DEF update_share_paths, Tables
    <2>2. DOMAIN w = DOMAIN v /\ \A i \in DOMAIN v : w[i] = [v[i] EXCEPT !.path = Moved(v[i].path, from, to)]
      BY DEF Relocated
    <2>3. v \in Seq(ShareRecords)
      BY <1>1 DEF Tables
    <2> HIDE DEF v, w, from, to
    <2>6. ASSUME NEW i \in DOMAIN v
          PROVE  w[i].owner = v[i].owner
      <3> DEFINE path == Moved(v[i].path, from, to)
      <3>1. v[i] \in ShareRecords /\ w[i] = [v[i] EXCEPT !.path = path]
        BY <2>2, <2>3
      <3> HIDE DEF path
      <3>2. QED
        BY <3>1 DEF ShareRecords
    <2>4. \A s \in Elements(w) : \E u \in Elements(v) : u.owner = s.owner
      BY <2>2, <2>3, <2>6, MappedElements
    <2>5. QED
      BY <2>1, <2>4 DEF v
  <1>7. CASE Label(p)
    <2> DEFINE k == req[p].arg.key
               label == req[p].arg.label
    <2>1. tables' = tables \/ (tables.keys[k] # Nobody /\ tables' = [tables EXCEPT !.keys[k].label = label])
      BY <1>7 DEF Label
    <2> HIDE DEF k, label
    <2>2. CASE tables.keys[k] # Nobody /\ tables' = [tables EXCEPT !.keys[k].label = label]
      <3> DEFINE key == tables.keys[k]
                 new == [key EXCEPT !.label = label]
      <3>1. tables'.users = tables.users /\ tables'.shares = tables.shares /\ tables'.keys = [tables.keys EXCEPT ![k] = new]
        BY <1>1, <2>2 DEF Tables
      <3>2. tables.keys \in [Keys -> KeyRecords \union {Nobody}]
        BY <1>1 DEF Tables
      <3>3. k \in Keys => new.email = key.email
        BY <2>2, <3>2 DEF KeyRecords
      <3> HIDE DEF new
      <3>4. \A c \in Keys : tables'.keys[c] = IF c = k THEN new ELSE tables.keys[c]
        BY <3>1, <3>2
      <3>5. \A c \in Keys : tables'.keys[c] # Nobody =>
                  tables.keys[c] # Nobody /\ tables'.keys[c].email = tables.keys[c].email
        BY <2>2, <3>3, <3>4
      <3>6. QED
        BY <3>1, <3>5
    <2>3. QED
      BY <1>2, <2>1, <2>2
  <1>8. CASE factory_reset_state(p) \/ factory_reset(p)
    <2>1. tables' = tables \/ (Empties(p) /\ tables' = KeptPolicy)
      BY <1>8 DEF factory_reset_state, factory_reset, Empties
    <2>2. QED
      BY <1>2, <2>1
  <1>9. CASE ApplyStep(p)
    BY <1>9, EntryArg DEF ApplyStep
  <1>10. QED
    BY <1>3, <1>4, <1>5, <1>6, <1>7, <1>8, <1>9 DEF Step

LEMMA StepUsers ==
  ASSUME TypeOK, RequestsInv, NEW p \in Slots, Step(p), NEW e \in Emails
  PROVE  /\ IsUser(tables, e) =>
               \/ IsUser(tables', e)
               \/ ApplyStep(p) /\ Arg(p) \in Entries /\ Arg(p).kind = "user-delete" /\ Arg(p).email = e
               \/ Empties(p)
         /\ IsUser(tables', e) =>
               \/ IsUser(tables, e)
               \/ ApplyStep(p) /\ Arg(p).kind = "user" /\ Arg(p).email = e
         /\ ApplyStep(p) /\ Arg(p).kind = "user" /\ Arg(p).email = e => IsUser(tables', e)
         /\ ApplyStep(p) /\ Arg(p).kind = "user-delete" /\ Arg(p).email = e => ~IsUser(tables', e)
  <1>1. tables \in Tables
    BY DEF TypeOK
  <1>2. CASE ApplyStep(p)
    <2>1. tables' = Changed(tables, Arg(p)) /\ Arg(p) \in Entries
      BY <1>2, EntryArg DEF ApplyStep
    <2>2. QED
      BY <1>1, <1>2, <2>1, ChangedAccounts
  <1>3. CASE ~ApplyStep(p)
    <2>1. CASE Empties(p) /\ tables' = KeptPolicy
      BY <1>1, <1>3, <2>1, KeptBare, BareNone
    <2>2. CASE tables'.users = tables.users
      BY <1>3, <2>2 DEF IsUser
    <2>3. QED
      BY <1>3, <2>1, <2>2, StepHoldings
  <1>4. QED
    BY <1>2, <1>3

LEMMA StepOwned ==
  ASSUME TypeOK, RequestsInv, NEW p \in Slots, Step(p), Owned(tables),
         ApplyStep(p) => Founded(tables, Arg(p))
  PROVE  Owned(tables')
  <1>1. tables \in Tables
    BY DEF TypeOK
  <1>2. CASE ApplyStep(p)
    <2>1. tables' = Changed(tables, Arg(p)) /\ Arg(p) \in Entries
      BY <1>2, EntryArg DEF ApplyStep
    <2>2. QED
      BY <1>1, <1>2, <2>1, ChangedOwned
  <1>3. CASE Empties(p) /\ tables' = KeptPolicy
    BY <1>1, <1>3, KeptBare, BareOwned
  <1>4. CASE /\ tables'.users = tables.users
             /\ \A k \in Keys : tables'.keys[k] # Nobody =>
                   tables.keys[k] # Nobody /\ tables'.keys[k].email = tables.keys[k].email
             /\ \A s \in Elements(tables'.shares) : \E u \in Elements(tables.shares) : u.owner = s.owner
    BY <1>4 DEF Owned, IsUser
  <1>5. QED
    BY <1>2, <1>3, <1>4, StepHoldings

\* What a step does to the sessions.
LEMMA StepCached ==
  ASSUME TypeOK, RequestsInv, NEW p \in Slots, Step(p), NEW s \in Sessions, session_cache'[s] # NoUser
  PROVE  /\ \/ session_cache'[s] = session_cache[s]
            \/ CacheSession(p) /\ session_cache'[s] = req[p].user
         /\ drop_sessions(p) => session_cache'[s].email # Arg(p).email
         /\ ~factory_reset_state(p)
  <1>1. DOMAIN session_cache = Sessions
    BY DEF TypeOK
  <1>2. CASE UNCHANGED session_cache /\ ~drop_sessions(p) /\ ~factory_reset_state(p)
    BY <1>2
  <1>3. CASE CacheSession(p)
    <2>1. ~drop_sessions(p) /\ ~factory_reset_state(p)
      BY <1>3 DEF CacheSession, drop_sessions, factory_reset_state, At
    <2>2. QED
      BY <1>1, <1>3, <2>1 DEF CacheSession
  <1>4. CASE ConfirmSession(p)
    <2>1. \/ session_cache' = session_cache
          \/ session_cache' = [session_cache EXCEPT ![req[p].cred] = NoUser]
      BY <1>4 DEF ConfirmSession
    <2>2. ~drop_sessions(p) /\ ~factory_reset_state(p)
      BY <1>4 DEF ConfirmSession, drop_sessions, factory_reset_state, At
    <2>3. QED
      BY <1>1, <2>1, <2>2
  <1>5. CASE delete_session(p)
    <2>1. ~drop_sessions(p) /\ ~factory_reset_state(p)
      BY <1>5 DEF delete_session, drop_sessions, factory_reset_state, At
    <2>2. QED
      BY <1>1, <1>5, <2>1 DEF delete_session
  <1>6. CASE drop_sessions(p)
    <2>1. session_cache' = [c \in DOMAIN session_cache |-> IF session_cache[c].email = Arg(p).email THEN NoUser
                                                            ELSE session_cache[c]]
      BY <1>6 DEF drop_sessions, Dropped
    <2>2. ~factory_reset_state(p)
      BY <1>6 DEF drop_sessions, factory_reset_state, At
    <2>3. QED
      BY <1>1, <2>1, <2>2
  <1>7. CASE factory_reset_state(p)
    BY <1>7 DEF factory_reset_state
  <1>8. QED
    <2>1. CASE \/ Lookup(p) \/ ConfirmKey(p)
               \/ Allowed(p) \/ LoginRole(p) \/ LoginActive(p)
               \/ RecordUser(p) \/ RecordSession(p) \/ Seed(p)
               \/ AppendStep(p) \/ ApplyStep(p) \/ Exists(p) \/ OwnsKey(p) \/ OwnsShare(p)
      <3>1. UNCHANGED session_cache
        BY <2>1 DEF Lookup, ConfirmKey, Allowed, LoginRole, LoginActive,
           RecordUser, RecordSession, Seed, AppendStep, ApplyStep, Exists, OwnsKey, OwnsShare, caches
      <3>2. QED
        BY <1>2, <1>6, <1>7, <3>1
    <2>2. CASE \/ revoke_share_by_id(p) \/ update_share_paths(p) \/ delete_shares_under(p)
               \/ delete_rows(p) \/ drop_keys(p)
               \/ delete_row(p) \/ CacheKey(p) \/ DropKey(p) \/ Label(p)
               \/ RemoveTree(p) \/ factory_reset(p)
      <3>1. UNCHANGED session_cache
        BY <2>2 DEF revoke_share_by_id, update_share_paths, delete_shares_under,
           delete_rows, drop_keys, delete_row, CacheKey, DropKey, Label, caches, RemoveTree, factory_reset
      <3>2. QED
        BY <1>2, <1>6, <1>7, <3>1
    <2>3. QED
      BY <1>3, <1>4, <1>5, <1>6, <1>7, <2>1, <2>2 DEF Step

\* And to their rows.
LEMMA StepRowed ==
  ASSUME TypeOK, RequestsInv, NEW p \in Slots, Step(p), NEW s \in Sessions, rows'[s] # Nobody
  PROVE  /\ \/ rows'[s] = rows[s]
            \/ RecordSession(p) /\ rows'[s] = Who(p) /\ backend # "store"
         /\ ApplyStep(p) /\ Arg(p).kind = "user-delete" => rows'[s] # Arg(p).email
         /\ ~(factory_reset(p) /\ backend # "store")
  <1>1. rows \in [Sessions -> Emails \union {Nobody}]
    BY DEF TypeOK
  <1>2. CASE UNCHANGED rows /\ ~ApplyStep(p) /\ ~factory_reset(p)
    BY <1>2
  <1>3. CASE RecordSession(p)
    <2>1. ~ApplyStep(p) /\ ~factory_reset(p)
      BY <1>3 DEF RecordSession, ApplyStep, factory_reset, At
    <2>2. rows' = rows \/ (backend # "store" /\ rows' = [rows EXCEPT ![req[p].cred] = Who(p)])
      BY <1>3 DEF RecordSession
    <2>3. QED
      BY <1>1, <1>3, <2>1, <2>2
  <1>4. CASE delete_row(p) \/ delete_rows(p)
    <2>1. ~ApplyStep(p) /\ ~factory_reset(p)
      BY <1>4 DEF delete_row, delete_rows, ApplyStep, factory_reset, At
    <2>2. \/ rows' = [rows EXCEPT ![Arg(p).email] = Nobody]
          \/ rows' = [c \in Sessions |-> IF rows[c] = Arg(p).email THEN Nobody ELSE rows[c]]
      BY <1>4 DEF delete_row, delete_rows
    <2>3. QED
      BY <1>1, <2>1, <2>2
  <1>5. CASE ApplyStep(p)
    <2>1. ~factory_reset(p)
      BY <1>5 DEF ApplyStep, factory_reset, At
    <2>2. rows' = IF Arg(p).kind = "user-delete"
                  THEN [c \in Sessions |-> IF rows[c] = Arg(p).email THEN Nobody ELSE rows[c]] ELSE rows
      BY <1>5 DEF ApplyStep
    <2>3. QED
      BY <1>1, <2>1, <2>2
  <1>6. CASE factory_reset(p)
    <2>1. ~ApplyStep(p)
      BY <1>6 DEF ApplyStep, factory_reset, At
    <2>2. IF backend = "store" THEN rows' = rows ELSE rows' = [c \in Sessions |-> Nobody]
      BY <1>6 DEF factory_reset
    <2>3. QED
      BY <2>1, <2>2
  <1>7. QED
    <2>1. CASE \/ Lookup(p) \/ ConfirmSession(p) \/ ConfirmKey(p)
               \/ Allowed(p) \/ LoginRole(p) \/ LoginActive(p) \/ CacheSession(p)
               \/ RecordUser(p) \/ Seed(p)
               \/ AppendStep(p) \/ Exists(p) \/ OwnsKey(p) \/ OwnsShare(p)
      <3>1. UNCHANGED rows
        BY <2>1 DEF Lookup, ConfirmSession, ConfirmKey, Allowed, LoginRole, LoginActive, CacheSession,
           RecordUser, Seed, AppendStep, Exists, OwnsKey, OwnsShare, store
      <3>2. QED
        BY <1>2, <1>5, <1>6, <3>1
    <2>2. CASE \/ revoke_share_by_id(p) \/ update_share_paths(p) \/ delete_shares_under(p)
               \/ drop_sessions(p) \/ drop_keys(p) \/ delete_session(p)
               \/ CacheKey(p) \/ DropKey(p) \/ Label(p)
               \/ RemoveTree(p) \/ factory_reset_state(p)
      <3>1. UNCHANGED rows
        BY <2>2 DEF revoke_share_by_id, update_share_paths, delete_shares_under, drop_sessions,
           drop_keys, delete_session, CacheKey, DropKey, Label, store, RemoveTree, factory_reset_state
      <3>2. QED
        BY <1>2, <1>5, <1>6, <3>1
    <2>3. QED
      BY <1>3, <1>4, <1>5, <1>6, <2>1, <2>2 DEF Step

-----------------------------------------------------------------------------
(* Accounts: what is theirs, and what is about to be *)

\* No login and no creation of a key or a share has met a deletion.
Untouched == \A m \in met : m \intersect Creating # {} => m \intersect {"delete_user", "factory_reset"} = {}

\* A log that will be replayed.
Logs == backend # "pg" /\ stored

\* An account in the tables t, and in what a log replays to, w.
Counted(t, w, logs, e) == e \in Emails /\ IsUser(t, e) /\ (logs => IsUser(w, e))

\* A login that is about to record its account.
Announces(r, e) ==
    /\ r.op = "login" /\ r.user.email = e
    /\ \/ Head(r.todo).do = "record_user"
       \/ Head(r.todo).do \in {"append", "apply"} /\ Head(r.todo).x.kind = "user"

\* A deletion that has got to a step.
Ends(r, step, e) == r.op = "delete_user" /\ Head(r.todo).do = step /\ r.arg = e

Giving == {"create_api_key", "create_share"}

\* What a request rests on at its next step.
Vouched(t, w, logs, cache, r, step) ==
    /\ r.op \in Giving => \/ step = "lookup"
                          \/ step = "confirm" /\ (r.cred \in Sessions \/ r.cached)
                          \/ Counted(t, w, logs, r.user.email)
    /\ r.op = "login" /\ step = "apply" /\ Head(r.todo).x.kind = "user" /\ logs => IsUser(w, r.user.email)
    /\ step = "record_session" => IsUser(t, r.user.email)
    /\ step = "reset_db" => cache = NoSessions

AccountsInv ==
    Untouched =>
        /\ Owned(tables)
        /\ Logs => Owned(Replayed)
        /\ Logs => \A e \in Emails : IsUser(tables, e) =>
                      IsUser(Replayed, e) \/ \E q \in Slots : Busy(q) /\ Ends(req[q], "apply", e)
        /\ \A p \in Slots : Busy(p) =>
              Vouched(tables, Replayed, Logs, session_cache, req[p], Head(req[p].todo).do)
        /\ \A s \in Sessions : rows[s] # Nobody => IsUser(tables, rows[s])
        /\ backend = "store" => rows = NoRows
        /\ \A s \in Sessions : session_cache[s] # NoUser =>
              \/ IsUser(tables, session_cache[s].email)
              \/ \E q \in Slots : /\ Busy(q)
                                  /\ \/ Announces(req[q], session_cache[s].email)
                                     \/ Ends(req[q], "drop_sessions", session_cache[s].email)

\* A deletion and a login, or whoever gives something to an account, are never in progress at once.
LEMMA Apart ==
  ASSUME RequestsInv, Untouched, NEW p \in Slots, NEW q \in Slots, Busy(p), Busy(q),
         req[p].op \in {"delete_user", "factory_reset"}
  PROVE  req[q].op \notin Creating
  <1>1. CASE p = q
    BY <1>1 DEF Creating
  <1>2. CASE p # q
    <2>1. {req[p].op, req[q].op} \in met
      BY <1>2 DEF RequestsInv
    <2>2. QED
      BY <2>1 DEF Untouched
  <1>3. QED
    BY <1>1, <1>2

\* A deletion writes nothing else.
LEMMA DeletionEntry ==
  ASSUME RequestsInv, ScriptInv, NEW p \in Slots, At(p, "append") \/ At(p, "apply"), req[p].op = "delete_user"
  PROVE  Arg(p) \in Entries /\ Arg(p).kind = "user-delete" /\ Arg(p).email = req[p].arg
  <1> DEFINE x == Arg(p)
             r == req[p]
  <1>1. x \in Entries /\ Writes(r, x)
    BY EntryArg
  <1>2. Tells(r, x)
    <2>1. Busy(p) /\ Head(r.todo).do \in {"append", "apply"}
      BY DEF At
    <2>2. Scripted(backend, r, r.todo)
      BY <2>1 DEF ScriptInv, Opening
    <2>3. Head(r.todo) = r.todo[1] /\ 1 \in 1..Len(r.todo)
      BY <2>1, InProgressFields DEF RequestsInv
    <2>4. TellsStep(backend, r, Head(r.todo))
      BY <2>2, <2>3 DEF Scripted
    <2>5. QED
      BY <2>1, <2>4 DEF TellsStep, Arg
  <1> HIDE DEF x
  <1>3. x.kind \in Kinds
    BY <1>1, EntryFields
  <1>4. x.kind = "user-delete"
    BY <1>1, <1>2, <1>3 DEF Writes, Tells, Kinds, AccountKinds
  <1>5. QED
    BY <1>1, <1>4 DEF Writes, x

\* A request that has more to do goes on with it.
LEMMA NextStep ==
  ASSUME RequestsInv, NEW p \in Slots, Busy(p), Advance(p), Tail(req[p].todo) # <<>>
  PROVE  /\ req'[p] # Nothing /\ SameRequest(req'[p], req[p]) /\ req'[p].todo = Tail(req[p].todo)
         /\ Head(req'[p].todo) = req[p].todo[2] /\ 2 \in 1..Len(req[p].todo)
  <1> DEFINE u == req[p].todo
  <1>1. u \in Seq(Steps) /\ u # <<>>
    BY InProgressFields DEF RequestsInv
  <1>2. Tail(u) \in Seq(Steps) /\ <<>> \o Tail(u) = Tail(u)
    BY <1>1, StepsOf, NothingJoined
  <1>3. Head(Tail(u)) = u[2] /\ 2 \in 1..Len(u)
    <2> DEFINE w == Tail(u)
    <2>1. w \in Seq(Steps) /\ Len(w) = Len(u) - 1 /\ \A i \in 1..Len(w) : i + 1 \in 1..Len(u) /\ w[i] = u[i + 1]
      BY <1>1, StepsOf
    <2>2. Head(w) = w[1] /\ 1 \in 1..Len(w)
      <3> HIDE DEF w
      <3>1. QED
        BY <2>1, StepsOf DEF w
    <2>3. QED
      BY <2>1, <2>2
  <1>4. SameRequest(req'[p], req[p]) /\ req'[p].todo = Tail(u)
    BY <1>2, ThenSame DEF Advance
  <1>5. req'[p] # Nothing
    <2>1. Nothing.todo = <<>>
      BY DEF Nothing, Request
    <2>2. QED
      BY <1>4, <2>1
  <1>6. QED
    BY <1>3, <1>4, <1>5

\* After an entry of the log, and after a cached session, comes what the script says.
LEMMA NextOfScript ==
  ASSUME RequestsInv, ScriptInv, NEW p \in Slots, Busy(p), Advance(p), Head(req[p].todo).do \notin Opening,
         Opens(backend, Head(req[p].todo)) \/ Head(req[p].todo).do = "cache_session"
  PROVE  /\ req'[p] # Nothing /\ SameRequest(req'[p], req[p])
         /\ Answers(backend, Head(req[p].todo), Head(req'[p].todo))
  <1> DEFINE u == req[p].todo
  <1>1. u \in Seq(Steps) /\ u # <<>> /\ Head(u) = u[1] /\ 1 \in 1..Len(u) /\ Len(u) \in Nat
    BY InProgressFields DEF RequestsInv
  <1>2. Scripted(backend, req[p], u)
    BY DEF ScriptInv
  <1>3. 1 < Len(u) /\ Answers(backend, u[1], u[1 + 1])
    BY <1>1, <1>2 DEF Scripted
  <1>4. Tail(u) # <<>>
    <2>1. Len(Tail(u)) = Len(u) - 1 /\ Len(<<>>) = 0
      BY <1>1, StepsOf
    <2>2. Len(Tail(u)) # Len(<<>>)
      <3>1. Len(u) - 1 # 0
        BY <1>1, <1>3
      <3>2. QED
        BY <2>1, <3>1
    <2> HIDE DEF u
    <2>3. QED
      BY <2>2
  <1>5. req'[p] # Nothing /\ SameRequest(req'[p], req[p]) /\ Head(req'[p].todo) = u[2]
    BY <1>4, NextStep
  <1>6. QED
    BY <1>1, <1>3, <1>5

LEMMA MoreTaken ==
  ASSUME NEW p \in Slots, Step(p)
  PROVE  LET d == Head(req[p].todo).do
         IN  /\ d = "append" => AppendStep(p)
             /\ d = "apply" => ApplyStep(p)
             /\ d = "cache_session" => CacheSession(p)
             /\ d = "record_user" => RecordUser(p)
             /\ d = "drop_sessions" => drop_sessions(p)
             /\ d = "reset_db" => factory_reset(p)
  <1> DEFINE d == Head(req[p].todo).do
             known == {"append", "apply", "cache_session", "record_user", "drop_sessions", "reset_db"}
  <1>1. CASE Lookup(p) \/ ConfirmSession(p) \/ ConfirmKey(p) \/ Allowed(p) \/ LoginRole(p) \/ LoginActive(p)
    <2>1. d \in {"lookup", "confirm", "allowed", "login_role", "is_active"}
      BY <1>1 DEF Lookup, ConfirmSession, ConfirmKey, Allowed, LoginRole, LoginActive, At
    <2>2. QED
      BY <2>1
  <1>2. CASE RecordSession(p) \/ Seed(p) \/ Exists(p) \/ OwnsKey(p) \/ OwnsShare(p) \/ revoke_share_by_id(p)
             \/ update_share_paths(p) \/ delete_shares_under(p)
    <2>1. d \in {"record_session", "seed", "exists", "owns_key", "owns_share", "revoke_share",
                 "update_share_paths", "delete_shares_under"}
      BY <1>2 DEF RecordSession, Seed, Exists, OwnsKey, OwnsShare, revoke_share_by_id, update_share_paths,
           delete_shares_under, At
    <2>2. QED
      BY <2>1
  <1>3. CASE delete_rows(p) \/ drop_keys(p) \/ delete_session(p) \/ delete_row(p) \/ CacheKey(p) \/ DropKey(p)
             \/ Label(p) \/ RemoveTree(p) \/ factory_reset_state(p)
    <2>1. d \in {"delete_rows", "drop_keys", "delete_session", "delete_row", "cache_key", "drop_key", "label",
                 "remove_tree", "clear"}
      BY <1>3 DEF delete_rows, drop_keys, delete_session, delete_row, CacheKey, DropKey, Label, RemoveTree,
           factory_reset_state, At
    <2>2. QED
      BY <2>1
  <1>4. CASE AppendStep(p) \/ ApplyStep(p) \/ CacheSession(p) \/ RecordUser(p) \/ drop_sessions(p)
             \/ factory_reset(p)
    <2>1. /\ AppendStep(p) => d = "append"
          /\ ApplyStep(p) => d = "apply"
          /\ CacheSession(p) => d = "cache_session"
          /\ RecordUser(p) => d = "record_user"
          /\ drop_sessions(p) => d = "drop_sessions"
          /\ factory_reset(p) => d = "reset_db"
      BY DEF AppendStep, ApplyStep, CacheSession, RecordUser, drop_sessions, factory_reset, At
    <2>2. QED
      BY <1>4, <2>1
  <1>5. QED
    BY <1>1, <1>2, <1>3, <1>4 DEF Step

\* Which steps of other requests change the accounts: none of them ends one without being a deletion.
LEMMA KeepsAccounts ==
  ASSUME TypeOK, RequestsInv, NEW p \in Slots, Step(p), req[p].op \notin {"delete_user", "factory_reset"}
  PROVE  /\ \A e \in Emails : IsUser(tables, e) => IsUser(tables', e)
         /\ \A e \in Emails : IsUser(Replayed, e) => IsUser(Replayed', e)
         /\ stored' = stored /\ backend' = backend
  <1>1. Busy(p) /\ Fits(backend, req[p], Head(req[p].todo))
    BY StepShape, InProgressFields
  <1>2. Head(req[p].todo).do \notin {"remove_tree", "clear", "reset_db"}
    BY <1>1 DEF Fits
  <1>3. ~RemoveTree(p) /\ ~Empties(p)
    BY <1>2 DEF RemoveTree, Empties, factory_reset_state, factory_reset, At
  <1>4. At(p, "append") \/ At(p, "apply") => Arg(p) \in Entries /\ Arg(p).kind # "user-delete"
    BY EntryArg DEF Writes
  <1>5. \A e \in Emails : IsUser(tables, e) => IsUser(tables', e)
    BY <1>3, <1>4, StepUsers DEF ApplyStep
  <1>6. \A e \in Emails : IsUser(Replayed, e) => IsUser(Replayed', e)
    <2>1. CASE AppendStep(p) /\ Replayed' = Changed(Replayed, Arg(p))
      BY <1>4, <2>1, StepReplay, ChangedIsUser DEF AppendStep
    <2>2. CASE Replayed' = Replayed
      BY <2>2
    <2>3. QED
      BY <2>1, <2>2, StepReplay
  <1>7. stored' = stored
    BY <1>3 DEF Step, Lookup, ConfirmSession, ConfirmKey, Allowed, LoginRole, LoginActive, CacheSession,
         RecordUser, RecordSession, Seed, AppendStep, ApplyStep, Exists, OwnsKey, OwnsShare,
         revoke_share_by_id, update_share_paths, delete_shares_under, drop_sessions, delete_rows, drop_keys,
         delete_session, delete_row, CacheKey, DropKey, Label, factory_reset_state, factory_reset, store
  <1>8. QED
    BY <1>5, <1>6, <1>7, StepKeeps

\* What the steps of a request may count on.
Steady(p) ==
    /\ TypeOK /\ RequestsInv /\ ScriptInv /\ PathsInv /\ AccountsInv /\ Untouched
    /\ Step(p)

LEMMA StoredStays ==
  ASSUME TypeOK, RequestsInv, NEW p \in Slots, Step(p)
  PROVE  Logs' => Logs
  <1>1. backend' = backend
    BY StepKeeps
  <1>2. stored' = stored \/ stored' = FALSE
    BY StepAccounts DEF AppendStep, ApplyStep
  <1>3. QED
    BY <1>1, <1>2 DEF Logs

\* An entry is written for an account that is there.
LEMMA StepFounded ==
  ASSUME NEW p \in Slots, Steady(p)
  PROVE  /\ ApplyStep(p) => Founded(tables, Arg(p))
         /\ AppendStep(p) /\ Logs => Founded(Replayed, Arg(p))
  <1> DEFINE r == req[p]
             x == Arg(p)
             d == Head(r.todo).do
  <1> SUFFICES ASSUME d \in {"append", "apply"}, Busy(p)
               PROVE  Founded(tables, x) /\ (Logs => Founded(Replayed, x))
    BY DEF ApplyStep, AppendStep, At
  <1>1. At(p, "append") \/ At(p, "apply")
    BY DEF At
  <1>2. x \in Entries /\ Writes(r, x)
    BY <1>1, EntryArg DEF Steady
  <1>3. Tells(r, x)
    <2>1. Scripted(backend, r, r.todo)
      BY DEF Steady, ScriptInv, Opening
    <2>2. Head(r.todo) = r.todo[1] /\ 1 \in 1..Len(r.todo)
      BY InProgressFields DEF Steady, RequestsInv
    <2>3. TellsStep(backend, r, Head(r.todo))
      BY <2>1, <2>2 DEF Scripted
    <2>4. QED
      BY <2>3 DEF TellsStep, Arg
  <1>4. r.op \in Giving => IsUser(tables, r.user.email) /\ (Logs => IsUser(Replayed, r.user.email))
    BY DEF Steady, AccountsInv, Vouched, Counted
  <1> HIDE DEF x, r
  <1>5. CASE x.kind = "api-key"
    <2>1. r.op = "create_api_key" /\ x = KeyEntry(r.arg.key, r.user.email, r.arg.label)
      BY <1>2, <1>5 DEF Writes
    <2>2. x.email = r.user.email
      BY <2>1 DEF KeyEntry
    <2>3. QED
      BY <1>4, <1>5, <2>1, <2>2 DEF Giving, Founded
  <1>6. CASE x.kind = "share"
    <2>1. r.op = "create_share" /\ x.share = NewShare(r.arg.share, r.user.email, r.arg.grantee,
                                                      Home(r.user.email, r.arg.folder), r.arg.permission)
      BY <1>3, <1>6 DEF Tells
    <2>2. x.share.owner = r.user.email
      BY <2>1 DEF NewShare
    <2>3. QED
      BY <1>4, <1>6, <2>1, <2>2 DEF Giving, Founded
  <1>7. CASE x.kind \notin {"api-key", "share"}
    BY <1>7 DEF Founded
  <1>8. QED
    BY <1>5, <1>6, <1>7

LEMMA StepKeepsOwned ==
  ASSUME NEW p \in Slots, Steady(p)
  PROVE  Owned(tables') /\ (Logs' => Owned(Replayed'))
  <1>1. TypeOK /\ RequestsInv /\ Step(p) /\ Owned(tables) /\ (Logs => Owned(Replayed))
    BY DEF Steady, AccountsInv
  <1>2. Owned(tables')
    BY <1>1, StepFounded, StepOwned
  <1>3. ASSUME Logs'
        PROVE  Owned(Replayed')
    <2>1. Logs
      BY <1>1, <1>3, StoredStays
    <2>2. CASE AppendStep(p) /\ Arg(p) \in Entries /\ Replayed' = Changed(Replayed, Arg(p))
      <3>1. Founded(Replayed, Arg(p)) /\ Replayed \in Tables
        BY <1>1, <2>1, <2>2, StepFounded, StepReplay
      <3>2. QED
        BY <1>1, <2>1, <2>2, <3>1, ChangedOwned
    <2>3. CASE Replayed' = Replayed
      BY <1>1, <2>1, <2>3
    <2>4. CASE Bare(Replayed')
      BY <2>4, BareOwned
    <2>5. QED
      BY <1>1, <2>2, <2>3, <2>4, StepReplay
  <1>4. QED
    BY <1>2, <1>3

\* An account of the tables is in the log.
LEMMA StepKeepsListed ==
  ASSUME NEW p \in Slots, Steady(p), Logs', NEW e \in Emails, IsUser(tables', e)
  PROVE  IsUser(Replayed', e) \/ \E q \in Slots : Busy(q)' /\ Ends(req'[q], "apply", e)
  <1>1. /\ TypeOK /\ RequestsInv /\ ScriptInv /\ Step(p) /\ Logs
        /\ IsUser(tables, e) => IsUser(Replayed, e) \/ \E q \in Slots : Busy(q) /\ Ends(req[q], "apply", e)
        /\ Vouched(tables, Replayed, Logs, session_cache, req[p], Head(req[p].todo).do)
    <2>1. Logs
      BY StoredStays DEF Steady
    <2>2. Busy(p)
      BY StepKeeps DEF Steady
    <2>3. QED
      BY <2>1, <2>2 DEF Steady, AccountsInv
  <1>2. /\ Busy(p) /\ \A q \in Slots : q # p => req'[q] = req[q]
        /\ \A q \in Slots : Busy(q)' <=> req'[q] # Nothing
    BY <1>1, StepShape DEF Busy, Idle
  <1>3. CASE ~IsUser(tables, e)
    <2>1. ApplyStep(p) /\ Arg(p).kind = "user" /\ Arg(p).email = e
      BY <1>1, <1>3, StepUsers
    <2>2. Head(req[p].todo).do = "apply" /\ Head(req[p].todo).x.kind = "user"
      BY <2>1 DEF ApplyStep, At, Arg
    <2>3. req[p].op = "login" /\ req[p].user.email = e
      BY <1>1, <2>1, EntryArg DEF ApplyStep, Writes
    <2>4. IsUser(Replayed, e)
      BY <1>1, <2>2, <2>3 DEF Vouched
    <2>5. QED
      BY <1>1, <2>3, <2>4, KeepsAccounts
  <1>4. CASE IsUser(tables, e) /\ IsUser(Replayed, e)
    <2>1. CASE AppendStep(p) /\ Arg(p) \in Entries /\ Replayed' = Changed(Replayed, Arg(p))
      <3>1. IsUser(Replayed', e) \/ (Arg(p).kind = "user-delete" /\ Arg(p).email = e)
        BY <1>1, <1>4, <2>1, StepReplay, ChangedAccounts
      <3>2. CASE Arg(p).kind = "user-delete" /\ Arg(p).email = e
        <4>1. req[p].op = "delete_user" /\ req[p].arg = e
          BY <1>1, <2>1, <3>2, EntryArg DEF AppendStep, Writes
        <4>2. Advance(p) /\ Head(req[p].todo).do = "append"
          BY <2>1 DEF AppendStep, At
        <4>3. Opens(backend, Head(req[p].todo)) /\ Head(req[p].todo).do \notin Opening
          BY <3>2, <4>2 DEF Opens, LogOnly, Opening, Arg
        <4>4. req'[p] # Nothing /\ SameRequest(req'[p], req[p]) /\ Answers(backend, Head(req[p].todo), Head(req'[p].todo))
          BY <1>1, <1>2, <4>2, <4>3, NextOfScript
        <4>5. Head(req'[p].todo).do = "apply"
          BY <4>3, <4>4 DEF Answers, ApplyEntry
        <4>6. Ends(req'[p], "apply", e)
          BY <4>1, <4>4, <4>5 DEF Ends, SameRequest
        <4>7. QED
          BY <1>2, <4>4, <4>6
      <3>3. QED
        BY <3>1, <3>2
    <2>2. CASE Replayed' = Replayed
      BY <1>4, <2>2
    <2>3. CASE req[p].op = "factory_reset" /\ Head(req[p].todo).do \notin Opening /\ Bare(Replayed') /\ Replayed' # Replayed
      <3>1. log' # log
        BY <1>1, <2>3, StepReplay, StepKeeps, ReplayNext DEF Replayed
      <3>2. backend # "pg"
        BY <1>1 DEF Logs
      <3>3. factory_reset(p) /\ backend # "store"
        <4>1. ~AppendStep(p)
          <5>1. Fits(backend, req[p], Head(req[p].todo)) /\ OnPath(backend, req[p])
            BY <1>1, <1>2, <2>3, InProgressFields DEF RequestsInv, Steady, PathsInv
          <5>3. Head(req[p].todo).do # "append"
            <6>1. Head(req[p].todo).do \in {"remove_tree", "clear", "reset_db"}
              BY <2>3, <5>1, ResetHead
            <6>2. QED
              BY <6>1
          <5>4. QED
            BY <5>3 DEF AppendStep, At
        <4>2. RemoveTree(p) \/ factory_reset(p)
          <5>1. ~(\/ Lookup(p) \/ ConfirmSession(p) \/ ConfirmKey(p) \/ Allowed(p) \/ LoginRole(p)
                  \/ LoginActive(p) \/ CacheSession(p) \/ RecordUser(p) \/ RecordSession(p) \/ Seed(p)
                  \/ ApplyStep(p) \/ Exists(p) \/ OwnsKey(p) \/ OwnsShare(p))
            BY <3>1 DEF Lookup, ConfirmSession, ConfirmKey, Allowed, LoginRole, LoginActive, CacheSession,
               RecordUser, RecordSession, Seed, ApplyStep, Exists, OwnsKey, OwnsShare, store
          <5>2. ~(\/ revoke_share_by_id(p) \/ update_share_paths(p) \/ delete_shares_under(p)
                  \/ drop_sessions(p) \/ delete_rows(p) \/ drop_keys(p) \/ delete_session(p) \/ delete_row(p)
                  \/ CacheKey(p) \/ DropKey(p) \/ Label(p) \/ factory_reset_state(p))
            BY <3>1 DEF revoke_share_by_id, update_share_paths, delete_shares_under, drop_sessions, delete_rows,
               drop_keys, delete_session, delete_row, CacheKey, DropKey, Label, factory_reset_state, store
          <5>3. QED
            BY <1>1, <4>1, <5>1, <5>2 DEF Step
        <4>3. ~RemoveTree(p)
          <5>1. stored'
            BY DEF Logs
          <5>2. QED
            BY <3>1, <5>1 DEF RemoveTree
        <4>4. QED
          BY <3>1, <4>2, <4>3 DEF factory_reset
      <3>4. tables' = KeptPolicy
        BY <3>3 DEF factory_reset
      <3>5. QED
        BY <1>1, <3>4, KeptBare, BareNone DEF TypeOK
    <2>4. QED
      BY <1>1, <2>1, <2>2, <2>3, StepReplay
  <1>5. CASE IsUser(tables, e) /\ ~IsUser(Replayed, e)
    <2>1. PICK q \in Slots : Busy(q) /\ Ends(req[q], "apply", e)
      BY <1>1, <1>5
    <2>2. q # p
      <3> SUFFICES ASSUME q = p PROVE FALSE
        OBVIOUS
      <3>1. ApplyStep(p) /\ At(p, "apply") /\ req[p].op = "delete_user" /\ req[p].arg = e
        BY <1>1, <2>1, MoreTaken DEF Ends, At
      <3>2. Arg(p).kind = "user-delete" /\ Arg(p).email = e
        BY <1>1, <3>1, DeletionEntry
      <3>3. QED
        BY <1>1, <3>1, <3>2, StepUsers
    <2>3. req'[q] = req[q] /\ Busy(q)'
      BY <1>2, <2>1, <2>2 DEF Busy, Idle
    <2>4. QED
      BY <2>1, <2>3
  <1>6. QED
    BY <1>3, <1>4, <1>5

LEMMA SecondOf ==
  ASSUME NEW a, NEW b, NEW c
  PROVE  Head(Tail(<<a, b, c>>)) = b /\ Head(Tail(<<b, c>>)) = c
  OBVIOUS

LEMMA JoinedHead ==
  ASSUME NEW S, NEW s \in Seq(S), s # <<>>, NEW u \in Seq(S)
  PROVE  Head(s \o u) = Head(s)
  OBVIOUS

\* What a login does after a step of its own.
LEMMA LoginNext ==
  ASSUME TypeOK, RequestsInv, NEW p \in Slots, Step(p), req[p].op = "login", req'[p] # Nothing,
         Head(req'[p].todo).do \notin Opening
  PROVE  LET r == req[p]
             d == Head(r.todo).do
             next == Head(req'[p].todo)
             x == UserEntry(r.user.email, tables.users[r.user.email] # "inactive")
         IN  /\ req'[p].op = r.op /\ req'[p].user = r.user
             /\ \/ d = "is_active" /\ next.do = "cache_session"
                \/ d = "record_user" /\ next = (IF backend = "pg" THEN ApplyEntry(x) ELSE AppendEntry(x))
                \/ d \notin Opening /\ d # "record_user" /\ Follows(backend, r, Head(r.todo), next)
  <1> DEFINE r == req[p]
             d == Head(r.todo).do
             next == Head(req'[p].todo)
             x == UserEntry(r.user.email, tables.users[r.user.email] # "inactive")
  <1>1. Busy(p) /\ InProgress(backend, r)
    BY StepShape
  <1>2. Called(r) /\ r.todo \in Seq(Steps) /\ r.todo # <<>> /\ Fits(backend, r, Head(r.todo))
    BY <1>1, InProgressFields
  <1>3. Entered(r, d) /\ Tail(r.todo) \in Seq(Steps)
    BY <1>1, <1>2, StepsOf DEF InProgress
  <1>4. d \notin {"lookup", "confirm"}
    BY <1>2 DEF Fits, LoginSteps
  <1>5. d \notin {"allowed", "login_role"}
    <2>1. SUFFICES ASSUME d \in {"allowed", "login_role"}
                   PROVE  FALSE
      OBVIOUS
    <2> DEFINE a == Do("allowed")
               b == Do("login_role")
               c == Do("is_active")
    <2>2. r.todo = <<a, b, c>> \/ r.todo = <<b, c>>
      BY <1>3, <2>1 DEF Entered, LoggingIn
    <2>3. b.do \in Opening /\ c.do \in Opening
      BY DEF Do, Opening
    <2>4. req'[p].todo = Tail(r.todo)
      BY <2>1, LoginGoesOn
    <2> HIDE DEF a, b, c
    <2>5. Head(Tail(r.todo)) \in {b, c}
      <3>1. Head(Tail(<<a, b, c>>)) = b /\ Head(Tail(<<b, c>>)) = c
        BY SecondOf
      <3>2. CASE r.todo = <<a, b, c>>
        BY <3>1, <3>2, Zenon
      <3>3. CASE r.todo = <<b, c>>
        BY <3>1, <3>3, Zenon
      <3>4. QED
        BY <2>2, <3>2, <3>3
    <2>6. QED
      BY <2>3, <2>4, <2>5
  <1>6. req'[p].op = r.op /\ req'[p].user = r.user
    <2>1. ~LoginRole(p)
      BY <1>5 DEF LoginRole, At
    <2>2. QED
      BY <2>1, StepSame, LoginUserStays
  <1>7. CASE d = "is_active"
    <2> DEFINE a == Do("cache_session")
    <2>1. req'[p].todo = login_known(r.user.email, r.user.role) \o Tail(r.todo)
      BY <1>7, LoginGoesOn
    <2>2. PICK w \in Seq(Steps) : login_known(r.user.email, r.user.role) = <<a>> \o w /\ a \in Steps
      <3> DEFINE t == set_top_admin(r.user.email)
                 v == <<Do("record_user"), Do("record_session"), Do("seed")>>
                 m == IF r.user.role = "top" THEN t ELSE <<>>
      <3>1. Knows(r)
        BY <1>1, <1>7, InProgressFields
      <3>2. t \in Seq(Steps)
        <4>1. About("top-admin", r.user.email) \in Entries
          BY <3>1 DEF Knows, Users, About, Entries
        <4>2. AppendEntry(About("top-admin", r.user.email)) \in Steps /\ ApplyEntry(About("top-admin", r.user.email)) \in Steps
          BY <4>1 DEF Steps, AppendEntry, ApplyEntry
        <4>3. QED
          BY <4>2 DEF set_top_admin, Persist
      <3>3. v \in Seq(Steps) /\ a \in Steps
        <4>1. \A d1 \in Plain : Do(d1) \in Steps
          BY DEF Steps, Do
        <4>2. Do("record_user") \in Steps /\ Do("record_session") \in Steps /\ Do("seed") \in Steps /\ a \in Steps
          BY <4>1 DEF Plain
        <4>3. QED
          BY <4>2
      <3>4. m \in Seq(Steps)
        BY <3>2
      <3>5. login_known(r.user.email, r.user.role) = (<<a>> \o v) \o m
        BY DEF login_known
      <3> HIDE DEF v, m, a
      <3>6. (<<a>> \o v) \o m = <<a>> \o (v \o m) /\ v \o m \in Seq(Steps)
        BY <3>3, <3>4
      <3>7. QED
        BY <3>3, <3>5, <3>6
    <2>3. a.do = "cache_session"
      BY DEF Do
    <2> HIDE DEF a
    <2>4. <<a>> \o w \in Seq(Steps) /\ <<a>> \o w # <<>> /\ Head(<<a>> \o w) = a
      BY <2>2
    <2>5. next = a
      <3> DEFINE s == <<a>> \o w
                 u == Tail(r.todo)
      <3>1. s \in Seq(Steps) /\ s # <<>> /\ Head(s) = a /\ u \in Seq(Steps)
        BY <1>3, <2>4
      <3>2. req'[p].todo = s \o u
        BY <2>1, <2>2
      <3> HIDE DEF s, u
      <3>3. Head(s \o u) = a
        BY <3>1, JoinedHead
      <3>4. QED
        BY <3>2, <3>3
    <2>6. QED
      BY <1>6, <1>7, <2>3, <2>5
  <1>8. CASE d = "record_user"
    <2> DEFINE s == IF backend = "pg" THEN ApplyEntry(x) ELSE AppendEntry(x)
    <2>1. req'[p].todo = Persist(x) \o Tail(r.todo)
      BY <1>8, LoginGoesOn
    <2>2. Knows(r)
      BY <1>1, <1>8, InProgressFields
    <2>3. x \in Entries
      BY <2>2 DEF Knows, Users, UserEntry, Entries
    <2> HIDE DEF x
    <2>4. Persist(x) \in Seq(Steps) /\ Persist(x) # <<>> /\ Head(Persist(x)) = s
      <3>1. AppendEntry(x) \in Steps /\ ApplyEntry(x) \in Steps
        BY <2>3 DEF Steps, AppendEntry, ApplyEntry
      <3>2. QED
        BY <3>1, FirstOf DEF Persist
    <2>5. next = s
      BY <1>3, <2>1, <2>4, JoinedHead
    <2>6. QED
      BY <1>6, <1>8, <2>5 DEF x
  <1>9. CASE d \notin Opening /\ d # "record_user"
    <2>1. req'[p].todo = Tail(r.todo)
      BY <1>9, LoginGoesOn DEF Opening
    <2>2. Tail(r.todo) # <<>>
      <3>1. InProgress(backend, req'[p])
        BY StepShape
      <3>2. QED
        BY <2>1, <3>1 DEF InProgress
    <2>3. Follows(backend, r, Head(r.todo), r.todo[2])
      BY <1>1, <1>9, <2>2, Served
    <2>4. Head(Tail(r.todo)) = r.todo[2]
      BY <1>2, <2>2
    <2>5. QED
      BY <1>6, <1>9, <2>1, <2>3, <2>4
  <1>10. QED
    BY <1>4, <1>5, <1>7, <1>8, <1>9 DEF Opening

\* An account that nobody is deleting is in the log, if it is in the tables.
LEMMA InTheLog ==
  ASSUME NEW p \in Slots, Steady(p), req[p].op \in Creating, NEW e \in Emails, IsUser(tables, e)
  PROVE  Counted(tables, Replayed, Logs, e)
  <1>1. ASSUME Logs, ~IsUser(Replayed, e)
        PROVE  FALSE
    <2>1. PICK q \in Slots : Busy(q) /\ Ends(req[q], "apply", e)
      BY <1>1 DEF Steady, AccountsInv
    <2>2. Busy(p)
      BY StepKeeps DEF Steady
    <2>3. req[p].op \notin Creating
      BY <2>1, <2>2, Apart DEF Steady, Ends
    <2>4. QED
      BY <2>3
  <1>2. QED
    BY <1>1 DEF Counted

\* What another request rests on stays so.
LEMMA StepKeepsOthers ==
  ASSUME NEW p \in Slots, Steady(p), NEW q \in Slots, q # p, Busy(q)
  PROVE  Vouched(tables', Replayed', Logs', session_cache', req[q], Head(req[q].todo).do)
  <1> DEFINE r == req[q]
             step == Head(r.todo).do
  <1>1. TypeOK /\ RequestsInv /\ Step(p) /\ Busy(p) /\ Vouched(tables, Replayed, Logs, session_cache, r, step)
    BY StepKeeps DEF Steady, AccountsInv
  <1>2. InProgress(backend, r) /\ Fits(backend, r, Head(r.todo)) /\ InProgress(backend, req[p])
    BY <1>1, InProgressFields DEF RequestsInv
  <1>3. Logs' => Logs
    BY <1>1, StoredStays
  <1>4. r.op \in Creating => req[p].op \notin {"delete_user", "factory_reset"}
    BY <1>1, Apart DEF Steady
  <1>5. r.op \in Creating =>
           /\ \A e \in Emails : IsUser(tables, e) => IsUser(tables', e)
           /\ \A e \in Emails : IsUser(Replayed, e) => IsUser(Replayed', e)
    BY <1>1, <1>4, KeepsAccounts
  <1>6. r.op \in Giving =>
           step = "lookup" \/ (step = "confirm" /\ (r.cred \in Sessions \/ r.cached))
              \/ Counted(tables', Replayed', Logs', r.user.email)
    <2>1. SUFFICES ASSUME r.op \in Giving, Counted(tables, Replayed, Logs, r.user.email)
                   PROVE  Counted(tables', Replayed', Logs', r.user.email)
      BY <1>1 DEF Vouched
    <2>2. r.op \in Creating
      BY <2>1 DEF Giving, Creating
    <2>3. QED
      BY <1>3, <1>5, <2>1, <2>2 DEF Counted
  <1>7. r.op = "login" => r.op \in Creating /\ (step \notin Opening => r.user.email \in Emails)
    <2>1. step \notin Opening => Knows(r)
      BY <1>2, InProgressFields DEF Opening
    <2>2. QED
      BY <2>1 DEF Creating, Knows, Users
  <1>8. r.op = "login" /\ step = "apply" /\ Head(r.todo).x.kind = "user" /\ Logs' => IsUser(Replayed', r.user.email)
    BY <1>1, <1>3, <1>5, <1>7 DEF Vouched, Opening
  <1>9. step = "record_session" => IsUser(tables', r.user.email)
    <2>1. step = "record_session" => r.op = "login" /\ step \notin Opening
      BY <1>2 DEF Fits, LoginSteps, Opening
    <2>2. QED
      BY <1>1, <1>5, <1>7, <2>1 DEF Vouched
  <1>10. ASSUME step = "reset_db"
         PROVE  session_cache' = NoSessions
    <2>1. r.op = "factory_reset" /\ session_cache = NoSessions
      BY <1>1, <1>2, <1>10 DEF Fits, Vouched
    <2>2. req[p].op # "login"
      BY <1>1, <2>1, Apart DEF Steady, Creating
    <2>3. ~CacheSession(p)
      <3>1. Fits(backend, req[p], Head(req[p].todo))
        BY <1>2, InProgressFields
      <3>2. QED
        BY <2>2, <3>1 DEF Fits, LoginSteps, CacheSession, At
    <2>4. \A s \in Sessions : session_cache'[s] = NoUser
      BY <1>1, <2>1, <2>3, StepCached DEF NoSessions
    <2>5. session_cache' \in [Sessions -> Users \union {NoUser}]
      BY <1>1, StepSessions
    <2>6. QED
      BY <2>4, <2>5 DEF NoSessions
  <1> HIDE DEF r, step
  <1>11. Vouched(tables', Replayed', Logs', session_cache', r, step)
    BY <1>6, <1>8, <1>9, <1>10 DEF Vouched, r, step
  <1>12. QED
    BY <1>11 DEF r, step

\* Whoever gives something to its account knows it is there.
LEMMA GivingStep ==
  ASSUME NEW p \in Slots, Steady(p), req[p].op \in Giving, req'[p] # Nothing
  PROVE  \/ Head(req'[p].todo).do = "lookup"
         \/ Head(req'[p].todo).do = "confirm" /\ (req'[p].cred \in Sessions \/ req'[p].cached)
         \/ Counted(tables', Replayed', Logs', req'[p].user.email)
  <1> DEFINE r == req[p]
             d == Head(r.todo).do
             e == req'[p].user.email
  <1>1. TypeOK /\ RequestsInv /\ Step(p) /\ Busy(p) /\ Vouched(tables, Replayed, Logs, session_cache, r, d)
    BY StepKeeps DEF Steady, AccountsInv
  <1>2. /\ InProgress(backend, r) /\ InProgress(backend, req'[p])
        /\ req'[p].op = r.op /\ req'[p].cred = r.cred
    BY <1>1, StepShape, StepSame
  <1>3. r.op \in Creating /\ r.op # "login" /\ r.op \notin {"delete_user", "factory_reset"}
    BY DEF Giving, Creating
  <1>4. SUFFICES ASSUME Head(req'[p].todo).do # "lookup"
                 PROVE  \/ Head(req'[p].todo).do = "confirm" /\ (req'[p].cred \in Sessions \/ req'[p].cached)
                        \/ Counted(tables', Replayed', Logs', e)
    OBVIOUS
  <1>5. e \in Emails
    <2>1. Fits(backend, req'[p], Head(req'[p].todo)) /\ Entered(req'[p], Head(req'[p].todo).do)
      BY <1>2, InProgressFields DEF InProgress
    <2>2. Head(req'[p].todo).do \notin {"allowed", "login_role"}
      BY <1>2, <1>3, <2>1 DEF Fits, LoginSteps
    <2>3. CASE Head(req'[p].todo).do = "confirm"
      BY <2>1, <2>3 DEF Entered, Known
    <2>4. CASE Head(req'[p].todo).do # "confirm"
      <3>1. Knows(req'[p])
        BY <1>2, <1>4, <2>2, <2>4, InProgressFields
      <3>2. QED
        BY <3>1 DEF Knows, Users
    <2>5. QED
      BY <2>3, <2>4
  <1>6. Logs' => Logs
    BY <1>1, StoredStays
  <1>7. /\ \A f \in Emails : IsUser(tables, f) => IsUser(tables', f)
        /\ \A f \in Emails : IsUser(Replayed, f) => IsUser(Replayed', f)
    BY <1>1, <1>3, KeepsAccounts
  <1>8. Counted(tables, Replayed, Logs, e) => Counted(tables', Replayed', Logs', e)
    BY <1>6, <1>7 DEF Counted
  <1>9. IsUser(tables, e) => Counted(tables, Replayed, Logs, e)
    BY <1>3, <1>5, InTheLog
  <1>10. CASE d \notin Opening
    <2>1. SameRequest(req'[p], r)
      <3>1. ServedStep(p)
        BY <1>1, <1>10, StepTaken
      <3>2. QED
        BY <1>1, <3>1, ServedSame
    <2>2. Counted(tables, Replayed, Logs, r.user.email)
      BY <1>1, <1>10 DEF Vouched, Opening
    <2>3. e = r.user.email
      BY <2>1 DEF SameRequest
    <2>4. QED
      BY <1>8, <2>2, <2>3
  <1>11. CASE Lookup(p)
    <2>1. CASE req'[p].cached \/ r.cred \in Sessions
      <3>1. Head(req'[p].todo).do = "confirm"
        <4> DEFINE c == Do("confirm")
        <4>1. req'[p].todo = <<c>> /\ c.do = "confirm"
          BY <1>1, <1>11, LookupFinds DEF Do
        <4> HIDE DEF c
        <4>2. QED
          BY <4>1, FirstOf
      <3>2. QED
        BY <1>2, <2>1, <3>1
    <2>2. CASE ~req'[p].cached /\ r.cred \notin Sessions
      <3>1. r.cred \notin Sessions /\ Usable(r.cred) /\ req'[p].user = Row(r.cred)
        BY <1>1, <1>11, <2>2, LookupFinds
      <3>2. r.cred \in Keys
        BY <1>2, <3>1 DEF InProgress, Called
      <3>3. tables.keys[r.cred] # Nobody /\ e = tables.keys[r.cred].email
        BY <3>1 DEF Usable, Row
      <3>4. IsUser(tables, e)
        BY <3>2, <3>3 DEF Steady, AccountsInv, Owned
      <3>5. QED
        BY <1>8, <1>9, <3>4
    <2>3. QED
      BY <2>1, <2>2
  <1>12. CASE d \in Opening /\ ~Lookup(p)
    <2>1. /\ d = "confirm" /\ req'[p].cached = r.cached
          /\ \/ r.cred \in Sessions /\ Active(tables, e)
             \/ /\ r.cred \notin Sessions /\ req'[p].user = r.user
                /\ r.cached => Active(tables, e)
      BY <1>1, <1>3, <1>12, OpeningGoesOn
    <2>2. Active(tables, e) => IsUser(tables, e)
      BY DEF Active, IsUser
    <2>3. CASE Active(tables, e)
      BY <1>8, <1>9, <2>2, <2>3
    <2>4. CASE ~Active(tables, e)
      <3>1. r.cred \notin Sessions /\ ~r.cached /\ e = r.user.email
        BY <2>1, <2>4
      <3>2. Counted(tables, Replayed, Logs, r.user.email)
        BY <1>1, <2>1, <3>1 DEF Vouched
      <3>3. QED
        BY <1>8, <3>1, <3>2
    <2>5. QED
      BY <2>3, <2>4
  <1>13. QED
    BY <1>10, <1>11, <1>12

\* A login records its account before its session, and writes it down before it applies it.
LEMMA LoginVouched ==
  ASSUME NEW p \in Slots, Steady(p), req[p].op = "login", req'[p] # Nothing
  PROVE  LET q == req'[p]
             step == Head(q.todo).do
         IN  /\ step = "apply" /\ Head(q.todo).x.kind = "user" /\ Logs' => IsUser(Replayed', q.user.email)
             /\ step = "record_session" => IsUser(tables', q.user.email)
  <1> DEFINE r == req[p]
             q == req'[p]
             h == Head(r.todo)
             next == Head(q.todo)
             x == UserEntry(r.user.email, tables.users[r.user.email] # "inactive")
  <1>1. TypeOK /\ RequestsInv /\ Step(p) /\ Busy(p) /\ InProgress(backend, r) /\ InProgress(backend, q)
    BY StepShape DEF Steady
  <1>2. SUFFICES ASSUME next.do \in {"apply", "record_session"}
                 PROVE  /\ next.do = "apply" /\ next.x.kind = "user" /\ Logs' => IsUser(Replayed', q.user.email)
                        /\ next.do = "record_session" => IsUser(tables', q.user.email)
    OBVIOUS
  <1>3. /\ q.op = r.op /\ q.user = r.user
        /\ \/ h.do = "is_active" /\ next.do = "cache_session"
           \/ h.do = "record_user" /\ next = (IF backend = "pg" THEN ApplyEntry(x) ELSE AppendEntry(x))
           \/ h.do \notin Opening /\ h.do # "record_user" /\ Follows(backend, r, h, next)
    BY <1>1, <1>2, LoginNext DEF Opening
  <1>4. Logs' => Logs /\ backend # "pg"
    BY <1>1, StoredStays DEF Logs
  <1>5. ASSUME next.do = "apply", next.x.kind = "user", Logs'
        PROVE  IsUser(Replayed', q.user.email)
    <2>1. h = AppendEntry(next.x)
      <3>1. backend # "pg" /\ AppendEntry(x).do = "append"
        BY <1>4, <1>5 DEF AppendEntry
      <3>2. h.do \notin Opening /\ h.do # "record_user" /\ Follows(backend, r, h, next)
        BY <1>3, <1>5, <3>1
      <3>3. QED
        BY <1>5, <3>1, <3>2 DEF Follows
    <2>2. h.do = "append" /\ h.x = next.x
      BY <2>1 DEF AppendEntry
    <2>3. AppendStep(p)
      BY <1>1, <2>2, MoreTaken
    <2>4. Arg(p) = next.x
      BY <2>2 DEF Arg
    <2>5. Arg(p) \in Entries /\ Writes(r, Arg(p))
      BY <1>1, <2>3, EntryArg DEF AppendStep
    <2>6. Arg(p).kind = "user" /\ Arg(p).email = r.user.email
      BY <1>5, <2>4, <2>5 DEF Writes
    <2>7. Arg(p).email \in Emails
      BY <2>5, <2>6, EntryFields
    <2>8. Replayed' = Changed(Replayed, Arg(p)) /\ Replayed \in Tables
      <3>1. log' = Append(log, Arg(p)) /\ log \in Seq(Entries)
        BY <1>1, <1>4, <1>5, <2>3 DEF AppendStep, Logs, TypeOK
      <3>2. log' # log
        <4>1. Len(log') = Len(log) + 1 /\ Len(log) \in Nat
          BY <2>5, <3>1
        <4>2. QED
          BY <4>1
      <3>3. QED
        BY <1>1, <3>2, StepReplay
    <2>9. IsUser(Changed(Replayed, Arg(p)), Arg(p).email)
      BY <2>5, <2>6, <2>7, <2>8, ChangedAccounts
    <2>10. QED
      BY <1>3, <2>6, <2>8, <2>9
  <1>6. ASSUME next.do = "record_session"
        PROVE  IsUser(tables', q.user.email)
    <2>1. AppendEntry(x).do = "append" /\ ApplyEntry(x).do = "apply"
      BY DEF AppendEntry, ApplyEntry
    <2>2. h.do = "apply" /\ h.x.kind = "user"
      BY <1>3, <1>6, <2>1 DEF Follows
    <2>3. ApplyStep(p) /\ Arg(p).kind = "user"
      BY <1>1, <2>2, MoreTaken DEF Arg
    <2>4. Arg(p) \in Entries /\ Writes(r, Arg(p))
      BY <1>1, <2>3, EntryArg DEF ApplyStep
    <2>5. Arg(p).email = r.user.email /\ Arg(p).email \in Emails
      BY <2>3, <2>4, EntryFields DEF Writes
    <2>6. IsUser(tables', Arg(p).email)
      BY <1>1, <2>3, <2>5, StepUsers
    <2>7. QED
      BY <1>3, <2>5, <2>6
  <1>7. QED
    BY <1>5, <1>6

\* The database is reset when the caches have been emptied.
LEMMA ResetVouched ==
  ASSUME NEW p \in Slots, Steady(p), req'[p] # Nothing, Head(req'[p].todo).do = "reset_db"
  PROVE  session_cache' = NoSessions
  <1> DEFINE r == req[p]
             d == Head(r.todo).do
  <1>1. TypeOK /\ RequestsInv /\ Step(p) /\ Busy(p) /\ InProgress(backend, r) /\ InProgress(backend, req'[p])
        /\ req'[p].op = r.op
    BY StepShape DEF Steady
  <1>2. r.op = "factory_reset"
    BY <1>1, InProgressFields DEF Fits
  <1>3. d \notin Opening
    BY <1>1, <1>2, OpeningGoesOn
  <1>4. d \in {"remove_tree", "clear", "reset_db"}
    BY <1>1, <1>2, <1>3, ResetHead DEF Steady, PathsInv
  <1>5. req'[p].todo = Tail(r.todo) /\ Tail(r.todo) # <<>>
    BY <1>1, <1>3, <1>4, StepTaken, StraightOn
  <1>6. Follows(backend, r, Head(r.todo), r.todo[2]) /\ r.todo \in Seq(Steps) /\ r.todo # <<>>
    BY <1>1, <1>3, <1>5, Served
  <1>7. Head(Tail(r.todo)) = r.todo[2]
    BY <1>5, <1>6
  <1>8. d = "clear"
    BY <1>5, <1>6, <1>7 DEF Follows
  <1>9. factory_reset_state(p)
    BY <1>1, <1>8, StepTaken
  <1>10. QED
    BY <1>9 DEF factory_reset_state, NoSessions

LEMMA StepKeepsVouched ==
  ASSUME NEW p \in Slots, Steady(p), NEW q \in Slots, Busy(q)'
  PROVE  Vouched(tables', Replayed', Logs', session_cache', req'[q], Head(req'[q].todo).do)
  <1>1. req'[q] # Nothing /\ TypeOK /\ RequestsInv /\ Step(p)
    BY DEF Busy, Idle, Steady
  <1>2. CASE q # p
    <2>1. req'[q] = req[q] /\ Busy(q)
      BY <1>1, <1>2, StepShape DEF Busy, Idle
    <2>2. QED
      BY <1>2, <2>1, StepKeepsOthers
  <1>3. CASE q = p
    <2> DEFINE r == req'[p]
               step == Head(r.todo).do
    <2>1. r # Nothing /\ r.op = req[p].op /\ InProgress(backend, r)
      BY <1>1, <1>3, StepShape
    <2>2. r.op \in Giving => \/ step = "lookup"
                             \/ step = "confirm" /\ (r.cred \in Sessions \/ r.cached)
                             \/ Counted(tables', Replayed', Logs', r.user.email)
      BY <2>1, GivingStep
    <2>3. r.op = "login" /\ step = "apply" /\ Head(r.todo).x.kind = "user" /\ Logs' => IsUser(Replayed', r.user.email)
      BY <2>1, LoginVouched
    <2>4. step = "record_session" => IsUser(tables', r.user.email)
      <3>1. step = "record_session" => r.op = "login"
        BY <2>1, InProgressFields DEF Fits, LoginSteps
      <3>2. QED
        BY <2>1, <3>1, LoginVouched
    <2>5. step = "reset_db" => session_cache' = NoSessions
      BY <2>1, ResetVouched
    <2> HIDE DEF r, step
    <2>6. Vouched(tables', Replayed', Logs', session_cache', r, step)
      BY <2>2, <2>3, <2>4, <2>5 DEF Vouched, r, step
    <2>7. QED
      BY <1>3, <2>6 DEF r, step
  <1>4. QED
    BY <1>2, <1>3

\* A session row has an account.
LEMMA StepKeepsRows ==
  ASSUME NEW p \in Slots, Steady(p)
  PROVE  /\ \A s \in Sessions : rows'[s] # Nobody => IsUser(tables', rows'[s])
         /\ backend = "store" => rows' = NoRows
  <1>1. /\ TypeOK /\ RequestsInv /\ Step(p) /\ Busy(p)
        /\ Vouched(tables, Replayed, Logs, session_cache, req[p], Head(req[p].todo).do)
        /\ \A s \in Sessions : rows[s] # Nobody => IsUser(tables, rows[s])
        /\ backend = "store" => rows = NoRows
    BY StepKeeps DEF Steady, AccountsInv
  <1>2. rows' \in [Sessions -> Emails \union {Nobody}]
    BY <1>1, StepRows
  <1>3. ASSUME NEW s \in Sessions, rows'[s] # Nobody
        PROVE  IsUser(tables', rows'[s])
    <2> DEFINE e == rows'[s]
    <2>1. e \in Emails
      BY <1>2, <1>3
    <2>2. /\ \/ e = rows[s]
             \/ RecordSession(p) /\ e = Who(p) /\ backend # "store"
          /\ ApplyStep(p) /\ Arg(p).kind = "user-delete" => e # Arg(p).email
          /\ ~(factory_reset(p) /\ backend # "store")
      BY <1>1, <1>3, StepRowed
    <2>3. IsUser(tables, e)
      BY <1>1, <1>3, <2>2 DEF RecordSession, At, Vouched, Who
    <2>4. backend # "store"
      BY <1>1, <1>3, <2>2 DEF NoRows
    <2> HIDE DEF e
    <2>5. IsUser(tables', e)
      BY <1>1, <2>1, <2>2, <2>3, <2>4, StepUsers DEF Empties
    <2>6. QED
      BY <2>5 DEF e
  <1>4. ASSUME backend = "store"
        PROVE  rows' = NoRows
    <2>1. \A s \in Sessions : rows'[s] = Nobody
      <3>1. \A s \in Sessions : rows[s] = Nobody
        BY <1>1, <1>4 DEF NoRows
      <3>2. QED
        BY <1>1, <1>4, <3>1, StepRowed
    <2>2. QED
      BY <1>2, <2>1 DEF NoRows
  <1>5. QED
    BY <1>3, <1>4

\* A login that has announced its account goes on until it is there.
LEMMA AnnouncedStays ==
  ASSUME NEW p \in Slots, Steady(p), NEW e \in Emails, Announces(req[p], e)
  PROVE  IsUser(tables', e) \/ (req'[p] # Nothing /\ Announces(req'[p], e))
  <1> DEFINE r == req[p]
             h == Head(r.todo)
  <1>1. TypeOK /\ RequestsInv /\ ScriptInv /\ Step(p) /\ Busy(p) /\ InProgress(backend, r)
        /\ r.op = "login" /\ r.user.email = e
    BY StepShape DEF Steady, Announces
  <1>2. r.todo \in Seq(Steps) /\ Tail(r.todo) \in Seq(Steps)
    BY <1>1, InProgressFields, StepsOf
  <1>3. CASE h.do = "record_user"
    <2> DEFINE x == UserEntry(e, tables.users[e] # "inactive")
               s == IF backend = "pg" THEN ApplyEntry(x) ELSE AppendEntry(x)
               w == Persist(x) \o Tail(r.todo)
    <2>1. x \in Entries /\ x.kind = "user"
      BY DEF UserEntry, Entries
    <2>2. Then(p, Persist(x))
      BY <1>1, <1>3, MoreTaken DEF RecordUser, Who
    <2>3. AppendEntry(x) \in Steps /\ ApplyEntry(x) \in Steps /\ s.do \in {"append", "apply"} /\ s.x = x
      BY <2>1 DEF Steps, AppendEntry, ApplyEntry
    <2> HIDE DEF x
    <2>4. Persist(x) \in Seq(Steps) /\ Persist(x) # <<>> /\ Head(Persist(x)) = s
      BY <2>3, FirstOf DEF Persist
    <2>5. Head(w) = s
      BY <1>2, <2>4, JoinedHead
    <2>6. w # <<>>
      <3>1. Len(w) = Len(Persist(x)) + Len(Tail(r.todo)) /\ Len(Persist(x)) \in Nat \ {0} /\ Len(Tail(r.todo)) \in Nat
        BY <1>2, <2>4
      <3>2. QED
        BY <3>1
    <2>7. SameRequest(req'[p], r) /\ req'[p].todo = w
      BY <1>1, <2>2, <2>6, ThenSame
    <2>8. req'[p] # Nothing
      <3>1. Nothing.todo = <<>>
        BY DEF Nothing, Request
      <3>2. QED
        BY <2>6, <2>7, <3>1
    <2> HIDE DEF s, w
    <2>9. Announces(req'[p], e)
      BY <1>1, <2>1, <2>3, <2>5, <2>7 DEF Announces, SameRequest
    <2>10. QED
      BY <2>8, <2>9
  <1>4. CASE h.do = "append" /\ h.x.kind = "user"
    <2>1. Advance(p)
      BY <1>1, <1>4, MoreTaken DEF AppendStep
    <2>2. Opens(backend, h) /\ h.do \notin Opening
      BY <1>4 DEF Opens, LogOnly, Opening
    <2>3. req'[p] # Nothing /\ SameRequest(req'[p], r) /\ Answers(backend, h, Head(req'[p].todo))
      BY <1>1, <2>1, <2>2, NextOfScript
    <2>4. Head(req'[p].todo).do = "apply" /\ Head(req'[p].todo).x = h.x
      BY <2>2, <2>3 DEF Answers, ApplyEntry
    <2>5. Announces(req'[p], e)
      BY <1>1, <1>4, <2>3, <2>4 DEF Announces, SameRequest
    <2>6. QED
      BY <2>3, <2>5
  <1>5. CASE h.do = "apply" /\ h.x.kind = "user"
    <2>1. ApplyStep(p) /\ Arg(p).kind = "user"
      BY <1>1, <1>5, MoreTaken DEF Arg
    <2>2. Writes(r, Arg(p))
      BY <1>1, <2>1, EntryArg DEF ApplyStep
    <2>3. Arg(p).email = e
      BY <1>1, <2>1, <2>2 DEF Writes
    <2>4. QED
      BY <1>1, <2>1, <2>3, StepUsers
  <1>6. QED
    BY <1>3, <1>4, <1>5 DEF Announces

\* A cached session has an account, or is about to have it, or to be dropped.
LEMMA StepKeepsSessions ==
  ASSUME NEW p \in Slots, Steady(p), NEW s \in Sessions, session_cache'[s] # NoUser
  PROVE  \/ IsUser(tables', session_cache'[s].email)
         \/ \E q \in Slots : /\ Busy(q)'
                             /\ \/ Announces(req'[q], session_cache'[s].email)
                                \/ Ends(req'[q], "drop_sessions", session_cache'[s].email)
  <1> DEFINE e == session_cache'[s].email
             r == req[p]
             h == Head(r.todo)
  <1>1. /\ TypeOK /\ RequestsInv /\ ScriptInv /\ PathsInv /\ Step(p)
        /\ Busy(p) /\ InProgress(backend, r) /\ \A q \in Slots : q # p => req'[q] = req[q]
        /\ Vouched(tables, Replayed, Logs, session_cache, r, h.do)
    BY StepShape DEF Steady, AccountsInv
  <1>2. \A q \in Slots : Busy(q)' <=> req'[q] # Nothing
    BY DEF Busy, Idle
  <1>3. Fits(backend, r, h)
    BY <1>1, InProgressFields
  <1>4. e \in Emails
    <2>1. session_cache' \in [Sessions -> Users \union {NoUser}]
      BY <1>1, StepSessions
    <2>2. session_cache'[s] \in Users
      BY <2>1
    <2>3. QED
      BY <2>2 DEF Users
  <1>5. /\ \/ session_cache'[s] = session_cache[s]
           \/ CacheSession(p) /\ session_cache'[s] = r.user
        /\ drop_sessions(p) => e # Arg(p).email
        /\ ~factory_reset_state(p)
    BY <1>1, StepCached
  <1>6. CASE CacheSession(p) /\ session_cache'[s] = r.user
    <2>1. Advance(p) /\ h.do = "cache_session"
      BY <1>6 DEF CacheSession, At
    <2>2. req'[p] # Nothing /\ SameRequest(req'[p], r) /\ Answers(backend, h, Head(req'[p].todo))
      BY <1>1, <2>1, NextOfScript DEF Opening
    <2>3. Head(req'[p].todo).do = "record_user"
      BY <2>1, <2>2 DEF Answers
    <2>4. r.op = "login"
      BY <1>3, <2>1 DEF Fits, LoginSteps
    <2>5. Announces(req'[p], e)
      BY <1>6, <2>2, <2>3, <2>4 DEF Announces, SameRequest
    <2>6. QED
      BY <1>2, <2>2, <2>5
  <1>7. CASE session_cache'[s] = session_cache[s]
    <2>1. \/ IsUser(tables, e)
          \/ \E q \in Slots : Busy(q) /\ (Announces(req[q], e) \/ Ends(req[q], "drop_sessions", e))
      BY <1>7 DEF Steady, AccountsInv
    <2> HIDE DEF e
    <2>2. CASE IsUser(tables, e)
      <3>1. \/ IsUser(tables', e)
            \/ ApplyStep(p) /\ Arg(p) \in Entries /\ Arg(p).kind = "user-delete" /\ Arg(p).email = e
            \/ Empties(p)
        BY <1>1, <1>4, <2>2, StepUsers
      <3>2. CASE ApplyStep(p) /\ Arg(p) \in Entries /\ Arg(p).kind = "user-delete" /\ Arg(p).email = e
        <4>1. h.do = "apply" /\ Advance(p)
          BY <3>2 DEF ApplyStep, At
        <4>2. r.op = "delete_user" /\ r.arg = e
          BY <1>1, <3>2, EntryArg DEF ApplyStep, Writes
        <4>3. Tail(r.todo) # <<>> /\ Head(Tail(r.todo)).do = "drop_sessions"
          <5>1. OnPath(backend, r)
            BY <1>1, <4>1 DEF PathsInv, Opening
          <5>2. QED
            BY <4>1, <4>2, <5>1, PathAhead
        <4>4. req'[p] # Nothing /\ SameRequest(req'[p], r) /\ req'[p].todo = Tail(r.todo)
          BY <1>1, <4>1, <4>3, NextStep
        <4>5. Ends(req'[p], "drop_sessions", e)
          BY <4>2, <4>3, <4>4 DEF Ends, SameRequest
        <4>6. QED
          BY <1>2, <4>4, <4>5 DEF e
      <3>3. ~Empties(p)
        <4>1. SUFFICES ASSUME factory_reset(p)
                       PROVE  FALSE
          BY <1>5 DEF Empties
        <4>2. session_cache = NoSessions
          BY <1>1, <4>1 DEF factory_reset, At, Vouched
        <4>3. QED
          BY <1>7, <4>2 DEF NoSessions
      <3>4. QED
        BY <3>1, <3>2, <3>3 DEF e
    <2>3. CASE \E q \in Slots : Busy(q) /\ (Announces(req[q], e) \/ Ends(req[q], "drop_sessions", e))
      <3>1. PICK q \in Slots : Busy(q) /\ (Announces(req[q], e) \/ Ends(req[q], "drop_sessions", e))
        BY <2>3
      <3>2. CASE q # p
        <4>1. req'[q] = req[q] /\ Busy(q)'
          BY <1>1, <1>2, <3>1, <3>2 DEF Busy, Idle
        <4>2. QED
          BY <3>1, <4>1 DEF e
      <3>3. CASE q = p /\ Announces(r, e)
        BY <1>2, <1>4, <3>3, AnnouncedStays DEF e
      <3>4. CASE q = p /\ Ends(r, "drop_sessions", e)
        <4>1. drop_sessions(p) /\ h.do = "drop_sessions" /\ r.arg = e
          BY <1>1, <3>4, MoreTaken DEF Ends
        <4>2. Arg(p).email = e
          BY <1>3, <4>1 DEF Fits, Cleanup, Arg
        <4>3. QED
          BY <1>5, <4>1, <4>2 DEF e
      <3>5. QED
        BY <3>1, <3>2, <3>3, <3>4
    <2>4. QED
      BY <2>1, <2>2, <2>3
  <1>8. QED
    BY <1>5, <1>6, <1>7

LEMMA StepKeepsHoldings ==
  ASSUME TypeOK, RequestsInv, ScriptInv, PathsInv, AccountsInv, NEW p \in Slots, Step(p)
  PROVE  AccountsInv'
  <1>1. met' = met /\ backend' = backend
    BY StepKeeps
  <1>2. SUFFICES ASSUME Untouched'
                 PROVE  AccountsInv'
    BY DEF AccountsInv
  <1>3. Untouched
    BY <1>1, <1>2 DEF Untouched
  <1>4. Steady(p)
    BY <1>3 DEF Steady
  <1>5. Owned(tables') /\ (Logs' => Owned(Replayed'))
    BY <1>4, StepKeepsOwned
  <1>6. Logs' => \A e \in Emails : IsUser(tables', e) =>
                   IsUser(Replayed', e) \/ \E q \in Slots : Busy(q)' /\ Ends(req'[q], "apply", e)
    BY <1>4, StepKeepsListed
  <1>7. \A q \in Slots : Busy(q)' =>
           Vouched(tables', Replayed', Logs', session_cache', req'[q], Head(req'[q].todo).do)
    BY <1>4, StepKeepsVouched
  <1>8. /\ \A s \in Sessions : rows'[s] # Nobody => IsUser(tables', rows'[s])
        /\ backend = "store" => rows' = NoRows
    BY <1>4, StepKeepsRows
  <1>9. \A s \in Sessions : session_cache'[s] # NoUser =>
              \/ IsUser(tables', session_cache'[s].email)
              \/ \E q \in Slots : /\ Busy(q)'
                                  /\ \/ Announces(req'[q], session_cache'[s].email)
                                     \/ Ends(req'[q], "drop_sessions", session_cache'[s].email)
    BY <1>4, StepKeepsSessions
  <1>10. QED
    BY <1>1, <1>5, <1>6, <1>7, <1>8, <1>9 DEF AccountsInv, IsUser, Owned, Vouched, Counted, Announces, Ends, NoRows

\* Nothing but the requests that begin changes, and rows that expire.
LEMMA HoldingsLast ==
  ASSUME TypeOK, AccountsInv, Untouched' => Untouched,
         UNCHANGED <<backend, tables, log, stored, session_cache>>,
         rows' \in [Sessions -> Emails \union {Nobody}],
         \A s \in Sessions : rows'[s] # Nobody => rows'[s] = rows[s],
         \A q \in Slots : Busy(q) => Busy(q)' /\ SameRequest(req'[q], req[q]) /\ req'[q].todo = req[q].todo,
         \A q \in Slots : Busy(q)' /\ ~Busy(q) =>
            /\ Head(req'[q].todo).do \in {"lookup", "allowed"}
            /\ req'[q].op \in Giving => Head(req'[q].todo).do = "lookup"
  PROVE  AccountsInv'
  <1>1. SUFFICES ASSUME Untouched'
                 PROVE  AccountsInv'
    BY DEF AccountsInv
  <1>2. Replayed' = Replayed
    BY ReplayNext DEF Replayed
  <1>3. Logs' = Logs
    BY DEF Logs
  <1>4. /\ Owned(tables)
        /\ Logs => Owned(Replayed)
        /\ Logs => \A e \in Emails : IsUser(tables, e) =>
                      IsUser(Replayed, e) \/ \E q \in Slots : Busy(q) /\ Ends(req[q], "apply", e)
        /\ \A q \in Slots : Busy(q) =>
              Vouched(tables, Replayed, Logs, session_cache, req[q], Head(req[q].todo).do)
        /\ \A s \in Sessions : rows[s] # Nobody => IsUser(tables, rows[s])
        /\ backend = "store" => rows = NoRows
        /\ \A s \in Sessions : session_cache[s] # NoUser =>
              \/ IsUser(tables, session_cache[s].email)
              \/ \E q \in Slots : /\ Busy(q)
                                  /\ \/ Announces(req[q], session_cache[s].email)
                                     \/ Ends(req[q], "drop_sessions", session_cache[s].email)
    BY <1>1 DEF AccountsInv
  <1>5. ASSUME NEW q \in Slots, Busy(q)'
        PROVE  Vouched(tables, Replayed, Logs, session_cache, req'[q], Head(req'[q].todo).do)
    <2>1. CASE Busy(q)
      <3>1. SameRequest(req'[q], req[q]) /\ req'[q].todo = req[q].todo
        BY <2>1
      <3>2. Vouched(tables, Replayed, Logs, session_cache, req[q], Head(req[q].todo).do)
        BY <1>4, <2>1
      <3>3. QED
        BY <3>1, <3>2 DEF Vouched, SameRequest
    <2>2. CASE ~Busy(q)
      <3>1. /\ Head(req'[q].todo).do \in {"lookup", "allowed"}
            /\ req'[q].op \in Giving => Head(req'[q].todo).do = "lookup"
        BY <1>5, <2>2
      <3>2. QED
        BY <3>1 DEF Vouched
    <2>3. QED
      BY <2>1, <2>2
  <1>6. \A q \in Slots : Busy(q) => \A e :
            /\ Announces(req[q], e) => Announces(req'[q], e)
            /\ Ends(req[q], "apply", e) => Ends(req'[q], "apply", e)
            /\ Ends(req[q], "drop_sessions", e) => Ends(req'[q], "drop_sessions", e)
    BY DEF Announces, Ends, SameRequest
  <1>7. Logs => \A e \in Emails : IsUser(tables, e) =>
                   IsUser(Replayed, e) \/ \E q \in Slots : Busy(q)' /\ Ends(req'[q], "apply", e)
    <2> SUFFICES ASSUME Logs, NEW e \in Emails, IsUser(tables, e), ~IsUser(Replayed, e)
                 PROVE  \E q \in Slots : Busy(q)' /\ Ends(req'[q], "apply", e)
      OBVIOUS
    <2>1. PICK q \in Slots : Busy(q) /\ Ends(req[q], "apply", e)
      BY <1>4
    <2>2. Busy(q)' /\ Ends(req'[q], "apply", e)
      BY <1>6, <2>1
    <2>3. QED
      BY <2>2
  <1>8. \A s \in Sessions : rows'[s] # Nobody => IsUser(tables, rows'[s])
    BY <1>4
  <1>9. backend = "store" => rows' = NoRows
    BY <1>4 DEF NoRows
  <1>10. \A s \in Sessions : session_cache[s] # NoUser =>
              \/ IsUser(tables, session_cache[s].email)
              \/ \E q \in Slots : /\ Busy(q)'
                                  /\ \/ Announces(req'[q], session_cache[s].email)
                                     \/ Ends(req'[q], "drop_sessions", session_cache[s].email)
    BY <1>4, <1>6
  <1> HIDE DEF Busy
  <1>11. tables' = tables /\ session_cache' = session_cache /\ backend' = backend
    OBVIOUS
  <1>12. /\ Owned(tables')
         /\ Logs' => Owned(Replayed')
         /\ Logs' => \A e \in Emails : IsUser(tables', e) =>
                      IsUser(Replayed', e) \/ \E q \in Slots : Busy(q)' /\ Ends(req'[q], "apply", e)
    BY <1>2, <1>3, <1>4, <1>7, <1>11
  <1>13. \A q \in Slots : Busy(q)' =>
            Vouched(tables', Replayed', Logs', session_cache', req'[q], Head(req'[q].todo).do)
    BY <1>2, <1>3, <1>5, <1>11
  <1>14. /\ \A s \in Sessions : rows'[s] # Nobody => IsUser(tables', rows'[s])
         /\ backend' = "store" => rows' = NoRows
         /\ \A s \in Sessions : session_cache'[s] # NoUser =>
              \/ IsUser(tables', session_cache'[s].email)
              \/ \E q \in Slots : /\ Busy(q)'
                                  /\ \/ Announces(req'[q], session_cache'[s].email)
                                     \/ Ends(req'[q], "drop_sessions", session_cache'[s].email)
    BY <1>8, <1>9, <1>10, <1>11
  <1>15. QED
    BY <1>12, <1>13, <1>14 DEF AccountsInv, IsUser, Owned, Vouched, Counted, Announces, Ends, NoRows

LEMMA OpeningHeads ==
  Head(Identified).do = "lookup" /\ Head(LoggingIn).do = "allowed"
  <1> DEFINE a == Do("lookup")
             b == Do("confirm")
             c == Do("allowed")
             d == Do("login_role")
             e == Do("is_active")
  <1>1. Identified = <<a, b>> /\ LoggingIn = <<c, d, e>> /\ a.do = "lookup" /\ c.do = "allowed"
    BY DEF Identified, LoggingIn, Do
  <1> HIDE DEF a, b, c, d, e
  <1>2. QED
    BY <1>1, FirstOf

LEMMA RestartHoldings ==
  ASSUME AuthInv, BarredInv, AccountsInv, Restart
  PROVE  AccountsInv'
  <1>1. SUFFICES ASSUME Untouched'
                 PROVE  AccountsInv'
    BY DEF AccountsInv
  <1>2. /\ Owned(tables)
        /\ Logs => Owned(Replayed)
        /\ \A s \in Sessions : rows[s] # Nobody => IsUser(tables, rows[s])
    BY <1>1 DEF AccountsInv, Untouched, Restart
  <1>3. /\ Replayed' = Replayed \/ (~stored /\ Bare(Replayed'))
        /\ IF backend = "pg"
           THEN /\ tables'.users = tables.users /\ tables'.keys = tables.keys /\ tables'.top = tables.top
                /\ tables'.shares = tables.shares
           ELSE tables' = Replayed'
    BY RestartReplay DEF AuthInv
  <1>4. /\ backend' = backend /\ session_cache' = NoSessions /\ \A q \in Slots : req'[q] = Nothing
        /\ rows' = IF backend = "pg" THEN rows ELSE NoRows
    BY DEF Restart
  <1>5. \A q \in Slots : ~Busy(q)'
    BY <1>4 DEF Busy, Idle
  <1>6. backend # "pg" => Owned(Replayed')
    <2>1. CASE backend # "pg" /\ stored /\ Replayed' = Replayed
      BY <1>2, <2>1 DEF Logs
    <2>2. CASE ~stored /\ Replayed' = Replayed
      <3>1. log = <<>>
        BY <2>2 DEF BarredInv
      <3>2. Bare(Replayed)
        BY <3>1, NothingPolicy, ReplayedPolicy DEF Replayed
      <3>3. QED
        BY <2>2, <3>2, BareOwned
    <2>3. CASE Bare(Replayed')
      BY <2>3, BareOwned
    <2>4. QED
      BY <1>3, <2>1, <2>2, <2>3
  <1>7. Owned(tables')
    <2>1. CASE backend = "pg"
      BY <1>2, <1>3, <2>1 DEF Owned, IsUser
    <2>2. CASE backend # "pg"
      BY <1>3, <1>6, <2>2
    <2>3. QED
      BY <2>1, <2>2
  <1>8. Logs' => Owned(Replayed') /\ \A e \in Emails : IsUser(tables', e) => IsUser(Replayed', e)
    BY <1>3, <1>4, <1>6 DEF Logs
  <1>9. \A s \in Sessions : rows'[s] # Nobody => IsUser(tables', rows'[s])
    BY <1>2, <1>3, <1>4 DEF IsUser, NoRows
  <1>10. backend' = "store" => rows' = NoRows
    BY <1>4
  <1>11. \A s \in Sessions : session_cache'[s] = NoUser
    BY <1>4 DEF NoSessions
  <1> HIDE DEF Busy
  <1>12. QED
    BY <1>5, <1>7, <1>8, <1>9, <1>10, <1>11 DEF AccountsInv, IsUser, Owned, Vouched, Counted, Announces, Ends, NoRows

LEMMA AccountsStay ==
  ASSUME AuthInv, ScriptInv, PathsInv, BarredInv, AccountsInv, [Next]_vars
  PROVE  AccountsInv'
  <1>1. TypeOK /\ RequestsInv /\ rows \in [Sessions -> Emails \union {Nobody}]
    BY DEF AuthInv, TypeOK
  <1>2. ASSUME NEW p \in Slots, Begin(p)
        PROVE  AccountsInv'
    <2>1. UNCHANGED <<backend, tables, log, stored, rows, session_cache>>
      BY <1>2 DEF Begin, store, caches
    <2>2. /\ ~Busy(p)
          /\ \A q \in Slots : q # p /\ Busy(q) =>
                SameRequest(req'[q], req[q]) /\ req'[q].todo = req[q].todo /\ Busy(q)'
          /\ \A q \in Slots : Busy(q)' => q = p \/ Busy(q)
          /\ req'[p].todo = Identified \/ (req'[p].todo = LoggingIn /\ req'[p].op = "login")
          /\ met \subseteq met'
      BY <1>1, <1>2, BeginShape
    <2>3. Untouched' => Untouched
      BY <2>2 DEF Untouched
    <2>4. /\ Head(req'[p].todo).do \in {"lookup", "allowed"}
          /\ req'[p].op \in Giving => Head(req'[p].todo).do = "lookup"
      BY <2>2, OpeningHeads DEF Giving
    <2> HIDE DEF Busy
    <2>5. QED
      BY <1>1, <2>1, <2>2, <2>3, <2>4, HoldingsLast
  <1>3. ASSUME NEW p \in Slots, Step(p)
        PROVE  AccountsInv'
    BY <1>1, <1>3, StepKeepsHoldings
  <1>4. ASSUME NEW x \in Sessions, Expire(x)
        PROVE  AccountsInv'
    <2>1. /\ rows' = [rows EXCEPT ![x] = Nobody]
          /\ UNCHANGED <<backend, tables, log, stored, session_cache, req, met>>
      BY <1>4 DEF Expire, caches
    <2>2. /\ rows' \in [Sessions -> Emails \union {Nobody}]
          /\ \A s \in Sessions : rows'[s] # Nobody => rows'[s] = rows[s]
      BY <1>1, <2>1
    <2>3. /\ Untouched' => Untouched
          /\ \A q \in Slots : (Busy(q)' <=> Busy(q)) /\ req'[q] = req[q]
      BY <2>1 DEF Untouched, Busy, Idle
    <2>4. \A q \in Slots : SameRequest(req'[q], req[q])
      BY <2>3 DEF SameRequest
    <2> HIDE DEF Busy
    <2>5. QED
      BY <1>1, <2>1, <2>2, <2>3, <2>4, HoldingsLast
  <1>5. CASE Restart
    BY <1>5, RestartHoldings
  <1>6. CASE UNCHANGED vars
    <2>1. UNCHANGED <<backend, tables, log, stored, rows, session_cache, req, met>>
      BY <1>6 DEF vars
    <2>2. /\ Untouched' => Untouched
          /\ \A q \in Slots : (Busy(q)' <=> Busy(q)) /\ req'[q] = req[q]
      BY <2>1 DEF Untouched, Busy, Idle
    <2>3. \A q \in Slots : SameRequest(req'[q], req[q])
      BY <2>2 DEF SameRequest
    <2> HIDE DEF Busy
    <2>4. QED
      BY <1>1, <2>1, <2>2, <2>3, HoldingsLast
  <1>7. QED
    BY <1>2, <1>3, <1>4, <1>5, <1>6 DEF Next

-----------------------------------------------------------------------------
(* Accounts of a history *)

\* What is given in it is given to an account that is there.
Rests(w) ==
    \A i \in 1..Len(w) :
        /\ w[i].kind \in {"top-admin", "api-key"} => HasAccount(w, i, w[i].email)
        /\ w[i].kind = "share" => HasAccount(w, i, w[i].share.owner)

LEMMA SeededRests ==
  ASSUME NEW h \in Histories
  PROVE  Rests(SeedEntries \o h)
  <1> DEFINE u == SeedEntries
             d == Len(u)
             w == u \o h
  <1>1. u \in Seq(Entries) /\ (\A i \in 1..Len(u) : u[i].kind \in PolicyKinds) /\ h \in Seq(Entries)
    BY HistoriesAssumption, SeedsTyped DEF OnlyPolicy
  <1> HIDE DEF u
  <1>2. d \in Nat /\ Len(h) \in Nat /\ Len(w) = d + Len(h) /\ DOMAIN h = 1..Len(h)
    BY <1>1
  <1>3. /\ \A i \in 1..d : w[i].kind \in PolicyKinds
        /\ \A i \in 1..Len(h) : w[d + i] = h[i]
    BY <1>1
  <1> HIDE DEF w, d
  <1>4. ASSUME NEW i \in 1..Len(h), NEW e, HasAccount(h, i, e)
        PROVE  HasAccount(w, d + i, e)
    <2>1. PICK j \in 1..i : /\ h[j].kind = "user" /\ h[j].email = e
                            /\ \A k \in j..i : h[k].kind = "user-delete" => h[k].email # e
      BY <1>4 DEF HasAccount
    <2>2. d + j \in 1..(d + i) /\ j \in 1..Len(h)
      BY <1>2, <2>1
    <2>3. w[d + j] = h[j]
      BY <1>3, <2>2
    <2>4. \A k \in (d + j)..(d + i) : k - d \in j..i /\ k - d \in 1..Len(h) /\ d + (k - d) = k
      BY <1>2, <2>1
    <2>5. \A k \in (d + j)..(d + i) : w[k] = h[k - d]
      BY <1>3, <2>4
    <2>6. QED
      BY <2>1, <2>2, <2>3, <2>4, <2>5 DEF HasAccount
  <1>5. ASSUME NEW i \in 1..Len(w), w[i].kind \in {"top-admin", "api-key", "share"}
        PROVE  /\ w[i].kind \in {"top-admin", "api-key"} => HasAccount(w, i, w[i].email)
               /\ w[i].kind = "share" => HasAccount(w, i, w[i].share.owner)
    <2>1. i \notin 1..d
      BY <1>3, <1>5 DEF PolicyKinds
    <2>2. i - d \in 1..Len(h) /\ d + (i - d) = i
      BY <1>2, <2>1
    <2>3. w[i] = h[i - d] /\ i - d \in DOMAIN h
      BY <1>2, <1>3, <2>2
    <2>4. /\ h[i - d].kind \in {"top-admin", "api-key"} => HasAccount(h, i - d, h[i - d].email)
          /\ h[i - d].kind = "share" => HasAccount(h, i - d, h[i - d].share.owner)
      BY <2>3, AccountsAssumption
    <2>5. \A e : HasAccount(h, i - d, e) => HasAccount(w, i, e)
      BY <1>4, <2>2
    <2>6. QED
      BY <2>3, <2>4, <2>5
  <1>6. Rests(w)
    BY <1>5 DEF Rests
  <1>7. QED
    BY <1>6 DEF w, u

\* Who has an account after one more entry.
LEMMA AccountAfter ==
  ASSUME NEW w \in Seq(Entries), NEW n \in Nat, n + 1 \in 1..Len(w), NEW e, HasAccount(w, n + 1, e)
  PROVE  LET x == w[n + 1]
         IN  \/ x.kind = "user" /\ x.email = e
             \/ HasAccount(w, n, e) /\ (x.kind = "user-delete" => x.email # e)
  <1>1. PICK j \in 1..(n + 1) : /\ w[j].kind = "user" /\ w[j].email = e
                                /\ \A k \in j..(n + 1) : w[k].kind = "user-delete" => w[k].email # e
    BY DEF HasAccount
  <1>2. CASE j = n + 1
    BY <1>1, <1>2
  <1>3. CASE j # n + 1
    <2>1. j \in 1..n /\ n + 1 \in j..(n + 1) /\ \A k \in j..n : k \in j..(n + 1)
      BY <1>1, <1>3
    <2>2. QED
      BY <1>1, <2>1 DEF HasAccount
  <1>4. QED
    BY <1>2, <1>3

LEMMA ReplayedAccounts ==
  ASSUME NEW w \in Seq(Entries), Rests(w)
  PROVE  LET t == replay_jsonl(w)
         IN  Owned(t) /\ t \in Tables /\ \A e \in t.top : IsUser(t, e)
  <1>1. PICK f : Replaying(f, w)
    BY ReplayUnfolds
  <1> DEFINE N == Len(w)
             kept(n) == /\ Owned(f[n])
                        /\ \A e \in f[n].top : IsUser(f[n], e)
                        /\ \A e \in Emails : HasAccount(w, n, e) => IsUser(f[n], e)
             good == {n \in 0..N : kept(n)}
  <1>2. N \in Nat /\ \A i \in 1..N : w[i] \in Entries
    OBVIOUS
  <1>3. /\ f \in [0..N -> Tables] /\ f[0] = EmptyTables /\ replay_jsonl(w) = f[N]
        /\ \A i \in 1..N : f[i] = Changed(f[i - 1], w[i])
    BY <1>1 DEF Replaying
  <1> HIDE DEF N
  <1>4. 0 \in good
    <2>1. Bare(f[0]) /\ f[0].top = {}
      <3>1. Bare(EmptyTables)
        BY NothingPolicy, ReplayedPolicy, ReplayNone
      <3>2. QED
        BY <1>3, <3>1 DEF EmptyTables
    <2>2. \A e : ~HasAccount(w, 0, e)
      BY DEF HasAccount
    <2>3. Owned(f[0])
      BY <2>1, BareOwned
    <2>4. QED
      BY <1>2, <2>1, <2>2, <2>3
  <1>5. ASSUME NEW n \in 0..N, n \in good, n # N
        PROVE  n + 1 \in good
    <2>1. n + 1 \in 1..N /\ (n + 1) - 1 = n /\ n + 1 \in 0..N /\ n \in Nat
      BY <1>2, <1>5
    <2> DEFINE t == f[n]
               x == w[n + 1]
               u == f[n + 1]
    <2>2. t \in Tables /\ x \in Entries /\ u = Changed(t, x)
      BY <1>2, <1>3, <2>1
    <2>3. kept(n)
      BY <1>5
    <2>4. \A e \in Emails : HasAccount(w, n + 1, e) =>
             (x.kind = "user" /\ x.email = e) \/ (IsUser(t, e) /\ (x.kind = "user-delete" => x.email # e))
      BY <2>1, <2>3, AccountAfter DEF N
    <2>5. /\ x.kind \in {"top-admin", "api-key"} => HasAccount(w, n + 1, x.email) /\ x.email \in Emails
          /\ x.kind = "share" => HasAccount(w, n + 1, x.share.owner) /\ x.share.owner \in Emails
      <3>1. /\ x.kind \in {"top-admin", "api-key"} => HasAccount(w, n + 1, x.email)
            /\ x.kind = "share" => HasAccount(w, n + 1, x.share.owner)
        BY <2>1 DEF Rests, N
      <3> HIDE DEF x
      <3>2. x.kind \in {"top-admin", "api-key"} => x.email \in Emails
        BY <2>2, EntryFields DEF AccountKinds
      <3>3. x.kind = "share" => x.share.owner \in Emails
        BY <2>2, EntryFields DEF ShareRecords
      <3>4. QED
        BY <3>1, <3>2, <3>3
    <2>6. /\ x.kind \in {"top-admin", "api-key"} => IsUser(t, x.email)
          /\ x.kind = "share" => IsUser(t, x.share.owner)
      BY <2>4, <2>5
    <2>7. Owned(t) /\ (\A e \in t.top : IsUser(t, e))
      BY <2>3
    <2> HIDE DEF good, kept, t, x, u
    <2>8. Owned(u)
      <3>1. Founded(t, x)
        BY <2>6 DEF Founded
      <3>2. QED
        BY <2>2, <2>7, <3>1, ChangedOwned
    <2>9. \A e \in u.top : IsUser(u, e)
      BY <2>2, <2>6, <2>7, ChangedTops
    <2>10. \A e \in Emails : HasAccount(w, n + 1, e) => IsUser(u, e)
      BY <2>2, <2>4, ChangedAccounts
    <2>11. kept(n + 1)
      BY <2>8, <2>9, <2>10 DEF kept, u
    <2>12. QED
      BY <2>1, <2>11 DEF good
  <1> HIDE DEF good
  <1>6. \A n \in 0..N : n \in good
    BY <1>2, <1>4, <1>5, UpTo
  <1>7. N \in 0..N
    BY <1>2
  <1>8. kept(N) /\ f[N] \in Tables
    BY <1>3, <1>6, <1>7 DEF good
  <1>9. QED
    BY <1>3, <1>8 DEF kept

LEMMA InitAccounts ==
  ASSUME Init
  PROVE  AccountsInv
  <1>1. PICK h \in Histories :
          /\ log = IF backend = "pg" THEN <<>> ELSE SeedEntries \o h
          /\ tables = replay_jsonl(SeedEntries \o h)
          /\ \E s \in Sessions :
              /\ session_cache = IF tables.top = {} THEN NoSessions
                                 ELSE [NoSessions EXCEPT ![s] =
                                          [NoUser EXCEPT !.email = CHOOSE e \in tables.top : TRUE,
                                                         !.role = "top"]]
              /\ rows = IF tables.top = {} \/ backend = "store" THEN NoRows
                        ELSE [NoRows EXCEPT ![s] = CHOOSE e \in tables.top : TRUE]
    BY DEF Init
  <1>2. SeedEntries \o h \in Seq(Entries) /\ Rests(SeedEntries \o h)
    BY SeededEntries, SeededRests
  <1>3. Owned(tables) /\ \A e \in tables.top : IsUser(tables, e)
    BY <1>1, <1>2, ReplayedAccounts
  <1>4. Logs => Replayed = tables
    BY <1>1 DEF Logs, Replayed
  <1>5. \A p \in Slots : ~Busy(p)
    BY DEF Init, Busy, Idle
  <1> DEFINE first == CHOOSE e \in tables.top : TRUE
             user == [NoUser EXCEPT !.email = first, !.role = "top"]
  <1>6. tables.top # {} => first \in tables.top
    OBVIOUS
  <1>7. user.email = first
    BY DEF NoUser
  <1>8. PICK s \in Sessions :
              /\ session_cache = IF tables.top = {} THEN NoSessions ELSE [NoSessions EXCEPT ![s] = user]
              /\ rows = IF tables.top = {} \/ backend = "store" THEN NoRows ELSE [NoRows EXCEPT ![s] = first]
    BY <1>1
  <1> HIDE DEF first, user
  <1>9. \A c \in Sessions : rows[c] # Nobody => IsUser(tables, rows[c])
    BY <1>3, <1>6, <1>8 DEF NoRows
  <1>10. backend = "store" => rows = NoRows
    BY <1>8
  <1>11. \A c \in Sessions : session_cache[c] # NoUser => IsUser(tables, session_cache[c].email)
    BY <1>3, <1>6, <1>7, <1>8 DEF NoSessions
  <1>12. QED
    BY <1>3, <1>4, <1>5, <1>9, <1>10, <1>11 DEF AccountsInv

\* Nothing of a deleted account is left, when nobody is at work.
LEMMA LeavesNothing ==
  ASSUME AuthInv, SharesInv, AccountsInv
  PROVE  DeletedLeavesNothing
  <1> SUFFICES ASSUME AllIdle, Untouched, NEW e \in Emails, ~IsUser(tables, e)
               PROVE  /\ \A s \in Sessions : rows[s] # e /\ session_cache[s].email # e
                      /\ \A k \in Keys : tables.keys[k] # Nobody => tables.keys[k].email # e
                      /\ \A i \in DOMAIN tables.shares :
                            e \notin {tables.shares[i].owner, tables.shares[i].path[1]}
    BY DEF DeletedLeavesNothing, Untouched
  <1>1. /\ Owned(tables)
        /\ \A s \in Sessions : rows[s] # Nobody => IsUser(tables, rows[s])
        /\ \A s \in Sessions : session_cache[s] # NoUser => IsUser(tables, session_cache[s].email)
    BY DEF AccountsInv, AllIdle, Busy
  <1>2. e # Nobody /\ NoUser.email # e
    BY AuthAssumption DEF NoUser
  <1>3. \A s \in Sessions : rows[s] # e /\ session_cache[s].email # e
    BY <1>1, <1>2
  <1>4. \A k \in Keys : tables.keys[k] # Nobody => tables.keys[k].email # e
    BY <1>1 DEF Owned
  <1>5. ASSUME NEW i \in DOMAIN tables.shares
        PROVE  e \notin {tables.shares[i].owner, tables.shares[i].path[1]}
    <2> DEFINE s == tables.shares[i]
    <2>1. s \in Elements(tables.shares)
      BY DEF Elements
    <2>2. IsUser(tables, s.owner)
      BY <1>1, <2>1 DEF Owned
    <2>3. Placed(s)
      BY <2>1 DEF SharesInv, Grants
    <2>4. QED
      BY <2>2, <2>3 DEF Placed
  <1>6. QED
    BY <1>3, <1>4, <1>5

\* Of a deleted account nothing is left that would come back with its next login: no
\* session, no key and no share of its folders, whatever was in progress with the
\* deletion but a login or the creation of a key or share (delete_user, factory_reset).
THEOREM NothingIsLeft == Spec => []DeletedLeavesNothing
  <1>1. Init => SharesInv /\ AccountsInv
    BY InitShares, InitAccounts
  <1>2. Init => ScriptInv /\ PathsInv
    BY DEF Init, ScriptInv, PathsInv, Busy, Idle
  <1>3. AuthInv /\ ScriptInv /\ PathsInv /\ BarredInv /\ SharesInv /\ AccountsInv /\ AuthInv' /\ BarredInv' /\ [Next]_vars
          => ScriptInv' /\ PathsInv' /\ SharesInv' /\ AccountsInv'
    BY ScriptStays, PathsStay, SharesStay, AccountsStay
  <1>4. AuthInv /\ SharesInv /\ AccountsInv => DeletedLeavesNothing
    BY LeavesNothing
  <1>5. QED
    BY <1>1, <1>2, <1>3, <1>4, AuthAlways, BarredAlways, PTL DEF Spec

=============================================================================
