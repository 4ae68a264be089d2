--------------------------- MODULE AuthKeys_proofs ---------------------------
(***************************************************************************)
(* Proofs about the key cache of AuthStore, which between requests holds   *)
(* no key that has been revoked, deleted or renamed, and about the shares  *)
(* of a renamed folder, which open it to the same accounts as before.      *)
(***************************************************************************)
EXTENDS AuthStore_proofs

-----------------------------------------------------------------------------
(* The key cache *)

Removing == {"revoke_api_key", "rename_api_key", "delete_user", "factory_reset"}
Undisturbed == \A m \in met : m \intersect Removing = {}

\* A key is created once, and nothing is known of it before.
IdsInv ==
    /\ \A p \in Slots : Busy(p) => /\ req[p].op = "create_api_key" => req[p].arg.key \in issued
                                   /\ req[p].cred \in Keys => req[p].cred \in issued
    /\ \A p, q \in Slots : Busy(p) /\ Busy(q) /\ req[p].op = "create_api_key" /\
          req[q].op = "create_api_key" /\ req[p].arg.key = req[q].arg.key => p = q
    /\ \A k \in Keys : api_key_cache[k] # NoUser \/ tables.keys[k] # Nobody => k \in issued
    /\ \A i \in 1..Len(log) : log[i].kind = "api-key" => log[i].key \in issued

\* What is left to do of a request about a key, or of the deletion of an account: from the
\* entry it writes on, one thing after the other.
Told(r) ==
    CASE r.op = "create_api_key" -> KeyEntry(r.arg.key, r.user.email, r.arg.label)
      [] r.op = "revoke_api_key" -> KeyRevoke(r.arg.key)
      [] r.op = "rename_api_key" -> Relabel(r.arg.key, r.arg.label)
      [] r.op = "delete_user" -> About("user-delete", r.arg)

KeyPaths(first, a, b, last) ==
    {<<first, a, b, last>>, <<first, b, last>>, <<a, b, last>>, <<b, last>>, <<last>>}
DeletePaths(first, a, b, c, d, e) ==
    {<<first, a, b, c, d, e>>, <<first, b, c, d, e>>, <<a, b, c, d, e>>, <<b, c, d, e>>,
     <<c, d, e>>, <<d, e>>, <<e>>}
ResetPaths(a, b, c) == {<<a, b, c>>, <<b, c>>, <<c>>}

OnPath(b, r) ==
    LET x == AppendEntry(Told(r))
        y == ApplyEntry(Told(r))
        e == About("none", r.arg)
    IN  /\ r.op = "create_api_key" => r.todo \in KeyPaths(Do("owns_key"), x, y, Do("cache_key"))
        /\ r.op = "revoke_api_key" => r.todo \in KeyPaths(Do("owns_key"), x, y, Do("drop_key"))
        /\ r.op = "rename_api_key" =>
              r.todo \in KeyPaths(Do("owns_key"), x, IF b = "store" THEN x ELSE y, Do("label"))
        /\ r.op = "delete_user" =>
              r.todo \in DeletePaths(On("exists", e), x, y, On("drop_sessions", e),
                                     On("delete_rows", e), On("drop_keys", e))
        /\ r.op = "factory_reset" =>
              r.todo \in ResetPaths(Do("remove_tree"), Do("clear"), Do("reset_db"))

PathsInv ==
    \A p \in Slots : Busy(p) /\ Head(req[p].todo).do \notin Opening => OnPath(backend, req[p])

Stored(keys, k, email, label) == keys[k] # Nobody /\ keys[k] = [email |-> email, label |-> label]

\* A request that has changed the key is about to say so to the cache.
Owes(r, k, u) ==
    \/ Head(r.todo).do \in {"drop_key", "label"} /\ r.arg.key = k
    \/ Head(r.todo).do \in Cleanup /\ r.op = "delete_user" /\ r.arg = u.email

\* What a request relies on at its next step.
Relies(b, t, cache, r, step) ==
    /\ step = "confirm" /\ r.cred \notin Sessions /\ ~r.cached =>
          Stored(t.keys, r.cred, r.user.email, r.user.label)
    /\ r.op = "create_api_key" =>
          /\ step # "cache_key" => t.keys[r.arg.key] = Nobody /\ cache[r.arg.key] = NoUser
          /\ step = "cache_key" => Stored(t.keys, r.arg.key, r.user.email, r.arg.label)
          /\ b = "pg" => \/ step = "lookup"
                         \/ step = "confirm" /\ (r.cred \in Sessions \/ r.cached)
                         \/ IsUser(t, r.user.email)
    /\ r.op = "rename_api_key" /\ step \in {"append", "apply", "label"} =>
          /\ t.keys[r.arg.key] # Nobody
          /\ cache[r.arg.key] # NoUser => cache[r.arg.key].email = t.keys[r.arg.key].email
          /\ step = "label" /\ b # "store" => t.keys[r.arg.key].label = r.arg.label
    /\ step = "reset_db" => \A k \in Keys : cache[k] = NoUser

KeysInv ==
    Undisturbed =>
        /\ \A k \in Keys : api_key_cache[k] # NoUser =>
              \/ Stored(tables.keys, k, api_key_cache[k].email, api_key_cache[k].label)
              \/ \E p \in Slots : Busy(p) /\ Owes(req[p], k, api_key_cache[k])
        /\ \A p \in Slots : Busy(p) =>
              Relies(backend, tables, api_key_cache, req[p], Head(req[p].todo).do)

-----------------------------------------------------------------------------
(* Keys: what changes them *)

\* A key after a change, entry by entry.
KeyChanged(t, x, k, key) ==
    /\ x.kind \notin {"api-key", "api-key-revoke", "api-key-relabel", "user-delete"} => key = t.keys[k]
    /\ x.kind = "api-key" => IF x.key = k /\ (backend # "pg" \/ IsUser(t, x.email))
                              THEN key = [email |-> x.email, label |-> x.label] ELSE key = t.keys[k]
    /\ x.kind = "api-key-revoke" => key = IF x.key = k THEN Nobody ELSE t.keys[k]
    /\ x.kind = "api-key-relabel" =>
          IF x.key = k /\ backend # "store" /\ t.keys[k] # Nobody
          THEN key = [email |-> t.keys[k].email, label |-> x.label] ELSE key = t.keys[k]
    /\ x.kind = "user-delete" =>
          key = IF t.keys[k] # Nobody /\ t.keys[k].email = x.email THEN Nobody ELSE t.keys[k]

LEMMA ChangedKeys ==
  ASSUME NEW t \in Tables, NEW x \in Entries, NEW k \in Keys
  PROVE  KeyChanged(t, x, k, Changed(t, x).keys[k])
  <1> USE EntryFields
  <1>1. t.keys \in [Keys -> KeyRecords \union {Nobody}]
    BY DEF Tables
  <1>2. CASE x.kind = "user-delete"
    <2>1. Changed(t, x) = DeletedUser(t, x.email) /\ x.email \in Emails
      BY <1>2 DEF Changed, execute, apply_entry, AccountKinds
    <2>2. DeletedUser(t, x.email).keys
            = [c \in Keys |-> IF t.keys[c] # Nobody /\ t.keys[c].email = x.email
                              THEN Nobody ELSE t.keys[c]]
      BY <2>1, DeletedFields
    <2>3. QED
      BY <1>2, <2>1, <2>2 DEF KeyChanged
  <1>3. CASE x.kind = "api-key"
    <2>1. apply_entry(t, x) = [t EXCEPT !.keys[x.key] = [email |-> x.email, label |-> x.label]]
      BY <1>3 DEF apply_entry
    <2>2. Changed(t, x) = IF backend # "pg" \/ IsUser(t, x.email) THEN apply_entry(t, x) ELSE t
      BY <1>3 DEF Changed, execute
    <2>3. x.key \in Keys
      BY <1>3
    <2>4. apply_entry(t, x).keys[k] = IF x.key = k THEN [email |-> x.email, label |-> x.label]
                                      ELSE t.keys[k]
      BY <1>1, <2>1, <2>3 DEF Tables
    <2>5. QED
      BY <1>3, <2>2, <2>4 DEF KeyChanged
  <1>4. CASE x.kind = "api-key-revoke"
    BY <1>1, <1>4 DEF KeyChanged, Changed, execute, apply_entry, Tables
  <1>5. CASE x.kind = "api-key-relabel"
    <2>1. Changed(t, x) = IF backend = "store" \/ t.keys[x.key] = Nobody THEN t
                          ELSE [t EXCEPT !.keys[x.key].label = x.label]
      BY <1>5 DEF Changed, execute, apply_entry
    <2>2. x.key \in Keys
      BY <1>5
    <2>3. CASE backend # "store" /\ t.keys[x.key] # Nobody
      <3> DEFINE key == t.keys[x.key]
                 new == [key EXCEPT !.label = x.label]
      <3>1. key \in KeyRecords
        BY <1>1, <2>2, <2>3
      <3>2. new = [email |-> key.email, label |-> x.label]
        BY <3>1 DEF KeyRecords
      <3>3. Changed(t, x).keys = [t.keys EXCEPT ![x.key] = new]
        BY <2>1, <2>3 DEF Tables
      <3> HIDE DEF new
      <3>4. Changed(t, x).keys[k] = IF x.key = k THEN new ELSE t.keys[k]
        BY <1>1, <2>2, <3>3
      <3>5. QED
        BY <1>5, <2>3, <3>2, <3>4 DEF KeyChanged
    <2>4. CASE backend = "store" \/ t.keys[x.key] = Nobody
      BY <1>5, <2>1, <2>4 DEF KeyChanged
    <2>5. QED
      BY <2>3, <2>4
  <1>6. CASE x.kind \in {"top-admin", "admin", "admin-revoke"}
    BY <1>6 DEF KeyChanged, Changed, execute, set_role, apply_entry, Tables
  <1>7. CASE x.kind = "user"
    BY <1>7 DEF KeyChanged, Changed, execute, upsert_user, apply_entry, Tables
  <1>8. CASE x.kind \in {"user-deactivate", "user-activate"}
    BY <1>8 DEF KeyChanged, Changed, execute, apply_entry, Tables
  <1>9. CASE x.kind \in {"allowed-email", "allowed-email-revoke", "share", "share-revoke",
                         "share-path-update", "domain", "domain-revoke"}
    <2>1. apply_entry(t, x).keys = t.keys
      BY <1>9 DEF apply_entry, Retain, Tables
    <2>2. Changed(t, x) \in {t, apply_entry(t, x)}
      BY <1>9 DEF Changed, execute
    <2>3. QED
      BY <1>9, <2>1, <2>2 DEF KeyChanged
  <1>10. QED
    BY <1>2, <1>3, <1>4, <1>5, <1>6, <1>7, <1>8, <1>9 DEF Kinds, AccountKinds

\* No account goes but by its deletion.
LEMMA ChangedIsUser ==
  ASSUME NEW t \in Tables, NEW x \in Entries, x.kind # "user-delete", NEW e \in Emails, IsUser(t, e)
  PROVE  IsUser(Changed(t, x), e)
  <1> USE EntryFields
  <1>1. CASE x.kind \in {"top-admin", "admin", "admin-revoke"}
    <2>1. Changed(t, x).users = t.users
      BY <1>1 DEF Changed, execute, set_role, apply_entry, Tables
    <2>2. QED
      BY <2>1 DEF IsUser
  <1>2. CASE x.kind = "user"
    BY <1>2 DEF Changed, execute, upsert_user, apply_entry, Tables, IsUser
  <1>3. CASE x.kind \in {"user-deactivate", "user-activate"}
    BY <1>3 DEF Changed, execute, apply_entry, Tables, IsUser, AccountKinds
  <1>4. CASE x.kind \in Kinds \ {"user-delete", "top-admin", "admin", "admin-revoke", "user",
                               "user-deactivate", "user-activate"}
    <2>1. apply_entry(t, x).users = t.users
      BY <1>4 DEF apply_entry, Retain, Tables, Kinds, AccountKinds
    <2>2. Changed(t, x) \in {t, apply_entry(t, x)}
      BY <1>4 DEF Changed, execute, Kinds, AccountKinds
    <2>3. QED
      BY <2>1, <2>2 DEF IsUser
  <1>5. QED
    BY <1>1, <1>2, <1>3, <1>4

\* A key comes from an entry that creates it.
LEMMA ReplayedKeys ==
  ASSUME NEW s \in Seq(Entries), NEW k \in Keys, replay_jsonl(s).keys[k] # Nobody
  PROVE  \E i \in 1..Len(s) : s[i].kind = "api-key" /\ s[i].key = k
  <1>1. PICK f : Replaying(f, s)
    BY ReplayUnfolds
  <1> DEFINE n == Len(s)
             named(i) == \E j \in 1..i : s[j].kind = "api-key" /\ s[j].key = k
  <1>2. /\ f \in [0..n -> Tables] /\ f[0] = EmptyTables /\ replay_jsonl(s) = f[n]
        /\ \A i \in 1..n : f[i] = Changed(f[i - 1], s[i])
    BY <1>1 DEF Replaying
  <1>3. n \in Nat /\ n \in 0..n /\ \A i \in 1..n : s[i] \in Entries
    OBVIOUS
  <1> HIDE DEF n
  <1> DEFINE good == {i \in 0..n : f[i].keys[k] # Nobody => named(i)}
  <1>4. 0 \in good
    BY <1>2, <1>3 DEF EmptyTables
  <1>5. \A i \in 0..n : i \in good /\ i # n => i + 1 \in good
    <2> SUFFICES ASSUME NEW i \in 0..n, f[i].keys[k] # Nobody => named(i), i # n
                 PROVE  i + 1 \in 0..n /\ (f[i + 1].keys[k] # Nobody => named(i + 1))
      OBVIOUS
    <2>1. i + 1 \in 1..n /\ (i + 1) - 1 = i /\ i + 1 \in 0..n
      BY <1>3
    <2> DEFINE u == f[i]
               x == s[i + 1]
    <2>2. u \in Tables /\ x \in Entries /\ f[i + 1] = Changed(u, x)
      BY <1>2, <1>3, <2>1
    <2>3. named(i) => named(i + 1)
      BY <1>3, <2>1
    <2>4. x.kind = "api-key" /\ x.key = k => named(i + 1)
      BY <1>3, <2>1
    <2> HIDE DEF named, x
    <2>5. KeyChanged(u, x, k, Changed(u, x).keys[k])
      <3> HIDE DEF u
      <3>1. QED
        BY <2>2, ChangedKeys
    <2>6. Changed(u, x).keys[k] # Nobody => u.keys[k] # Nobody \/ (x.kind = "api-key" /\ x.key = k)
      BY <2>5 DEF KeyChanged
    <2>7. QED
      BY <2>1, <2>2, <2>3, <2>4, <2>6
  <1> HIDE DEF good
  <1>6. \A i \in 0..n : i \in good
    BY <1>3, <1>4, <1>5, UpTo
  <1>7. named(n)
    BY <1>2, <1>3, <1>6 DEF good
  <1>8. QED
    BY <1>7 DEF n

\* A step keeps what a request was asked, and what it knows of its user once it has been served.
LEMMA StepSame ==
  ASSUME TypeOK, RequestsInv, NEW p \in Slots, Step(p), req'[p] # Nothing
  PROVE  /\ req'[p].op = req[p].op /\ req'[p].cred = req[p].cred /\ req'[p].arg = req[p].arg
         /\ \/ Lookup(p) \/ ConfirmSession(p) \/ ConfirmKey(p) \/ LoginRole(p)
            \/ SameRequest(req'[p], req[p])
  <1>1. Busy(p) /\ DOMAIN req = Slots
    BY StepKeeps DEF RequestsInv
  <1>2. ~Refuse(p)
    BY <1>1, RefuseMoves
  <1>3. CASE ServedStep(p)
    BY <1>3, ServedSame DEF SameRequest
  <1>4. CASE Allowed(p) \/ LoginActive(p)
    <2>1. \E steps : Then(p, steps)
      BY <1>2, <1>4 DEF Allowed, LoginActive, Pass, Advance
    <2>2. QED
      BY <1>1, <2>1, ThenSame DEF SameRequest
  <1>5. CASE ConfirmSession(p) \/ ConfirmKey(p)
    <2>1. \E user : Serve(p, user)
      BY <1>2, <1>5 DEF ConfirmSession, ConfirmKey
    <2>2. QED
      BY <1>1, <1>5, <2>1, ServeSame
  <1>6. CASE Lookup(p)
    BY <1>6, LookupFinds
  <1>7. CASE LoginRole(p)
    <2> DEFINE r == req[p]
               user == [NoUser EXCEPT !.email = r.arg, !.role = login_role(r.arg)]
               todo == Tail(r.todo)
               q == [[r EXCEPT !.todo = todo] EXCEPT !.user = user]
    <2>1. Goes(p, q)
      BY <1>7 DEF LoginRole, Rest
    <2>2. Called(r)
      BY <1>1 DEF RequestsInv, InProgress
    <2>3. q = With(r, todo, user, r.cached) /\ r.cached \in BOOLEAN
      <3> HIDE DEF user, todo
      <3>1. QED
        BY <2>2, ExceptWith
    <2> HIDE DEF user, q, todo
    <2>4. q.op = r.op /\ q.cred = r.cred /\ q.arg = r.arg
      BY <2>2, <2>3, WithFields
    <2>5. req'[p] = q
      BY <1>1, <2>1 DEF Goes
    <2>6. QED
      BY <1>7, <2>4, <2>5
  <1>8. QED
    BY <1>3, <1>4, <1>5, <1>6, <1>7 DEF Step, ServedStep

\* What a step does to the keys and the accounts.
LEMMA StepKeysTables ==
  ASSUME TypeOK, RequestsInv, NEW p \in Slots, Step(p)
  PROVE  \/ ApplyStep(p) /\ tables' = Changed(tables, Arg(p)) /\ Arg(p) \in Entries
         \/ Label(p)
         \/ tables' = KeptPolicy /\ req[p].op = "factory_reset" /\ Head(req[p].todo).do \notin Opening
         \/ tables'.keys = tables.keys /\ tables'.users = tables.users
  <1>1. tables \in Tables
    BY DEF TypeOK
  <1>2. CASE \/ Lookup(p) \/ ConfirmSession(p) \/ ConfirmKey(p)
             \/ Allowed(p) \/ LoginRole(p) \/ LoginActive(p) \/ CacheSession(p)
             \/ RecordUser(p) \/ RecordSession(p) \/ Seed(p)
             \/ AppendStep(p) \/ Exists(p) \/ OwnsKey(p) \/ OwnsShare(p)
    BY <1>2 DEF Lookup, ConfirmSession, ConfirmKey, Allowed, LoginRole, LoginActive, CacheSession,
         RecordUser, RecordSession, Seed, AppendStep, Exists, OwnsKey, OwnsShare, store
  <1>3. CASE \/ drop_sessions(p) \/ delete_rows(p) \/ drop_keys(p)
             \/ delete_session(p) \/ delete_row(p) \/ CacheKey(p) \/ DropKey(p) \/ RemoveTree(p)
    BY <1>3 DEF drop_sessions, delete_rows, drop_keys, delete_session, delete_row, CacheKey, DropKey,
         RemoveTree, store
  <1>4. CASE revoke_share_by_id(p)
    BY <1>1, <1>4 DEF revoke_share_by_id, Retain, Tables
  <1>5. CASE update_share_paths(p)
    BY <1>1, <1>5 DEF update_share_paths, Tables
  <1>6. CASE delete_shares_under(p)
    BY <1>1, <1>6 DEF delete_shares_under, Retain, Tables
  <1>7. CASE factory_reset_state(p) \/ factory_reset(p)
    <2>1. tables' = tables \/ tables' = KeptPolicy
      BY <1>7 DEF factory_reset_state, factory_reset
    <2>2. PICK d \in {"clear", "reset_db"} : At(p, d)
      BY <1>7 DEF factory_reset_state, factory_reset
    <2>3. d \notin Opening
      BY DEF Opening
    <2>4. Fits(backend, req[p], Head(req[p].todo)) /\ Head(req[p].todo).do = d
      BY <2>2, <2>3, AtServed
    <2>5. req[p].op = "factory_reset"
      BY <2>4 DEF Fits
    <2>6. QED
      BY <2>1, <2>3, <2>4, <2>5
  <1>8. CASE ApplyStep(p)
    BY <1>8, EntryArg DEF ApplyStep
  <1>9. QED
    BY <1>2, <1>3, <1>4, <1>5, <1>6, <1>7, <1>8 DEF Step

\* What it does to the key cache.
LEMMA StepKeysCache ==
  ASSUME NEW p \in Slots, Step(p)
  PROVE  \/ ConfirmKey(p) \/ CacheKey(p) \/ DropKey(p) \/ Label(p) \/ drop_keys(p)
         \/ factory_reset_state(p)
         \/ api_key_cache' = api_key_cache
  <1>1. CASE \/ Lookup(p) \/ ConfirmSession(p)
             \/ Allowed(p) \/ LoginRole(p) \/ LoginActive(p) \/ CacheSession(p)
             \/ RecordUser(p) \/ RecordSession(p) \/ Seed(p)
             \/ AppendStep(p) \/ ApplyStep(p) \/ Exists(p) \/ OwnsKey(p) \/ OwnsShare(p)
    BY <1>1 DEF Lookup, ConfirmSession, Allowed, LoginRole, LoginActive, CacheSession,
         RecordUser, RecordSession, Seed, AppendStep, ApplyStep, Exists, OwnsKey, OwnsShare, caches
  <1>2. CASE \/ revoke_share_by_id(p) \/ update_share_paths(p) \/ delete_shares_under(p)
             \/ drop_sessions(p) \/ delete_rows(p) \/ delete_session(p)
             \/ delete_row(p) \/ RemoveTree(p) \/ factory_reset(p)
    BY <1>2 DEF revoke_share_by_id, update_share_paths, delete_shares_under, drop_sessions,
         delete_rows, delete_session, delete_row, RemoveTree, factory_reset, caches
  <1>3. QED
    BY <1>1, <1>2 DEF Step

\* The ids of a request that begins.
LEMMA BeginIds ==
  ASSUME TypeOK, RequestsInv, NEW p \in Slots, Begin(p)
  PROVE  /\ issued \subseteq issued'
         /\ req'[p].op = "create_api_key" =>
               req'[p].arg.key \in Keys /\ req'[p].arg.key \notin issued /\ req'[p].arg.key \in issued'
         /\ req'[p].cred \in Keys => req'[p].cred \in issued
  <1>1. PICK r \in Requests : Enters(p, r)
    BY DEF Begin
  <1> DEFINE a == AllIdle
             new == [r EXCEPT !.alone = a]
  <1>2. req'[p] = new /\ issued' = issued \union Issues(r)
    <2>1. req' = [q \in Slots |-> IF q = p THEN new ELSE IF Busy(q) THEN [req[q] EXCEPT !.alone = FALSE]
                                  ELSE Nothing]
      BY <1>1 DEF Enters
    <2>2. QED
      BY <1>1, <2>1 DEF Enters
  <1>3. ASSUME NEW ids, NEW i \in Fresh(ids)
        PROVE  i \in ids /\ i \notin issued
    BY <1>3 DEF Fresh
  <1>4. CASE r \in {Request("login", s, e, LoggingIn) : s \in Fresh(Sessions), e \in Emails}
    <2>1. PICK s \in Fresh(Sessions), e \in Emails : r = Request("login", s, e, LoggingIn)
      BY <1>4
    <2>2. new.op = "login" /\ new.cred = s
      BY <2>1 DEF Request
    <2>3. s \notin Keys
      BY <1>3, <2>1, AuthAssumption
    <2>4. QED
      BY <1>2, <2>2, <2>3
  <1>5. CASE r \in {Request(b.op, c, b.arg, Identified) : b \in Asked, c \in issued \ Shares}
    <2>1. PICK b \in Asked, c \in issued \ Shares : r = Request(b.op, c, b.arg, Identified)
      BY <1>5
    <2>2. new.op = b.op /\ new.cred = c /\ new.arg = b.arg /\ r.op = b.op /\ r.arg = b.arg
      BY <2>1 DEF Request
    <2>3. ASSUME b.op = "create_api_key"
          PROVE  b.arg.key \in Fresh(Keys) /\ Issues(r) = {b.arg.key}
      <3>1. b \in [op : {"create_api_key"}, arg : [key : Fresh(Keys), label : Labels]]
        BY <2>1, <2>3 DEF Asked
      <3>2. b.arg.key \in Fresh(Keys)
        BY <3>1
      <3>3. QED
        BY <2>2, <2>3, <3>2 DEF Issues
    <2>4. b.op = "create_api_key" => b.arg.key \in Keys /\ b.arg.key \notin issued
      BY <1>3, <2>3
    <2>5. QED
      BY <1>2, <2>1, <2>2, <2>3, <2>4
  <1>6. QED
    BY <1>1, <1>4, <1>5 DEF Requests

\* What a step does to the log.
LEMMA StepLogs ==
  ASSUME NEW p \in Slots, Step(p)
  PROVE  \/ AppendStep(p) \/ log' = log \/ log' = <<>> \/ log' = PolicyEntries(tables)
  <1>1. CASE \/ Lookup(p) \/ ConfirmSession(p) \/ ConfirmKey(p)
             \/ Allowed(p) \/ LoginRole(p) \/ LoginActive(p) \/ CacheSession(p)
             \/ RecordUser(p) \/ RecordSession(p) \/ Seed(p)
             \/ ApplyStep(p) \/ Exists(p) \/ OwnsKey(p) \/ OwnsShare(p)
    BY <1>1 DEF Lookup, ConfirmSession, ConfirmKey, Allowed, LoginRole, LoginActive, CacheSession,
         RecordUser, RecordSession, Seed, ApplyStep, Exists, OwnsKey, OwnsShare, store
  <1>2. CASE \/ revoke_share_by_id(p) \/ update_share_paths(p) \/ delete_shares_under(p)
             \/ drop_sessions(p) \/ delete_rows(p) \/ drop_keys(p)
             \/ delete_session(p) \/ delete_row(p) \/ CacheKey(p) \/ DropKey(p) \/ Label(p)
    BY <1>2 DEF revoke_share_by_id, update_share_paths, delete_shares_under, drop_sessions,
         delete_rows, drop_keys, delete_session, delete_row, CacheKey, DropKey, Label, store
  <1>3. CASE RemoveTree(p) \/ factory_reset_state(p) \/ factory_reset(p)
    BY <1>3 DEF RemoveTree, factory_reset_state, factory_reset
  <1>4. QED
    BY <1>1, <1>2, <1>3 DEF Step

\* An entry creates the key its request was answered with.
LEMMA KeyWritten ==
  ASSUME RequestsInv, IdsInv, NEW p \in Slots, At(p, "append") \/ At(p, "apply"), Arg(p).kind = "api-key"
  PROVE  Arg(p).key \in issued /\ Arg(p).key = req[p].arg.key /\ req[p].op = "create_api_key"
  <1>1. Writes(req[p], Arg(p)) /\ Busy(p)
    BY EntryArg DEF At
  <1>2. req[p].op = "create_api_key" /\ Arg(p) = KeyEntry(req[p].arg.key, req[p].user.email, req[p].arg.label)
    BY <1>1 DEF Writes
  <1>3. Arg(p).key = req[p].arg.key
    BY <1>2 DEF KeyEntry
  <1>4. req[p].arg.key \in issued
    BY <1>1, <1>2 DEF IdsInv
  <1>5. QED
    BY <1>2, <1>3, <1>4

LEMMA StepKeepsIds ==
  ASSUME TypeOK, RequestsInv, IdsInv, NEW p \in Slots, Step(p)
  PROVE  IdsInv'
  <1>1. issued' = issued /\ Busy(p)
    BY StepKeeps
  <1>2. \A q \in Slots : Busy(q)' => /\ Busy(q) /\ req'[q].op = req[q].op
                                     /\ req'[q].cred = req[q].cred /\ req'[q].arg = req[q].arg
    <2> SUFFICES ASSUME NEW q \in Slots, Busy(q)'
                 PROVE  Busy(q) /\ req'[q].op = req[q].op /\ req'[q].cred = req[q].cred
                        /\ req'[q].arg = req[q].arg
      OBVIOUS
    <2>1. req'[q] # Nothing
      BY DEF Busy, Idle
    <2>2. CASE q = p
      BY <1>1, <2>1, <2>2, StepSame
    <2>3. CASE q # p
      <3>1. req'[q] = req[q]
        BY <2>3, StepShape
      <3>2. QED
        BY <2>1, <3>1 DEF Busy, Idle
    <2>4. QED
      BY <2>2, <2>3
  <1>3. tables \in Tables /\ log \in Seq(Entries) /\ api_key_cache \in [Keys -> Users \union {NoUser}]
    BY DEF TypeOK
  <1>4. tables.keys \in [Keys -> KeyRecords \union {Nobody}]
    BY <1>3 DEF Tables
  <1>5. /\ \A k \in Keys : api_key_cache[k] # NoUser => k \in issued
        /\ \A k \in Keys : tables.keys[k] # Nobody => k \in issued
        /\ \A i \in 1..Len(log) : log[i].kind = "api-key" => log[i].key \in issued
    BY DEF IdsInv
  <1>6. ASSUME NEW k \in Keys, tables'.keys[k] # Nobody
        PROVE  k \in issued
    <2>1. CASE ApplyStep(p) /\ tables' = Changed(tables, Arg(p)) /\ Arg(p) \in Entries
      <3> DEFINE x == Arg(p)
      <3>1. x.kind = "api-key" => x.key \in issued
        BY <2>1, KeyWritten DEF ApplyStep
      <3>2. x \in Entries /\ tables' = Changed(tables, x)
        BY <2>1
      <3> HIDE DEF x
      <3>3. KeyChanged(tables, x, k, tables'.keys[k])
        BY <1>3, <3>2, ChangedKeys
      <3>4. tables.keys[k] # Nobody \/ (x.kind = "api-key" /\ x.key = k)
        BY <1>6, <3>3 DEF KeyChanged
      <3>5. QED
        BY <1>5, <3>1, <3>4
    <2>2. CASE Label(p)
      <3> DEFINE c == req[p].arg.key
                 u == [tables.keys[c] EXCEPT !.label = req[p].arg.label]
      <3>1. \/ tables' = tables
            \/ tables.keys[c] # Nobody /\ tables'.keys = [tables.keys EXCEPT ![c] = u]
        BY <1>3, <2>2 DEF Label, Tables
      <3> HIDE DEF c, u
      <3>2. tables.keys[k] # Nobody
        BY <1>4, <1>6, <3>1
      <3>3. QED
        BY <1>5, <3>2
    <2>3. CASE tables' = KeptPolicy
      BY <1>6, <2>3 DEF KeptPolicy, EmptyTables
    <2>4. CASE tables'.keys = tables.keys
      BY <1>5, <1>6, <2>4
    <2>5. QED
      BY <2>1, <2>2, <2>3, <2>4, StepKeysTables
  <1>7. ASSUME NEW k \in Keys, api_key_cache'[k] # NoUser
        PROVE  k \in issued
    <2> SUFFICES ASSUME api_key_cache[k] = NoUser
                 PROVE  k \in issued
      BY <1>5
    <2>1. CASE ConfirmKey(p)
      <3>1. req[p].cred \in Keys /\ \E u : api_key_cache' = [api_key_cache EXCEPT ![req[p].cred] = u]
        BY <1>3, <1>7, <2>1 DEF ConfirmKey
      <3>2. k = req[p].cred
        BY <1>3, <1>7, <3>1
      <3>3. QED
        BY <1>1, <3>1, <3>2 DEF IdsInv
    <2>2. CASE CacheKey(p)
      <3>1. \E u : api_key_cache' = [api_key_cache EXCEPT ![req[p].arg.key] = u]
        BY <2>2 DEF CacheKey
      <3>2. k = req[p].arg.key
        BY <1>3, <1>7, <3>1
      <3>3. Fits(backend, req[p], Head(req[p].todo)) /\ Head(req[p].todo).do = "cache_key"
        BY <2>2, AtServed DEF CacheKey, Opening
      <3>4. req[p].op = "create_api_key"
        BY <3>3 DEF Fits
      <3>5. QED
        BY <1>1, <3>2, <3>4 DEF IdsInv
    <2>3. CASE DropKey(p) \/ drop_keys(p) \/ factory_reset_state(p)
      <3>1. \/ api_key_cache' = [c \in Keys |-> NoUser]
            \/ \E c : api_key_cache' = [api_key_cache EXCEPT ![c] = NoUser]
            \/ api_key_cache' = [c \in DOMAIN api_key_cache |->
                  IF api_key_cache[c].email = Arg(p).email THEN NoUser ELSE api_key_cache[c]]
        BY <2>3 DEF DropKey, drop_keys, factory_reset_state, Dropped
      <3>2. api_key_cache'[k] = NoUser
        BY <1>3, <3>1
      <3>3. QED
        BY <1>7, <3>2
    <2>4. CASE Label(p)
      <3> DEFINE c == req[p].arg.key
                 u == [api_key_cache[c] EXCEPT !.label = req[p].arg.label]
      <3>1. \/ api_key_cache' = api_key_cache
            \/ api_key_cache[c] # NoUser /\ api_key_cache' = [api_key_cache EXCEPT ![c] = u]
        BY <2>4 DEF Label
      <3> HIDE DEF c, u
      <3>2. api_key_cache'[k] = NoUser
        BY <1>3, <3>1
      <3>3. QED
        BY <1>7, <3>2
    <2>5. CASE api_key_cache' = api_key_cache
      BY <1>7, <2>5
    <2>6. QED
      BY <2>1, <2>2, <2>3, <2>4, <2>5, StepKeysCache
  <1>8. \A i \in 1..Len(log') : log'[i].kind = "api-key" => log'[i].key \in issued
    <2>1. CASE AppendStep(p)
      <3> DEFINE x == Arg(p)
      <3>1. x.kind = "api-key" => x.key \in issued
        BY <2>1, KeyWritten DEF AppendStep
      <3>2. log' = log \/ log' = Append(log, x)
        BY <2>1 DEF AppendStep
      <3> HIDE DEF x
      <3>3. Len(log) \in Nat /\ Len(Append(log, x)) = Len(log) + 1
            /\ \A i \in 1..(Len(log) + 1) : \/ i \in 1..Len(log) /\ Append(log, x)[i] = log[i]
                                           \/ Append(log, x)[i] = x
        BY <1>3
      <3>4. QED
        BY <1>5, <3>1, <3>2, <3>3
    <2>2. CASE log' = log
      BY <1>5, <2>2
    <2>3. CASE log' = <<>>
      BY <2>3
    <2>4. CASE log' = PolicyEntries(tables)
      <3>1. OnlyPolicy(log')
        BY <1>3, <2>4, KeptTyped
      <3>2. QED
        BY <3>1 DEF OnlyPolicy, PolicyKinds
    <2>5. QED
      BY <2>1, <2>2, <2>3, <2>4, StepLogs
  <1>9. \A q, w \in Slots : Busy(q) /\ Busy(w) /\ req[q].op = "create_api_key" /\
          req[w].op = "create_api_key" /\ req[q].arg.key = req[w].arg.key => q = w
    BY DEF IdsInv
  <1>10. \A q \in Slots : Busy(q) => /\ req[q].op = "create_api_key" => req[q].arg.key \in issued
                                     /\ req[q].cred \in Keys => req[q].cred \in issued
    BY DEF IdsInv
  <1> HIDE DEF Busy
  <1>11. QED
    BY <1>1, <1>2, <1>6, <1>7, <1>8, <1>9, <1>10 DEF IdsInv

LEMMA BeginKeepsIds ==
  ASSUME TypeOK, RequestsInv, IdsInv, NEW p \in Slots, Begin(p)
  PROVE  IdsInv'
  <1>1. UNCHANGED <<tables, log, api_key_cache>>
    BY DEF Begin, store, caches
  <1>2. /\ \A q \in Slots : q # p /\ Busy(q) => SameRequest(req'[q], req[q])
        /\ \A q \in Slots : Busy(q)' => q = p \/ Busy(q)
    BY BeginShape
  <1>3. /\ issued \subseteq issued'
        /\ req'[p].op = "create_api_key" => req'[p].arg.key \notin issued /\ req'[p].arg.key \in issued'
        /\ req'[p].cred \in Keys => req'[p].cred \in issued
    BY BeginIds
  <1>4. /\ \A k \in Keys : api_key_cache[k] # NoUser \/ tables.keys[k] # Nobody => k \in issued
        /\ \A i \in 1..Len(log) : log[i].kind = "api-key" => log[i].key \in issued
        /\ \A q, w \in Slots : Busy(q) /\ Busy(w) /\ req[q].op = "create_api_key" /\
             req[w].op = "create_api_key" /\ req[q].arg.key = req[w].arg.key => q = w
        /\ \A q \in Slots : Busy(q) => /\ req[q].op = "create_api_key" => req[q].arg.key \in issued
                                       /\ req[q].cred \in Keys => req[q].cred \in issued
    BY DEF IdsInv
  <1> HIDE DEF Busy
  <1>5. \A q \in Slots : Busy(q)' => /\ req'[q].op = "create_api_key" => req'[q].arg.key \in issued'
                                     /\ req'[q].cred \in Keys => req'[q].cred \in issued'
    BY <1>2, <1>3, <1>4 DEF SameRequest
  <1>6. ASSUME NEW q \in Slots, NEW w \in Slots, Busy(q)', Busy(w)', req'[q].op = "create_api_key",
               req'[w].op = "create_api_key", req'[q].arg.key = req'[w].arg.key
        PROVE  q = w
    <2>1. CASE q # p /\ w # p
      BY <1>2, <1>4, <1>6, <2>1 DEF SameRequest
    <2>2. ASSUME NEW v \in Slots, v # p, Busy(v)', req'[v].op = "create_api_key",
                 req'[p].op = "create_api_key", req'[v].arg.key = req'[p].arg.key
          PROVE  FALSE
      BY <1>2, <1>3, <1>4, <2>2 DEF SameRequest
    <2>3. QED
      BY <1>6, <2>1, <2>2
  <1>7. QED
    BY <1>1, <1>3, <1>4, <1>5, <1>6 DEF IdsInv

LEMMA RestartKeepsIds ==
  ASSUME TypeOK, IdsInv, backend \in {"store", "jsonl", "pg"}, Restart
  PROVE  IdsInv'
  <1>1. /\ log' = BootLog(log, stored) /\ tables' = BootTables(tables, log') /\ issued' = issued
        /\ api_key_cache' = BootKeys(tables') /\ req' = [p \in Slots |-> Nothing]
    BY DEF Restart
  <1>2. tables \in Tables /\ log \in Seq(Entries)
    BY DEF TypeOK
  <1>3. log' \in Seq(Entries)
    BY <1>1, <1>2, BootTyped
  <1>4. \A i \in 1..Len(log') : log'[i].kind = "api-key" => log'[i].key \in issued
    <2>1. \A i \in 1..Len(SeedEntries) : SeedEntries[i].kind # "api-key"
      BY SeedsTyped DEF OnlyPolicy, PolicyKinds
    <2>2. \A i \in 1..Len(log) : log[i].kind = "api-key" => log[i].key \in issued
      BY DEF IdsInv
    <2>3. QED
      BY <1>1, <2>1, <2>2 DEF BootLog
  <1>5. ASSUME NEW k \in Keys, tables'.keys[k] # Nobody
        PROVE  k \in issued
    <2>1. CASE backend = "pg"
      <3>1. tables'.keys = tables.keys
        BY <1>1, <1>2, <2>1 DEF BootTables, Tables
      <3>2. QED
        BY <1>5, <3>1 DEF IdsInv
    <2>2. CASE backend # "pg"
      <3>1. tables' = replay_jsonl(log')
        BY <1>1, <2>2 DEF BootTables
      <3>2. \E i \in 1..Len(log') : log'[i].kind = "api-key" /\ log'[i].key = k
        BY <1>3, <1>5, <3>1, ReplayedKeys
      <3>3. QED
        BY <1>4, <3>2
    <2>3. QED
      BY <2>1, <2>2
  <1>6. ASSUME NEW k \in Keys, api_key_cache'[k] # NoUser
        PROVE  k \in issued
    <2>1. tables'.keys[k] # Nobody
      BY <1>1, <1>6 DEF BootKeys
    <2>2. QED
      BY <1>5, <2>1
  <1>7. \A p \in Slots : ~Busy(p)'
    BY <1>1 DEF Busy, Idle
  <1> HIDE DEF Busy
  <1>8. QED
    BY <1>1, <1>4, <1>5, <1>6, <1>7 DEF IdsInv

LEMMA InitIds ==
  ASSUME Init
  PROVE  IdsInv
  <1>1. PICK h \in Histories :
          /\ log = IF backend = "pg" THEN <<>> ELSE SeedEntries \o h
          /\ tables = replay_jsonl(SeedEntries \o h)
          /\ api_key_cache \in {BootKeys(tables), [k \in Keys |-> NoUser]}
          /\ \E s \in Sessions :
              issued = {h[i].key : i \in {j \in DOMAIN h : h[j].kind = "api-key"}}
                          \union {h[i].share.id : i \in {j \in DOMAIN h : h[j].kind = "share"}}
                          \union (IF tables.top = {} THEN {} ELSE {s})
    BY DEF Init
  <1> DEFINE u == SeedEntries
             s == u \o h
  <1>2. /\ u \in Seq(Entries) /\ \A i \in 1..Len(u) : u[i].kind \in PolicyKinds
        /\ h \in Seq(Entries)
    BY HistoriesAssumption, SeedsTyped DEF OnlyPolicy
  <1> HIDE DEF u
  <1>3. s \in Seq(Entries)
    BY <1>2, JoinedEntries
  <1>4. \A i \in DOMAIN h : h[i].kind = "api-key" => h[i].key \in issued
    BY <1>1
  <1>5. \A i \in 1..Len(s) : s[i].kind = "api-key" => s[i].key \in issued
    <2>1. Len(u) \in Nat /\ Len(h) \in Nat /\ Len(s) = Len(u) + Len(h)
      BY <1>2
    <2>2. \A i \in 1..(Len(u) + Len(h)) : \/ i \in 1..Len(u) /\ s[i] = u[i]
                                          \/ i - Len(u) \in 1..Len(h) /\ s[i] = h[i - Len(u)]
      BY <1>2
    <2>3. DOMAIN h = 1..Len(h)
      BY <1>2
    <2>4. "api-key" \notin PolicyKinds
      BY DEF PolicyKinds
    <2> HIDE DEF s
    <2>5. QED
      BY <1>2, <1>4, <2>1, <2>2, <2>3, <2>4
  <1>6. tables = replay_jsonl(s) /\ log = IF backend = "pg" THEN <<>> ELSE s
    BY <1>1 DEF u
  <1> HIDE DEF s
  <1>7. \A k \in Keys : tables.keys[k] # Nobody => k \in issued
    BY <1>3, <1>5, <1>6, ReplayedKeys
  <1>8. \A k \in Keys : api_key_cache[k] # NoUser => tables.keys[k] # Nobody
    BY <1>1 DEF BootKeys
  <1>9. \A i \in 1..Len(log) : log[i].kind = "api-key" => log[i].key \in issued
    BY <1>5, <1>6
  <1>10. \A p \in Slots : ~Busy(p)
    BY DEF Init, Busy, Idle
  <1>11. QED
    BY <1>7, <1>8, <1>9, <1>10 DEF IdsInv

LEMMA IdsStay ==
  ASSUME AuthInv, IdsInv, [Next]_vars
  PROVE  IdsInv'
  <1>1. TypeOK /\ RequestsInv /\ backend \in {"store", "jsonl", "pg"}
    BY DEF AuthInv
  <1>2. CASE \E p \in Slots : Begin(p)
    BY <1>1, <1>2, BeginKeepsIds
  <1>3. CASE \E p \in Slots : Step(p)
    BY <1>1, <1>3, StepKeepsIds
  <1>4. CASE \E s \in Sessions : Expire(s)
    BY <1>4 DEF Expire, IdsInv, Busy, Idle, caches
  <1>5. CASE Restart
    BY <1>1, <1>5, RestartKeepsIds
  <1>6. CASE UNCHANGED vars
    BY <1>6 DEF vars, IdsInv, Busy, Idle
  <1>7. QED
    BY <1>2, <1>3, <1>4, <1>5, <1>6 DEF Next

-----------------------------------------------------------------------------
(* What a request has left to do *)

Concat(u, v, w) == u \o v = w

LEMMA JoinedTo ==
  ASSUME NEW S, NEW u \in Seq(S), NEW v \in Seq(S), NEW w \in Seq(S), Len(w) = Len(u) + Len(v),
         \A i \in 1..Len(w) : w[i] = IF i <= Len(u) THEN u[i] ELSE v[i - Len(u)]
  PROVE  Concat(u, v, w)
  <1>1. u \o v \in Seq(S) /\ Len(u \o v) = Len(w) /\ \A i \in 1..Len(w) : (u \o v)[i] = w[i]
    BY ConcatProperties
  <1>2. QED
    BY <1>1, SeqEqual DEF Concat

LEMMA PairJoined ==
  ASSUME NEW a, NEW b
  PROVE  Concat(<<a>>, <<b>>, <<a, b>>)
  <1> DEFINE S == {a, b}
             u == <<a>>
             v == <<b>>
             w == <<a, b>>
  <1>1. u \in Seq(S) /\ v \in Seq(S) /\ w \in Seq(S) /\ Len(u) = 1 /\ Len(v) = 1 /\ Len(w) = 2
        /\ w[1] = u[1] /\ w[2] = v[1]
    OBVIOUS
  <1> HIDE DEF S, u, v, w
  <1>2. Len(w) = Len(u) + Len(v) /\ \A i \in 1..Len(w) : w[i] = IF i <= Len(u) THEN u[i] ELSE v[i - Len(u)]
    BY <1>1
  <1>3. Concat(u, v, w)
    BY <1>1, <1>2, JoinedTo
  <1>4. QED
    BY <1>3 DEF u, v, w

LEMMA OneAndTwo ==
  ASSUME NEW a, NEW b, NEW c
  PROVE  Concat(<<a>>, <<b, c>>, <<a, b, c>>) /\ Concat(<<a, b>>, <<c>>, <<a, b, c>>)
  <1> DEFINE S == {a, b, c}
             u == <<a>>
             v == <<b, c>>
             w == <<a, b, c>>
             x == <<a, b>>
             y == <<c>>
  <1>1. u \in Seq(S) /\ v \in Seq(S) /\ w \in Seq(S) /\ Len(u) = 1 /\ Len(v) = 2 /\ Len(w) = 3
        /\ w[1] = u[1] /\ w[2] = v[1] /\ w[3] = v[2]
    OBVIOUS
  <1>2. x \in Seq(S) /\ y \in Seq(S) /\ Len(x) = 2 /\ Len(y) = 1 /\ w[1] = x[1] /\ w[2] = x[2] /\ w[3] = y[1]
    OBVIOUS
  <1> HIDE DEF S, u, v, w, x, y
  <1>3. Len(w) = Len(u) + Len(v) /\ \A i \in 1..Len(w) : w[i] = IF i <= Len(u) THEN u[i] ELSE v[i - Len(u)]
    BY <1>1
  <1>4. Len(w) = Len(x) + Len(y) /\ \A i \in 1..Len(w) : w[i] = IF i <= Len(x) THEN x[i] ELSE y[i - Len(x)]
    BY <1>1, <1>2
  <1>5. Concat(u, v, w) /\ Concat(x, y, w)
    BY <1>1, <1>2, <1>3, <1>4, JoinedTo
  <1>6. QED
    BY <1>5 DEF u, v, w, x, y

LEMMA ThreeAndOne ==
  ASSUME NEW a, NEW b, NEW c, NEW d
  PROVE  Concat(<<a, b, c>>, <<d>>, <<a, b, c, d>>)
  <1> DEFINE S == {a, b, c, d}
             u == <<a, b, c>>
             v == <<d>>
             w == <<a, b, c, d>>
  <1>1. u \in Seq(S) /\ v \in Seq(S) /\ w \in Seq(S) /\ Len(u) = 3 /\ Len(v) = 1 /\ Len(w) = 4
        /\ w[1] = u[1] /\ w[2] = u[2] /\ w[3] = u[3] /\ w[4] = v[1]
    OBVIOUS
  <1> HIDE DEF S, u, v, w
  <1>2. Len(w) = Len(u) + Len(v) /\ \A i \in 1..Len(w) : w[i] = IF i <= Len(u) THEN u[i] ELSE v[i - Len(u)]
    BY <1>1
  <1>3. Concat(u, v, w)
    BY <1>1, <1>2, JoinedTo
  <1>4. QED
    BY <1>3 DEF u, v, w

LEMMA AndThree ==
  ASSUME NEW f, NEW a, NEW b, NEW c, NEW d, NEW e
  PROVE  /\ Concat(<<f, b>>, <<c, d, e>>, <<f, b, c, d, e>>)
         /\ Concat(<<f, a, b>>, <<c, d, e>>, <<f, a, b, c, d, e>>)
  <1> DEFINE S == {f, a, b, c, d, e}
             s == <<f, b>>
             t == <<f, b, c, d, e>>
             u == <<f, a, b>>
             v == <<c, d, e>>
             w == <<f, a, b, c, d, e>>
  <1>1. u \in Seq(S) /\ v \in Seq(S) /\ w \in Seq(S) /\ Len(u) = 3 /\ Len(v) = 3 /\ Len(w) = 6
        /\ w[1] = u[1] /\ w[2] = u[2] /\ w[3] = u[3] /\ w[4] = v[1] /\ w[5] = v[2] /\ w[6] = v[3]
    OBVIOUS
  <1>2. s \in Seq(S) /\ t \in Seq(S) /\ Len(s) = 2 /\ Len(t) = 5
        /\ t[1] = s[1] /\ t[2] = s[2] /\ t[3] = v[1] /\ t[4] = v[2] /\ t[5] = v[3]
    OBVIOUS
  <1> HIDE DEF S, s, t, u, v, w
  <1>3. Len(w) = Len(u) + Len(v) /\ \A i \in 1..Len(w) : w[i] = IF i <= Len(u) THEN u[i] ELSE v[i - Len(u)]
    BY <1>1
  <1>4. Len(t) = Len(s) + Len(v) /\ \A i \in 1..Len(t) : t[i] = IF i <= Len(s) THEN s[i] ELSE v[i - Len(s)]
    BY <1>1, <1>2
  <1>5. Concat(u, v, w) /\ Concat(s, v, t)
    BY <1>1, <1>2, <1>3, <1>4, JoinedTo
  <1>6. QED
    BY <1>5 DEF s, t, u, v, w

LEMMA KeyPathTail ==
  ASSUME NEW f, NEW a, NEW b, NEW c, NEW todo \in KeyPaths(f, a, b, c), Tail(todo) # <<>>
  PROVE  Tail(todo) \in KeyPaths(f, a, b, c)
  <1>1. /\ Tail(<<f, a, b, c>>) = <<a, b, c>> /\ Tail(<<f, b, c>>) = <<b, c>>
        /\ Tail(<<a, b, c>>) = <<b, c>> /\ Tail(<<b, c>>) = <<c>> /\ Tail(<<c>>) = <<>>
    OBVIOUS
  <1>2. QED
    BY <1>1 DEF KeyPaths

LEMMA DeletePathTail ==
  ASSUME NEW f, NEW a, NEW b, NEW c, NEW d, NEW e, NEW todo \in DeletePaths(f, a, b, c, d, e),
         Tail(todo) # <<>>
  PROVE  Tail(todo) \in DeletePaths(f, a, b, c, d, e)
  <1>1. /\ Tail(<<f, a, b, c, d, e>>) = <<a, b, c, d, e>> /\ Tail(<<f, b, c, d, e>>) = <<b, c, d, e>>
        /\ Tail(<<a, b, c, d, e>>) = <<b, c, d, e>> /\ Tail(<<b, c, d, e>>) = <<c, d, e>>
        /\ Tail(<<c, d, e>>) = <<d, e>> /\ Tail(<<d, e>>) = <<e>> /\ Tail(<<e>>) = <<>>
    OBVIOUS
  <1>2. QED
    BY <1>1 DEF DeletePaths

\* After b comes c, and so on.
LEMMA DeletePathHeads ==
  ASSUME NEW f, NEW a, NEW b, NEW c, NEW d, NEW e, NEW todo \in DeletePaths(f, a, b, c, d, e)
  PROVE  /\ Head(todo) = b /\ b \notin {f, a, c, d, e} => Tail(todo) = <<c, d, e>>
         /\ Head(todo) = c /\ c \notin {f, a, b, d, e} => Tail(todo) = <<d, e>>
         /\ Head(todo) = d /\ d \notin {f, a, b, c, e} => Tail(todo) = <<e>>
  <1>1. /\ Head(todo) = b /\ b \notin {f, a, c, d, e} => todo = <<b, c, d, e>>
        /\ Head(todo) = c /\ c \notin {f, a, b, d, e} => todo = <<c, d, e>>
        /\ Head(todo) = d /\ d \notin {f, a, b, c, e} => todo = <<d, e>>
    BY DEF DeletePaths
  <1>2. Tail(<<b, c, d, e>>) = <<c, d, e>> /\ Tail(<<c, d, e>>) = <<d, e>> /\ Tail(<<d, e>>) = <<e>>
    OBVIOUS
  <1>3. QED
    BY <1>1, <1>2

\* The steps of a handler, from its first.
LEMMA HandlerPath ==
  ASSUME NEW r, NEW q, q.op = r.op, q.arg = r.arg, q.user = r.user, q.todo = Handler(r).todo
  PROVE  OnPath(backend, q)
  <1> DEFINE x == AppendEntry(Told(q))
             y == ApplyEntry(Told(q))
             o == Do("owns_key")
             e == About("none", r.arg)
             a == Told(q)
             p == Persist(a)
  <1>1. p = IF backend = "pg" THEN <<y>> ELSE <<x, y>>
    BY DEF Persist
  <1>2. CASE r.op = "create_api_key"
    <2> DEFINE c == Do("cache_key")
    <2>1. q.todo = p \o <<c>>
      BY <1>2 DEF Handler, Serves, UserHandler, UserOps, create_api_key, Told
    <2>2. OnPath(backend, q) <=> q.todo \in KeyPaths(o, x, y, c)
      BY <1>2 DEF OnPath
    <2> HIDE DEF x, y, c, o, p
    <2>3. q.todo \in {<<y, c>>, <<x, y, c>>}
      BY <1>1, <2>1, PairJoined, OneAndTwo DEF Concat
    <2>4. QED
      BY <2>2, <2>3 DEF KeyPaths
  <1>3. CASE r.op \in {"revoke_api_key", "rename_api_key"} /\ (r.op = "rename_api_key" => backend # "store")
    <2> DEFINE c == IF r.op = "revoke_api_key" THEN Do("drop_key") ELSE Do("label")
    <2>1. q.todo = (<<o>> \o p) \o <<c>>
      BY <1>3 DEF Handler, Serves, UserHandler, UserOps, revoke_api_key, rename_api_key, Told
    <2>2. q.todo \in KeyPaths(o, x, y, c) => OnPath(backend, q)
      BY <1>3 DEF OnPath
    <2> HIDE DEF x, y, c, o, p
    <2>3. <<o>> \o p \in {<<o, y>>, <<o, x, y>>}
      BY <1>1, PairJoined, OneAndTwo DEF Concat
    <2>4. <<o, y>> \o <<c>> = <<o, y, c>> /\ <<o, x, y>> \o <<c>> = <<o, x, y, c>>
      BY OneAndTwo, ThreeAndOne DEF Concat
    <2>5. q.todo \in {<<o, y, c>>, <<o, x, y, c>>}
      BY <2>1, <2>3, <2>4
    <2>6. QED
      BY <2>2, <2>5 DEF KeyPaths
  <1>4. CASE r.op = "delete_user"
    <2> DEFINE f == On("exists", e)
               c1 == On("drop_sessions", e)
               c2 == On("delete_rows", e)
               c3 == On("drop_keys", e)
    <2>1. q.todo = (<<f>> \o p) \o <<c1, c2, c3>>
      BY <1>4 DEF Handler, Serves, TopHandler, UserOps, delete_user, revoke_user_access, Told
    <2>2. q.todo \in DeletePaths(f, x, y, c1, c2, c3) => OnPath(backend, q)
      BY <1>4 DEF OnPath
    <2> HIDE DEF x, y, f, c1, c2, c3, p
    <2>3. <<f>> \o p \in {<<f, y>>, <<f, x, y>>}
      BY <1>1, PairJoined, OneAndTwo DEF Concat
    <2>4. /\ <<f, y>> \o <<c1, c2, c3>> = <<f, y, c1, c2, c3>>
          /\ <<f, x, y>> \o <<c1, c2, c3>> = <<f, x, y, c1, c2, c3>>
      BY AndThree DEF Concat
    <2>5. q.todo \in {<<f, y, c1, c2, c3>>, <<f, x, y, c1, c2, c3>>}
      BY <2>1, <2>3, <2>4
    <2>6. QED
      BY <2>2, <2>5 DEF DeletePaths
  <1>5. CASE r.op = "factory_reset"
    <2>1. q.todo = <<Do("remove_tree"), Do("clear"), Do("reset_db")>>
      BY <1>5 DEF Handler, Serves, TopHandler, UserOps
    <2>2. QED
      BY <1>5, <2>1 DEF OnPath, ResetPaths
  <1>6. CASE r.op = "rename_api_key" /\ backend = "store"
    <2> DEFINE c == Do("label")
    <2>1. q.todo = (<<o>> \o <<x>>) \o <<c>>
      BY <1>6 DEF Handler, Serves, UserHandler, UserOps, rename_api_key, Told
    <2>2. q.todo \in KeyPaths(o, x, x, c) => OnPath(backend, q)
      BY <1>6 DEF OnPath
    <2> HIDE DEF x, c, o
    <2>3. <<o>> \o <<x>> = <<o, x>>
      BY PairJoined DEF Concat
    <2>4. <<o, x>> \o <<c>> = <<o, x, c>>
      BY OneAndTwo DEF Concat
    <2>5. QED
      BY <2>1, <2>2, <2>3, <2>4 DEF KeyPaths
  <1>7. CASE r.op \notin {"create_api_key", "revoke_api_key", "rename_api_key", "delete_user", "factory_reset"}
    BY <1>7 DEF OnPath
  <1>8. QED
    BY <1>2, <1>3, <1>4, <1>5, <1>6, <1>7

\* A request that has been served does the first thing on its path, and is over or goes on.
LEMMA StraightOn ==
  ASSUME TypeOK, RequestsInv, NEW p \in Slots, Step(p), ServedStep(p),
         \/ req[p].op \in AccountOps \union KeyOps
         \/ Head(req[p].todo).do \in {"remove_tree", "clear", "reset_db"},
         req'[p] # Nothing
  PROVE  SameRequest(req'[p], req[p]) /\ req'[p].todo = Tail(req[p].todo) /\ Tail(req[p].todo) # <<>>
  <1>1. Busy(p) /\ Head(req[p].todo).do \notin Opening /\ DOMAIN req = Slots
    BY ServedSame DEF RequestsInv
  <1>2. Fits(backend, req[p], Head(req[p].todo)) /\ req[p].todo \in Seq(Steps) /\ req[p].todo # <<>>
    BY <1>1, Served
  <1>3. Head(req[p].todo).do \in Straight \union {"remove_tree", "clear", "reset_db"}
    BY <1>2 DEF Fits
  <1>4. ~Refuse(p)
    BY <1>1, RefuseMoves
  <1>5. Advance(p)
    <2>1. CASE AppendStep(p) \/ ApplyStep(p) \/ Exists(p) \/ OwnsKey(p)
      BY <1>4, <2>1 DEF AppendStep, ApplyStep, Exists, OwnsKey, Pass
    <2>2. CASE drop_sessions(p) \/ delete_rows(p) \/ drop_keys(p) \/ CacheKey(p) \/ DropKey(p) \/ Label(p)
      BY <2>2 DEF drop_sessions, delete_rows, drop_keys, CacheKey, DropKey, Label
    <2>3. ~revoke_share_by_id(p) /\ ~update_share_paths(p) /\ ~delete_shares_under(p) /\ ~OwnsShare(p)
      BY <1>3 DEF revoke_share_by_id, update_share_paths, delete_shares_under, OwnsShare, At, Straight, Cleanup
    <2>4. ~delete_session(p) /\ ~delete_row(p)
      BY <1>3 DEF delete_session, delete_row, At, Straight, Cleanup
    <2>5. ~CacheSession(p) /\ ~RecordUser(p) /\ ~RecordSession(p) /\ ~Seed(p)
      BY <1>3 DEF CacheSession, RecordUser, RecordSession, Seed, At, Straight, Cleanup
    <2>6. CASE RemoveTree(p) \/ factory_reset_state(p) \/ factory_reset(p)
      BY <2>6 DEF RemoveTree, factory_reset_state, factory_reset
    <2>7. QED
      BY <2>1, <2>2, <2>3, <2>4, <2>5, <2>6 DEF ServedStep
  <1>6. SameRequest(req'[p], req[p]) /\ req'[p].todo = <<>> \o Tail(req[p].todo)
        /\ <<>> \o Tail(req[p].todo) # <<>>
    <2>1. InProgress(backend, req'[p])
      BY StepShape
    <2>2. req'[p].todo # <<>>
      BY <2>1 DEF InProgress
    <2>3. QED
      BY <1>1, <1>5, <2>2, ThenSame DEF Advance
  <1>7. Tail(req[p].todo) \in Seq(Steps)
    BY <1>2, StepsOf
  <1>8. QED
    BY <1>6, <1>7, NothingJoined

LEMMA ResetPathTail ==
  ASSUME NEW a, NEW b, NEW c, NEW todo \in ResetPaths(a, b, c), Tail(todo) # <<>>
  PROVE  Tail(todo) \in ResetPaths(a, b, c)
  <1>1. Tail(<<a, b, c>>) = <<b, c>> /\ Tail(<<b, c>>) = <<c>> /\ Tail(<<c>>) = <<>>
    OBVIOUS
  <1>2. QED
    BY <1>1 DEF ResetPaths

LEMMA PathTail ==
  ASSUME NEW b, NEW r, NEW q, OnPath(b, r), SameRequest(q, r), q.todo = Tail(r.todo), q.todo # <<>>
  PROVE  OnPath(b, q)
  <1>1. Told(q) = Told(r) /\ q.op = r.op /\ q.arg = r.arg
    BY DEF Told, SameRequest
  <1> DEFINE x == AppendEntry(Told(r))
             y == ApplyEntry(Told(r))
             e == About("none", r.arg)
             o == Do("owns_key")
             c1 == Do("cache_key")
             c2 == Do("drop_key")
             c3 == Do("label")
             z == IF b = "store" THEN x ELSE y
             d0 == On("exists", e)
             d1 == On("drop_sessions", e)
             d2 == On("delete_rows", e)
             d3 == On("drop_keys", e)
             r1 == Do("remove_tree")
             r2 == Do("clear")
             r3 == Do("reset_db")
  <1>2. /\ r.op = "create_api_key" => r.todo \in KeyPaths(o, x, y, c1)
        /\ r.op = "revoke_api_key" => r.todo \in KeyPaths(o, x, y, c2)
        /\ r.op = "rename_api_key" => r.todo \in KeyPaths(o, x, z, c3)
        /\ r.op = "delete_user" => r.todo \in DeletePaths(d0, x, y, d1, d2, d3)
        /\ r.op = "factory_reset" => r.todo \in ResetPaths(r1, r2, r3)
    BY DEF OnPath
  <1>3. OnPath(b, q) <=>
        /\ r.op = "create_api_key" => q.todo \in KeyPaths(o, x, y, c1)
        /\ r.op = "revoke_api_key" => q.todo \in KeyPaths(o, x, y, c2)
        /\ r.op = "rename_api_key" => q.todo \in KeyPaths(o, x, z, c3)
        /\ r.op = "delete_user" => q.todo \in DeletePaths(d0, x, y, d1, d2, d3)
        /\ r.op = "factory_reset" => q.todo \in ResetPaths(r1, r2, r3)
    BY <1>1 DEF OnPath
  <1> HIDE DEF x, y, z, e, o, c1, c2, c3, d0, d1, d2, d3, r1, r2, r3
  <1>4. QED
    BY <1>2, <1>3, KeyPathTail, DeletePathTail, ResetPathTail

LEMMA FirstOf ==
  ASSUME NEW a, NEW b, NEW c
  PROVE  /\ <<a>> # <<>> /\ Head(<<a>>) = a
         /\ <<a, b>> # <<>> /\ Head(<<a, b>>) = a
         /\ <<a, b, c>> # <<>> /\ Head(<<a, b, c>>) = a
  OBVIOUS

\* After the entry the cache is told.
LEMMA PathAhead ==
  ASSUME NEW b, NEW r, OnPath(b, r)
  PROVE  LET d == Head(r.todo).do
             next == Head(Tail(r.todo)).do
         IN  /\ r.op = "create_api_key" /\ d = "apply" => Tail(r.todo) # <<>> /\ next = "cache_key"
             /\ r.op = "revoke_api_key" /\ d = "apply" => Tail(r.todo) # <<>> /\ next = "drop_key"
             /\ r.op = "rename_api_key" /\ d = "apply" /\ b # "store" =>
                   Tail(r.todo) # <<>> /\ next = "label" /\ Head(r.todo).x = Relabel(r.arg.key, r.arg.label)
             /\ r.op = "create_api_key" /\ d = "cache_key" => Tail(r.todo) = <<>>
             /\ r.op = "delete_user" =>
                   /\ d = "apply" => Tail(r.todo) # <<>> /\ next = "drop_sessions"
                   /\ d = "drop_sessions" => Tail(r.todo) # <<>> /\ next = "delete_rows"
                   /\ d = "delete_rows" => Tail(r.todo) # <<>> /\ next = "drop_keys"
  <1> DEFINE x == AppendEntry(Told(r))
             y == ApplyEntry(Told(r))
             e == About("none", r.arg)
             o == Do("owns_key")
             d0 == On("exists", e)
             d1 == On("drop_sessions", e)
             d2 == On("delete_rows", e)
             d3 == On("drop_keys", e)
  <1>1. /\ x.do = "append" /\ y.do = "apply" /\ o.do = "owns_key" /\ d0.do = "exists"
        /\ d1.do = "drop_sessions" /\ d2.do = "delete_rows" /\ d3.do = "drop_keys"
    BY DEF AppendEntry, ApplyEntry, Do, On
  <1>2. ASSUME NEW last \in {"cache_key", "drop_key", "label"}, Head(r.todo).do = "apply",
               r.todo \in KeyPaths(o, x, y, Do(last))
        PROVE  Tail(r.todo) # <<>> /\ Head(Tail(r.todo)).do = last /\ Head(r.todo) = y
    <2> DEFINE c == Do(last)
    <2>1. c.do = last /\ c.do # "apply"
      BY DEF Do
    <2>2. r.todo \in KeyPaths(o, x, y, c)
      BY <1>2
    <2> HIDE DEF x, y, o, c
    <2>3. Head(r.todo) = y
      BY <1>1, <1>2, <2>1, <2>2 DEF KeyPaths
    <2>4. y \notin {o, x, c}
      BY <1>1, <2>1
    <2>5. Tail(r.todo) = <<c>>
      <3> DEFINE todo == r.todo
      <3>1. todo \in KeyPaths(o, x, y, c) /\ Head(todo) = y
        BY <2>2, <2>3
      <3> HIDE DEF todo
      <3>2. todo = <<y, c>>
        BY <2>4, <3>1 DEF KeyPaths
      <3>3. Tail(<<y, c>>) = <<c>>
        OBVIOUS
      <3>4. QED
        BY <3>2, <3>3 DEF todo
    <2>6. QED
      BY <2>1, <2>3, <2>5, FirstOf
  <1>3. ASSUME r.op = "delete_user"
        PROVE  /\ Head(r.todo).do = "apply" => Tail(r.todo) # <<>> /\ Head(Tail(r.todo)).do = "drop_sessions"
               /\ Head(r.todo).do = "drop_sessions" => Tail(r.todo) # <<>> /\ Head(Tail(r.todo)).do = "delete_rows"
               /\ Head(r.todo).do = "delete_rows" => Tail(r.todo) # <<>> /\ Head(Tail(r.todo)).do = "drop_keys"
    <2>1. r.todo \in DeletePaths(d0, x, y, d1, d2, d3)
      BY <1>3 DEF OnPath
    <2> HIDE DEF x, y, d0, d1, d2, d3
    <2>2. Head(r.todo) \in {d0, x, y, d1, d2, d3}
      BY <2>1 DEF DeletePaths
    <2>3. /\ y \notin {d0, x, d1, d2, d3} /\ d1 \notin {d0, x, y, d2, d3}
          /\ d2 \notin {d0, x, y, d1, d3}
      BY <1>1
    <2>4. /\ Head(r.todo).do = "apply" => Head(r.todo) = y
          /\ Head(r.todo).do = "drop_sessions" => Head(r.todo) = d1
          /\ Head(r.todo).do = "delete_rows" => Head(r.todo) = d2
      BY <1>1, <2>2
    <2>5. /\ Head(r.todo) = y => Tail(r.todo) = <<d1, d2, d3>>
          /\ Head(r.todo) = d1 => Tail(r.todo) = <<d2, d3>>
          /\ Head(r.todo) = d2 => Tail(r.todo) = <<d3>>
      <3> DEFINE todo == r.todo
      <3>1. todo \in DeletePaths(d0, x, y, d1, d2, d3)
        BY <2>1
      <3> HIDE DEF todo
      <3>2. Head(todo) = y /\ y \notin {d0, x, d1, d2, d3} => Tail(todo) = <<d1, d2, d3>>
        BY <3>1, DeletePathHeads
      <3>3. Head(todo) = d1 /\ d1 \notin {d0, x, y, d2, d3} => Tail(todo) = <<d2, d3>>
        BY <3>1, DeletePathHeads
      <3>4. Head(todo) = d2 /\ d2 \notin {d0, x, y, d1, d3} => Tail(todo) = <<d3>>
        BY <3>1, DeletePathHeads
      <3>5. QED
        BY <2>3, <3>2, <3>3, <3>4 DEF todo
    <2>6. /\ <<d1, d2, d3>> # <<>> /\ Head(<<d1, d2, d3>>) = d1
          /\ <<d2, d3>> # <<>> /\ Head(<<d2, d3>>) = d2
          /\ <<d3>> # <<>> /\ Head(<<d3>>) = d3
      BY FirstOf
    <2>7. QED
      BY <1>1, <2>4, <2>5, <2>6
  <1>4. /\ r.op = "create_api_key" => r.todo \in KeyPaths(o, x, y, Do("cache_key"))
        /\ r.op = "revoke_api_key" => r.todo \in KeyPaths(o, x, y, Do("drop_key"))
        /\ r.op = "rename_api_key" /\ b # "store" => r.todo \in KeyPaths(o, x, y, Do("label"))
    BY DEF OnPath
  <1>5. r.op = "rename_api_key" => y.x = Relabel(r.arg.key, r.arg.label)
    BY DEF ApplyEntry, Told
  <1>6. ASSUME r.op = "create_api_key", Head(r.todo).do = "cache_key"
        PROVE  Tail(r.todo) = <<>>
    <2> DEFINE c == Do("cache_key")
               todo == r.todo
    <2>1. c.do = "cache_key"
      BY DEF Do
    <2>2. todo \in KeyPaths(o, x, y, c) /\ Head(todo).do = "cache_key"
      BY <1>4, <1>6
    <2> HIDE DEF x, y, o, c, todo
    <2>3. x # c /\ y # c /\ o # c
      BY <1>1, <2>1
    <2>4. Head(todo) \in {o, x, y, c}
      BY <2>2 DEF KeyPaths
    <2>5. Head(todo) = c
      BY <1>1, <2>2, <2>4
    <2>6. todo = <<c>>
      BY <2>2, <2>3, <2>5 DEF KeyPaths
    <2>7. Tail(<<c>>) = <<>>
      OBVIOUS
    <2>8. QED
      BY <2>6, <2>7 DEF todo
  <1> HIDE DEF x, y, o
  <1>7. QED
    BY <1>2, <1>3, <1>4, <1>5, <1>6

PathOps == KeyOps \union {"delete_user", "factory_reset"}

\* The steps of a renaming.
LEMMA RenameHead ==
  ASSUME NEW b, NEW r, OnPath(b, r), r.op = "rename_api_key"
  PROVE  Head(r.todo).do \in {"owns_key", "append", "label"} \union (IF b = "store" THEN {} ELSE {"apply"})
  <1> DEFINE o == Do("owns_key")
             x == AppendEntry(Told(r))
             y == ApplyEntry(Told(r))
             z == IF b = "store" THEN x ELSE y
             c == Do("label")
  <1>1. o.do = "owns_key" /\ x.do = "append" /\ y.do = "apply" /\ c.do = "label"
    BY DEF Do, AppendEntry, ApplyEntry
  <1>2. r.todo \in KeyPaths(o, x, z, c)
    BY DEF OnPath
  <1>3. z.do = IF b = "store" THEN "append" ELSE "apply"
    BY <1>1
  <1> HIDE DEF o, x, y, z, c
  <1>4. Head(r.todo) \in {o, x, z, c}
    BY <1>2 DEF KeyPaths
  <1>5. QED
    BY <1>1, <1>3, <1>4

\* The steps of a factory reset.
LEMMA ResetHead ==
  ASSUME NEW b, NEW r, OnPath(b, r), r.op = "factory_reset"
  PROVE  Head(r.todo).do \in {"remove_tree", "clear", "reset_db"}
  <1> DEFINE r1 == Do("remove_tree")
             r2 == Do("clear")
             r3 == Do("reset_db")
  <1>1. r1.do = "remove_tree" /\ r2.do = "clear" /\ r3.do = "reset_db"
    BY DEF Do
  <1>2. r.todo \in ResetPaths(r1, r2, r3)
    BY DEF OnPath
  <1> HIDE DEF r1, r2, r3
  <1>3. Head(r.todo) \in {r1, r2, r3}
    BY <1>2, FirstOf DEF ResetPaths
  <1>4. QED
    BY <1>1, <1>3

LEMMA StepKeepsPaths ==
  ASSUME TypeOK, RequestsInv, PathsInv, NEW p \in Slots, Step(p)
  PROVE  PathsInv'
  <1>0. backend' = backend
    BY StepKeeps
  <1>1. /\ Busy(p) /\ InProgress(backend, req[p]) /\ backend' = backend
        /\ \A q \in Slots : q # p => req'[q] = req[q]
        /\ \/ req'[p] = Nothing
           \/ InProgress(backend, req'[p]) /\ req'[p].op = req[p].op
    BY <1>0, StepShape
  <1>2. Fits(backend, req[p], Head(req[p].todo))
    BY <1>1, InProgressFields
  <1>3. ASSUME req'[p] # Nothing, Head(req'[p].todo).do \notin Opening
        PROVE  OnPath(backend, req'[p])
    <2>1. CASE req[p].op \notin PathOps
      <3>1. req'[p].op \notin PathOps
        BY <1>1, <1>3, <2>1
      <3>2. QED
        BY <3>1 DEF OnPath, PathOps, KeyOps
    <2> SUFFICES ASSUME req[p].op \in PathOps
                 PROVE  OnPath(backend, req'[p])
      BY <2>1
    <2>2. req[p].op # "login"
      BY DEF PathOps, KeyOps
    <2>3. CASE ServedStep(p)
      <3>1. Head(req[p].todo).do \notin Opening
        BY <2>3, ServedSame
      <3>2. OnPath(backend, req[p])
        BY <1>1, <3>1 DEF PathsInv
      <3>3. SameRequest(req'[p], req[p]) /\ req'[p].todo = Tail(req[p].todo) /\ req'[p].todo # <<>>
        <4>1. \/ req[p].op \in AccountOps \union KeyOps
              \/ Head(req[p].todo).do \in {"remove_tree", "clear", "reset_db"}
          BY <3>2, ResetHead DEF PathOps, AccountOps
        <4>2. QED
          BY <1>3, <2>3, <4>1, StraightOn
      <3>4. QED
        BY <3>2, <3>3, PathTail
    <2>4. CASE ConfirmSession(p) \/ ConfirmKey(p)
      <3>1. ~Refuse(p)
        BY <1>3, RefuseMoves DEF RequestsInv
      <3>2. PICK user : Serve(p, user)
        BY <2>4, <3>1 DEF ConfirmSession, ConfirmKey
      <3>3. PICK r : /\ r.op = req'[p].op /\ r.arg = req'[p].arg /\ r.user = req'[p].user
                     /\ req'[p].todo = Handler(r).todo
        BY <1>1, <1>3, <3>2, ServeSame
      <3>4. QED
        BY <3>3, HandlerPath
    <2>5. CASE Lookup(p)
      <3>1. req'[p].todo = <<Do("confirm")>>
        BY <1>3, <2>5, LookupFinds
      <3>2. Head(<<Do("confirm")>>).do = "confirm"
        BY DEF Do
      <3>3. QED
        BY <1>3, <3>1, <3>2 DEF Opening
    <2>6. ~Allowed(p) /\ ~LoginRole(p) /\ ~LoginActive(p)
      BY <1>2, <2>2 DEF Fits, LoginSteps, Allowed, LoginRole, LoginActive, At
    <2>7. QED
      BY <2>3, <2>4, <2>5, <2>6 DEF Step, ServedStep
  <1>4. \A q \in Slots : Busy(q)' => req'[q] # Nothing
    BY DEF Busy, Idle
  <1>5. ASSUME NEW q \in Slots, q # p, Busy(q)', Head(req'[q].todo).do \notin Opening
        PROVE  OnPath(backend, req'[q])
    BY <1>1, <1>5 DEF PathsInv, Busy, Idle
  <1> HIDE DEF Busy
  <1>6. QED
    BY <1>1, <1>3, <1>4, <1>5 DEF PathsInv

LEMMA PathsStay ==
  ASSUME AuthInv, PathsInv, [Next]_vars
  PROVE  PathsInv'
  <1>1. TypeOK /\ RequestsInv
    BY DEF AuthInv
  <1>2. ASSUME NEW p \in Slots, Begin(p)
        PROVE  PathsInv'
    <2>1. /\ \A q \in Slots : q # p /\ Busy(q) => SameRequest(req'[q], req[q]) /\ req'[q].todo = req[q].todo
          /\ \A q \in Slots : Busy(q)' => q = p \/ Busy(q)
          /\ req'[p].todo = Identified \/ req'[p].todo = LoggingIn
      BY <1>1, <1>2, BeginShape
    <2>2. Head(req'[p].todo).do \in Opening
      <3> DEFINE a == Do("lookup")
                 b == Do("confirm")
                 c == Do("allowed")
                 d == Do("login_role")
                 e == Do("is_active")
      <3>1. Identified = <<a, b>> /\ LoggingIn = <<c, d, e>> /\ a.do \in Opening /\ c.do \in Opening
        BY DEF Identified, LoggingIn, Opening, Do
      <3> HIDE DEF a, b, c, d, e
      <3>2. QED
        BY <2>1, <3>1, FirstOf
    <2>3. ASSUME NEW q \in Slots, q # p, Busy(q), Head(req'[q].todo).do \notin Opening
          PROVE  OnPath(backend, req'[q])
      <3>1. OnPath(backend, req[q]) /\ SameRequest(req'[q], req[q]) /\ req'[q].todo = req[q].todo
        BY <2>1, <2>3 DEF PathsInv
      <3>2. Told(req'[q]) = Told(req[q])
        BY <3>1 DEF Told, SameRequest
      <3>3. QED
        BY <3>1, <3>2 DEF OnPath, SameRequest
    <2>4. backend' = backend
      BY BackendStays
    <2> HIDE DEF Busy
    <2>5. QED
      BY <2>1, <2>2, <2>3, <2>4 DEF PathsInv
  <1>3. CASE \E p \in Slots : Step(p)
    BY <1>1, <1>3, StepKeepsPaths
  <1>4. CASE \E s \in Sessions : Expire(s)
    BY <1>4 DEF Expire, PathsInv, Busy, Idle
  <1>5. CASE Restart
    <2>1. \A p \in Slots : ~Busy(p)'
      BY <1>5 DEF Restart, Busy, Idle
    <2> HIDE DEF Busy
    <2>2. QED
      BY <2>1 DEF PathsInv
  <1>6. CASE UNCHANGED vars
    BY <1>6 DEF vars, PathsInv, Busy, Idle
  <1>7. QED
    BY <1>2, <1>3, <1>4, <1>5, <1>6 DEF Next

\* The first of them.
LEMMA HandlerFirst ==
  ASSUME NEW r, NEW q, q.op = r.op, q.arg = r.arg, q.user = r.user, q.todo = Handler(r).todo
  PROVE  /\ q.op = "create_api_key" => Head(q.todo).do \in {"append", "apply"}
         /\ q.op = "rename_api_key" => Head(q.todo).do = "owns_key"
         /\ q.op = "factory_reset" => Head(q.todo).do = "remove_tree"
  <1> DEFINE a == KeyEntry(r.arg.key, r.user.email, r.arg.label)
             b == Relabel(r.arg.key, r.arg.label)
             o == Do("owns_key")
             c == Do("cache_key")
             d == Do("label")
             x == AppendEntry(a)
             y == ApplyEntry(a)
             z == AppendEntry(b)
             w == ApplyEntry(b)
  <1>1. x.do = "append" /\ y.do = "apply" /\ o.do = "owns_key"
    BY DEF AppendEntry, ApplyEntry, Do
  <1>2. CASE r.op = "create_api_key"
    <2>1. q.todo = (IF backend = "pg" THEN <<y>> ELSE <<x, y>>) \o <<c>>
      BY <1>2 DEF Handler, Serves, UserHandler, UserOps, create_api_key, Persist
    <2> HIDE DEF x, y, c
    <2>2. q.todo \in {<<y, c>>, <<x, y, c>>}
      BY <2>1, PairJoined, OneAndTwo DEF Concat
    <2>3. Head(q.todo) \in {x, y}
      BY <2>2, FirstOf
    <2>4. QED
      BY <1>1, <1>2, <2>3
  <1>3. CASE r.op = "rename_api_key"
    <2>1. q.todo = (<<o>> \o (IF backend = "store" THEN <<z>> ELSE IF backend = "pg" THEN <<w>> ELSE <<z, w>>))
                     \o <<d>>
      BY <1>3 DEF Handler, Serves, UserHandler, UserOps, rename_api_key, Persist
    <2> HIDE DEF z, w, o, d
    <2>2. <<o>> \o <<z>> = <<o, z>> /\ <<o>> \o <<w>> = <<o, w>> /\ <<o>> \o <<z, w>> = <<o, z, w>>
      BY PairJoined, OneAndTwo DEF Concat
    <2>3. /\ <<o, z>> \o <<d>> = <<o, z, d>> /\ <<o, w>> \o <<d>> = <<o, w, d>>
          /\ <<o, z, w>> \o <<d>> = <<o, z, w, d>>
      BY OneAndTwo, ThreeAndOne DEF Concat
    <2>4. q.todo \in {<<o, z, d>>, <<o, w, d>>, <<o, z, w, d>>}
      BY <2>1, <2>2, <2>3
    <2>5. Head(<<o, z, w, d>>) = o
      OBVIOUS
    <2>6. Head(q.todo) = o
      BY <2>4, <2>5, FirstOf
    <2>7. QED
      BY <1>1, <1>3, <2>6
  <1>4. CASE r.op = "factory_reset"
    <2> DEFINE r1 == Do("remove_tree")
               r2 == Do("clear")
               r3 == Do("reset_db")
    <2>1. q.todo = <<r1, r2, r3>> /\ r1.do = "remove_tree"
      BY <1>4 DEF Handler, Serves, TopHandler, UserOps, Do
    <2> HIDE DEF r1, r2, r3
    <2>2. QED
      BY <1>4, <2>1, FirstOf
  <1>5. QED
    BY <1>2, <1>3, <1>4

-----------------------------------------------------------------------------
(* One request at a time revokes or renames *)

LEMMA OwesRemoves ==
  ASSUME RequestsInv, NEW q \in Slots, Busy(q), NEW k, NEW u, Owes(req[q], k, u)
  PROVE  /\ Head(req[q].todo).do \in {"drop_key", "label"} \union Cleanup
         /\ Head(req[q].todo).do \notin Opening /\ req[q].op \in Removing
  <1>1. Head(req[q].todo).do \in {"drop_key", "label"} \union Cleanup
    BY DEF Owes
  <1>2. Head(req[q].todo).do \notin Opening
    BY <1>1 DEF Opening, Cleanup
  <1>3. Fits(backend, req[q], Head(req[q].todo))
    BY <1>2, Served
  <1>4. QED
    BY <1>1, <1>2, <1>3 DEF Owes, Fits, Removing

LEMMA OtherRemovals ==
  ASSUME RequestsInv, Undisturbed, NEW p \in Slots, NEW q \in Slots, p # q, Busy(p), Busy(q)
  PROVE  req[p].op \notin Removing /\ req[q].op \notin Removing
  <1>1. {req[p].op, req[q].op} \in met
    BY DEF RequestsInv
  <1>2. {req[p].op, req[q].op} \intersect Removing = {}
    BY <1>1 DEF Undisturbed
  <1>3. QED
    BY <1>2

\* Whoever does not revoke, rename or delete anything leaves what is known of a key as it is,
\* and caches stored keys only.
Grows(t, u, cache, new, r) ==
    /\ \A k \in Keys : t.keys[k] # Nobody => u.keys[k] = t.keys[k]
    /\ \A k \in Keys : t.keys[k] = Nobody /\ u.keys[k] # Nobody =>
          r.op = "create_api_key" /\ Head(r.todo).do = "apply" /\ r.arg.key = k
    /\ \A k \in Keys : new[k] # NoUser /\ new[k] # cache[k] => Stored(t.keys, k, new[k].email, new[k].label)
    /\ \A e \in Emails : IsUser(t, e) => IsUser(u, e)

LEMMA StepGrows ==
  ASSUME TypeOK, RequestsInv, KeysInv, Undisturbed, NEW p \in Slots, Step(p),
         Head(req[p].todo).do \in Opening \/ req[p].op \notin Removing
  PROVE  Grows(tables, tables', api_key_cache, api_key_cache', req[p])
  <1> DEFINE r == req[p]
             x == Arg(p)
  <1>1. Busy(p) /\ tables \in Tables
    BY StepShape DEF TypeOK
  <1>2. Relies(backend, tables, api_key_cache, r, Head(r.todo).do)
    BY <1>1 DEF KeysInv
  <1>3. ASSUME NEW d, At(p, d), d \notin Opening
        PROVE  /\ r.op \notin Removing /\ Head(r.todo).do = d
               /\ Fits(backend, r, Head(r.todo)) /\ Called(r) /\ Knows(r)
    BY <1>3, AtServed
  <1>4. \A d \in {"apply", "label", "cache_key", "drop_key", "clear"} : d \notin Opening
    BY DEF Opening
  <1>5. ~Label(p) /\ ~DropKey(p) /\ ~factory_reset_state(p)
    BY <1>3, <1>4 DEF Fits, Removing, Label, DropKey, factory_reset_state
  <1>6. /\ \A k \in Keys : tables.keys[k] # Nobody => tables'.keys[k] = tables.keys[k]
        /\ \A k \in Keys : tables.keys[k] = Nobody /\ tables'.keys[k] # Nobody =>
              r.op = "create_api_key" /\ Head(r.todo).do = "apply" /\ r.arg.key = k
        /\ \A e \in Emails : IsUser(tables, e) => IsUser(tables', e)
    <2>1. CASE ApplyStep(p) /\ tables' = Changed(tables, x) /\ x \in Entries
      <3>1. At(p, "apply") /\ r.op \notin Removing /\ Head(r.todo).do = "apply"
        BY <1>3, <1>4, <2>1 DEF ApplyStep
      <3>2. Writes(r, x)
        BY <3>1, EntryArg
      <3>3. x.kind \notin {"api-key-revoke", "api-key-relabel", "user-delete"}
        BY <3>1, <3>2 DEF Writes, Removing
      <3>4. x.kind = "api-key" => r.op = "create_api_key" /\ x.key = r.arg.key /\ tables.keys[x.key] = Nobody
        BY <1>2, <3>1, <3>2 DEF Writes, Relies, KeyEntry
      <3>5. \A k \in Keys : KeyChanged(tables, x, k, tables'.keys[k])
        BY <1>1, <2>1, ChangedKeys
      <3>6. \A e \in Emails : IsUser(tables, e) => IsUser(tables', e)
        BY <1>1, <2>1, <3>3, ChangedIsUser
      <3> HIDE DEF r, x
      <3>7. QED
        BY <3>1, <3>3, <3>4, <3>5, <3>6 DEF KeyChanged
    <2>2. CASE tables'.keys = tables.keys /\ tables'.users = tables.users
      BY <2>2 DEF IsUser
    <2>3. r.op # "factory_reset" \/ Head(r.todo).do \in Opening
      BY DEF Removing
    <2>4. QED
      BY <1>5, <2>1, <2>2, <2>3, StepKeysTables
  <1>7. ASSUME NEW k \in Keys, api_key_cache'[k] # NoUser, api_key_cache'[k] # api_key_cache[k]
        PROVE  Stored(tables.keys, k, api_key_cache'[k].email, api_key_cache'[k].label)
    <2>1. CASE ConfirmKey(p)
      <3>1. At(p, "confirm") /\ r.cred \in Keys /\ r.cred \notin Sessions
        BY <2>1, AuthAssumption DEF ConfirmKey
      <3>2. ~r.cached /\ k = r.cred /\ api_key_cache'[k] = r.user
        BY <1>7, <2>1 DEF ConfirmKey, TypeOK
      <3>3. Stored(tables.keys, r.cred, r.user.email, r.user.label)
        BY <1>2, <3>1, <3>2 DEF Relies, At
      <3>4. QED
        BY <3>2, <3>3
    <2>2. CASE CacheKey(p)
      <3> DEFINE new == [r.user EXCEPT !.label = r.arg.label]
      <3>1. At(p, "cache_key")
        BY <2>2 DEF CacheKey
      <3>2. r.op = "create_api_key" /\ Head(r.todo).do = "cache_key" /\ r.user \in Users
        BY <1>3, <1>4, <3>1 DEF Fits, Knows
      <3>3. k = r.arg.key /\ api_key_cache'[k] = new
        BY <1>7, <2>2 DEF CacheKey, TypeOK
      <3>4. new.email = r.user.email /\ new.label = r.arg.label
        BY <3>2 DEF Users
      <3>5. Stored(tables.keys, r.arg.key, r.user.email, r.arg.label)
        BY <1>2, <3>2 DEF Relies
      <3>6. QED
        BY <3>3, <3>4, <3>5
    <2>3. CASE drop_keys(p)
      BY <1>7, <2>3 DEF drop_keys, Dropped, TypeOK
    <2>4. QED
      BY <1>5, <1>7, <2>1, <2>2, <2>3, StepKeysCache
  <1>8. \A k \in Keys : api_key_cache'[k] # NoUser /\ api_key_cache'[k] # api_key_cache[k] =>
              Stored(tables.keys, k, api_key_cache'[k].email, api_key_cache'[k].label)
    BY <1>7
  <1>9. QED
    BY <1>6, <1>8 DEF Grows

LEMMA ReliesStill ==
  ASSUME NEW b, NEW t, NEW u, NEW cache, NEW new, NEW r, NEW q, NEW step,
         Grows(t, u, cache, new, r), Relies(b, t, cache, q, step),
         q.op \notin Removing, q.cred \in Sessions \union Keys,
         step = "reset_db" => q.op = "factory_reset",
         q.op = "create_api_key" => q.arg.key \in Keys /\ (r.op = "create_api_key" => r.arg.key # q.arg.key),
         q.op = "create_api_key" =>
            step = "lookup" \/ (step = "confirm" /\ (q.cred \in Sessions \/ q.cached)) \/ q.user.email \in Emails
  PROVE  Relies(b, u, new, q, step)
  <1>1. step # "reset_db" /\ q.op # "rename_api_key"
    BY DEF Removing
  <1>2. ASSUME NEW k \in Keys, NEW e, NEW l, Stored(t.keys, k, e, l)
        PROVE  Stored(u.keys, k, e, l)
    BY <1>2 DEF Grows, Stored
  <1>3. step = "confirm" /\ q.cred \notin Sessions /\ ~q.cached => Stored(u.keys, q.cred, q.user.email, q.user.label)
    BY <1>2 DEF Relies
  <1>4. ASSUME q.op = "create_api_key", step # "cache_key"
        PROVE  u.keys[q.arg.key] = Nobody /\ new[q.arg.key] = NoUser
    <2> DEFINE k == q.arg.key
    <2>1. t.keys[k] = Nobody /\ cache[k] = NoUser /\ k \in Keys
      BY <1>4 DEF Relies
    <2>2. u.keys[k] = Nobody
      BY <1>4, <2>1 DEF Grows
    <2>3. new[k] = NoUser
      BY <2>1 DEF Grows, Stored
    <2>4. QED
      BY <2>2, <2>3
  <1>5. q.op = "create_api_key" /\ step = "cache_key" => Stored(u.keys, q.arg.key, q.user.email, q.arg.label)
    BY <1>2 DEF Relies
  <1>6. q.op = "create_api_key" /\ b = "pg" =>
            \/ step = "lookup"
            \/ step = "confirm" /\ (q.cred \in Sessions \/ q.cached)
            \/ IsUser(u, q.user.email)
    BY DEF Relies, Grows
  <1>7. QED
    BY <1>1, <1>3, <1>4, <1>5, <1>6 DEF Relies

\* A request that creates a key knows its user from the moment the user is found.
LEMMA CreatorKnown ==
  ASSUME NEW b, NEW q, InProgress(b, q), q.op = "create_api_key"
  PROVE  /\ q.cred \in Sessions \union Keys /\ q.arg.key \in Keys /\ q.arg.label \in Labels
         /\ \/ Head(q.todo).do = "lookup"
            \/ Head(q.todo).do = "confirm" /\ (q.cred \in Sessions \/ q.cached)
            \/ q.user.email \in Emails
  <1>1. Called(q) /\ Entered(q, Head(q.todo).do) /\ Fits(b, q, Head(q.todo))
    BY InProgressFields DEF InProgress
  <1>2. q.cred \in Sessions \union Keys /\ q.arg \in [key : Keys, label : Labels]
    BY <1>1 DEF Called, KeyOps
  <1>3. Head(q.todo).do \notin {"allowed", "login_role"}
    BY <1>1 DEF Fits, LoginSteps
  <1>4. q.user \in Users => q.user.email \in Emails
    BY DEF Users
  <1>5. QED
    BY <1>1, <1>2, <1>3, <1>4 DEF Entered

\* Whatever a request does, what the others rely on stays.
LEMMA OthersRely ==
  ASSUME TypeOK, RequestsInv, IdsInv, KeysInv, Undisturbed, NEW p \in Slots, Step(p),
         NEW q \in Slots, q # p, Busy(q)
  PROVE  Relies(backend, tables', api_key_cache', req[q], Head(req[q].todo).do)
  <1> DEFINE step == Head(req[q].todo).do
  <1>1. Busy(p) /\ InProgress(backend, req[q])
    BY StepShape DEF RequestsInv
  <1>2. req[p].op \notin Removing /\ req[q].op \notin Removing
    BY <1>1, OtherRemovals
  <1>3. Grows(tables, tables', api_key_cache, api_key_cache', req[p])
    BY <1>2, StepGrows
  <1>4. Relies(backend, tables, api_key_cache, req[q], step)
    BY DEF KeysInv
  <1>5. /\ req[q].cred \in Sessions \union Keys
        /\ step = "reset_db" => req[q].op = "factory_reset"
    <2>1. Called(req[q]) /\ Fits(backend, req[q], Head(req[q].todo))
      BY <1>1, InProgressFields DEF InProgress
    <2>2. QED
      BY <2>1 DEF Called, Fits
  <1>6. req[q].op = "create_api_key" =>
            /\ req[q].arg.key \in Keys
            /\ req[p].op = "create_api_key" => req[p].arg.key # req[q].arg.key
            /\ \/ step = "lookup"
               \/ step = "confirm" /\ (req[q].cred \in Sessions \/ req[q].cached)
               \/ req[q].user.email \in Emails
    BY <1>1, CreatorKnown DEF IdsInv
  <1> DEFINE u == tables'
             new == api_key_cache'
  <1> HIDE DEF step, u, new
  <1>7. Grows(tables, u, api_key_cache, new, req[p])
    BY <1>3 DEF u, new
  <1>8. Relies(backend, u, new, req[q], step)
    BY <1>2, <1>4, <1>5, <1>6, <1>7, ReliesStill
  <1>9. QED
    BY <1>8 DEF u, new, step

\* How a request goes on until it is served.
LEMMA OpeningGoesOn ==
  ASSUME TypeOK, RequestsInv, NEW p \in Slots, Step(p), req'[p] # Nothing,
         Head(req[p].todo).do \in Opening, req[p].op # "login"
  PROVE  \/ Lookup(p) /\ Head(req'[p].todo).do = "confirm"
         \/ /\ Head(req[p].todo).do = "confirm" /\ req'[p].cached = req[p].cached
            /\ \/ req[p].cred \in Sessions /\ Active(tables, req'[p].user.email)
               \/ /\ req[p].cred \notin Sessions /\ req'[p].user = req[p].user
                  /\ req[p].cached => Active(tables, req'[p].user.email)
            /\ req'[p].op = "create_api_key" => Head(req'[p].todo).do \in {"append", "apply"}
            /\ req'[p].op = "rename_api_key" => Head(req'[p].todo).do = "owns_key"
            /\ req'[p].op = "factory_reset" => Head(req'[p].todo).do = "remove_tree"
  <1> DEFINE r == req[p]
  <1>1. Busy(p) /\ Fits(backend, r, Head(r.todo)) /\ DOMAIN req = Slots
    BY StepShape, InProgressFields DEF RequestsInv
  <1>2. ~Refuse(p)
    BY <1>1, RefuseMoves
  <1>3. ~Allowed(p) /\ ~LoginRole(p) /\ ~LoginActive(p)
    BY <1>1 DEF Fits, LoginSteps, Allowed, LoginRole, LoginActive, At
  <1>4. ~ServedStep(p)
    BY ServedSame
  <1>5. CASE Lookup(p)
    <2>1. req'[p].todo = <<Do("confirm")>>
      BY <1>5, LookupFinds
    <2>2. Head(<<Do("confirm")>>).do = "confirm"
      BY DEF Do
    <2>3. QED
      BY <1>5, <2>1, <2>2
  <1>6. ASSUME NEW user, Serve(p, user)
        PROVE  /\ req'[p].op = r.op /\ req'[p].cached = r.cached /\ req'[p].user = user
               /\ req'[p].op = "create_api_key" => Head(req'[p].todo).do \in {"append", "apply"}
               /\ req'[p].op = "rename_api_key" => Head(req'[p].todo).do = "owns_key"
               /\ req'[p].op = "factory_reset" => Head(req'[p].todo).do = "remove_tree"
    <2>1. /\ req'[p].op = r.op /\ req'[p].cred = r.cred /\ req'[p].arg = r.arg
          /\ req'[p].user = user /\ req'[p].cached = r.cached
          /\ \E h : /\ h.op = r.op /\ h.arg = r.arg /\ h.user = user /\ h.cred = r.cred
                    /\ req'[p].todo = Handler(h).todo
      BY <1>1, <1>6, ServeSame
    <2>2. PICK h : /\ h.op = r.op /\ h.arg = r.arg /\ h.user = user
                   /\ req'[p].todo = Handler(h).todo
      BY <2>1
    <2> DEFINE q == req'[p]
    <2>3. q.op = h.op /\ q.arg = h.arg /\ q.user = h.user /\ q.todo = Handler(h).todo
      BY <2>1, <2>2
    <2> HIDE DEF q
    <2>4. /\ q.op = "create_api_key" => Head(q.todo).do \in {"append", "apply"}
          /\ q.op = "rename_api_key" => Head(q.todo).do = "owns_key"
          /\ q.op = "factory_reset" => Head(q.todo).do = "remove_tree"
      BY <2>3, HandlerFirst
    <2>5. QED
      BY <2>1, <2>4 DEF q
  <1>7. CASE ConfirmSession(p)
    <2> DEFINE e == Who(p)
               fresh == IF r.cached THEN r.user
                        ELSE [NoUser EXCEPT !.email = e, !.role = resolve_role(tables, e)]
    <2>1. r.cred \in Sessions /\ Head(r.todo).do = "confirm" /\ Active(tables, e) /\ Serve(p, fresh)
      BY <1>2, <1>7 DEF ConfirmSession, At
    <2>2. fresh.email = e
      BY DEF NoUser, Who
    <2> HIDE DEF fresh
    <2>3. QED
      BY <1>6, <2>1, <2>2
  <1>8. CASE ConfirmKey(p)
    <2>1. Serve(p, r.user) /\ Head(r.todo).do = "confirm" /\ r.cred \notin Sessions
      BY <1>2, <1>8, AuthAssumption DEF ConfirmKey, At
    <2>2. r.cached => Active(tables, r.user.email)
      BY <1>2, <1>8 DEF ConfirmKey, Who
    <2>3. QED
      BY <1>6, <2>1, <2>2
  <1>9. QED
    BY <1>3, <1>4, <1>5, <1>7, <1>8 DEF Step, ServedStep

\* Which action takes the step.
LEMMA StepTaken ==
  ASSUME NEW p \in Slots, Step(p)
  PROVE  LET d == Head(req[p].todo).do
         IN  /\ d = "apply" => ApplyStep(p)
             /\ d = "owns_key" => OwnsKey(p)
             /\ d = "drop_key" => DropKey(p)
             /\ d = "label" => Label(p)
             /\ d = "drop_keys" => drop_keys(p)
             /\ d = "clear" => factory_reset_state(p)
             /\ d = "lookup" => Lookup(p)
             /\ d \notin Opening => ServedStep(p)
  <1> DEFINE d == Head(req[p].todo).do
  <1>1. CASE Lookup(p)
    BY <1>1 DEF Lookup, At, Opening
  <1>2. CASE ConfirmSession(p) \/ ConfirmKey(p) \/ Allowed(p) \/ LoginRole(p) \/ LoginActive(p)
    <2>1. d \in {"confirm", "allowed", "login_role", "is_active"}
      BY <1>2 DEF ConfirmSession, ConfirmKey, Allowed, LoginRole, LoginActive, At
    <2>2. QED
      BY <2>1 DEF Opening
  <1>3. CASE CacheSession(p) \/ RecordUser(p) \/ RecordSession(p) \/ Seed(p)
             \/ AppendStep(p) \/ Exists(p) \/ OwnsShare(p) \/ revoke_share_by_id(p)
             \/ update_share_paths(p) \/ delete_shares_under(p)
    <2>1. d \in {"cache_session", "record_user", "record_session", "seed", "append", "exists", "owns_share",
                 "revoke_share", "update_share_paths", "delete_shares_under"}
      BY <1>3 DEF CacheSession, RecordUser, RecordSession, Seed, AppendStep, Exists, OwnsShare,
           revoke_share_by_id, update_share_paths, delete_shares_under, At
    <2>2. ServedStep(p)
      BY <1>3 DEF ServedStep
    <2>3. QED
      BY <2>1, <2>2
  <1>4. CASE drop_sessions(p) \/ delete_rows(p) \/ delete_session(p) \/ delete_row(p)
             \/ CacheKey(p) \/ RemoveTree(p) \/ factory_reset(p)
    <2>1. d \in {"drop_sessions", "delete_rows", "delete_session", "delete_row", "cache_key", "remove_tree",
                 "reset_db"}
      BY <1>4 DEF drop_sessions, delete_rows, delete_session, delete_row, CacheKey, RemoveTree,
           factory_reset, At
    <2>2. ServedStep(p)
      BY <1>4 DEF ServedStep
    <2>3. QED
      BY <2>1, <2>2
  <1>5. CASE ApplyStep(p) \/ OwnsKey(p) \/ DropKey(p) \/ Label(p) \/ drop_keys(p) \/ factory_reset_state(p)
    <2>1. ServedStep(p)
      BY <1>5 DEF ServedStep
    <2>2. /\ ApplyStep(p) => d = "apply"
          /\ OwnsKey(p) => d = "owns_key"
          /\ DropKey(p) => d = "drop_key"
          /\ Label(p) => d = "label"
          /\ drop_keys(p) => d = "drop_keys"
          /\ factory_reset_state(p) => d = "clear"
      BY DEF ApplyStep, OwnsKey, DropKey, Label, drop_keys, factory_reset_state, At
    <2>3. QED
      BY <1>5, <2>1, <2>2
  <1>6. QED
    BY <1>1, <1>2, <1>3, <1>4, <1>5 DEF Step

\* Whoever leaves the keys as they are finds, when it goes on, what it relies on.
LEMMA GrowsRelies ==
  ASSUME TypeOK, RequestsInv, PathsInv, KeysInv, Undisturbed, NEW p \in Slots, Step(p),
         Head(req[p].todo).do \in Opening \/ req[p].op \notin Removing, req'[p] # Nothing
  PROVE  Relies(backend, tables', api_key_cache', req'[p], Head(req'[p].todo).do)
  <1> DEFINE r == req[p]
             q == req'[p]
             was == Head(r.todo).do
             step == Head(q.todo).do
  <1>1. /\ Busy(p) /\ InProgress(backend, r) /\ InProgress(backend, q)
        /\ q.op = r.op /\ q.cred = r.cred /\ q.arg = r.arg
        /\ step \in Opening => was \in Opening
    BY StepShape, StepSame
  <1>2. /\ Called(r) /\ Fits(backend, r, Head(r.todo)) /\ Fits(backend, q, Head(q.todo))
    BY <1>1, InProgressFields DEF InProgress
  <1>3. Relies(backend, tables, api_key_cache, r, was)
    BY <1>1 DEF KeysInv
  <1>4. Grows(tables, tables', api_key_cache, api_key_cache', r)
    BY StepGrows
  <1>5. ASSUME was \in Opening, r.op # "login"
        PROVE  \/ Lookup(p) /\ step = "confirm"
               \/ /\ was = "confirm" /\ q.cached = r.cached
                  /\ \/ r.cred \in Sessions /\ Active(tables, q.user.email)
                     \/ /\ r.cred \notin Sessions /\ q.user = r.user
                        /\ r.cached => Active(tables, q.user.email)
                  /\ q.op = "create_api_key" => step \in {"append", "apply"}
                  /\ q.op = "rename_api_key" => step = "owns_key"
                  /\ q.op = "factory_reset" => step = "remove_tree"
    BY <1>5, OpeningGoesOn
  <1>6. ASSUME step = "confirm", q.cred \notin Sessions, ~q.cached
        PROVE  Stored(tables'.keys, q.cred, q.user.email, q.user.label)
    <2>1. was \in Opening /\ r.op # "login" /\ r.cred \in Keys
      BY <1>1, <1>2, <1>6 DEF Opening, Called
    <2>2. Stored(tables.keys, q.cred, q.user.email, q.user.label)
      <3>1. CASE Lookup(p)
        <4>1. Usable(r.cred) /\ q.user = Row(r.cred)
          BY <1>1, <1>6, <3>1, LookupFinds
        <4>2. tables.keys[r.cred] \in KeyRecords
          BY <2>1, <4>1 DEF Usable, TypeOK, Tables
        <4>3. tables.keys[r.cred] = [email |-> q.user.email, label |-> q.user.label]
          BY <4>1, <4>2 DEF Row, KeyRecords
        <4>4. QED
          BY <1>1, <4>1, <4>3 DEF Stored, Usable
      <3>2. CASE was = "confirm" /\ q.cached = r.cached /\ q.user = r.user
        BY <1>1, <1>3, <1>6, <3>2 DEF Relies
      <3>3. QED
        BY <1>1, <1>5, <1>6, <2>1, <3>1, <3>2
    <2>3. QED
      BY <1>1, <1>4, <2>1, <2>2 DEF Grows, Stored
  <1>7. ASSUME r.op = "create_api_key"
        PROVE  /\ step # "cache_key" => tables'.keys[q.arg.key] = Nobody /\ api_key_cache'[q.arg.key] = NoUser
               /\ step = "cache_key" => Stored(tables'.keys, q.arg.key, q.user.email, q.arg.label)
               /\ backend = "pg" => \/ step = "lookup"
                                    \/ step = "confirm" /\ (q.cred \in Sessions \/ q.cached)
                                    \/ IsUser(tables', q.user.email)
    <2> DEFINE k == r.arg.key
    <2>1. /\ k \in Keys /\ r.arg.label \in Labels
          /\ \/ step = "lookup"
             \/ step = "confirm" /\ (q.cred \in Sessions \/ q.cached)
             \/ q.user.email \in Emails
      BY <1>1, <1>7, CreatorKnown
    <2>2. ASSUME was # "cache_key", was # "apply"
          PROVE  tables'.keys[k] = Nobody /\ api_key_cache'[k] = NoUser
      <3>1. tables.keys[k] = Nobody /\ api_key_cache[k] = NoUser
        BY <1>3, <1>7, <2>2 DEF Relies
      <3>2. QED
        BY <1>4, <2>1, <2>2, <3>1 DEF Grows, Stored
    <2>3. CASE was \in Opening
      <3>1. was \notin {"cache_key", "apply"}
        BY <2>3 DEF Opening
      <3>2. step # "cache_key"
        BY <1>1, <1>5, <1>7, <2>3
      <3>3. ASSUME backend = "pg"
            PROVE  \/ step = "confirm" /\ (q.cred \in Sessions \/ q.cached)
                   \/ IsUser(tables, q.user.email)
        <4>1. CASE Lookup(p) /\ step = "confirm"
          <5>1. r.cred \in Sessions \/ q.cached \/ (Usable(r.cred) /\ q.user = Row(r.cred))
            BY <4>1, LookupFinds
          <5>2. Usable(r.cred) => IsUser(tables, Row(r.cred).email)
            BY <3>3 DEF Usable, Active, IsUser, Row
          <5>3. QED
            BY <1>1, <4>1, <5>1, <5>2
        <4>2. CASE was = "confirm" /\ ~r.cached /\ r.cred \notin Sessions /\ q.user = r.user
          BY <1>3, <1>7, <3>3, <4>2 DEF Relies
        <4>3. Active(tables, q.user.email) => IsUser(tables, q.user.email)
          BY DEF Active, IsUser
        <4>4. QED
          BY <1>1, <1>5, <1>7, <2>3, <4>1, <4>2, <4>3
      <3>4. IsUser(tables, q.user.email) /\ q.user.email \in Emails => IsUser(tables', q.user.email)
        BY <1>4 DEF Grows
      <3>5. QED
        BY <1>1, <2>1, <2>2, <3>1, <3>2, <3>3, <3>4
    <2>4. CASE was \notin Opening
      <3>1. ServedStep(p)
        BY <2>4, StepTaken
      <3>2. SameRequest(q, r) /\ q.todo = Tail(r.todo) /\ Tail(r.todo) # <<>>
        BY <1>7, <3>1, StraightOn DEF KeyOps
      <3>3. OnPath(backend, r)
        BY <1>1, <2>4 DEF PathsInv
      <3>4. was # "cache_key" /\ (was = "apply" => step = "cache_key")
        BY <1>7, <3>2, <3>3, PathAhead
      <3>5. backend = "pg" => IsUser(tables', q.user.email)
        <4>1. q.user = r.user /\ was \notin {"lookup", "confirm"} /\ step \notin {"lookup", "confirm"}
          BY <1>1, <2>4, <3>2 DEF SameRequest, Opening
        <4>2. backend = "pg" => IsUser(tables, q.user.email)
          BY <1>3, <1>7, <4>1 DEF Relies
        <4>3. QED
          BY <1>4, <2>1, <4>1, <4>2 DEF Grows
      <3>6. ASSUME step = "cache_key"
            PROVE  Stored(tables'.keys, k, q.user.email, r.arg.label)
        <4> DEFINE x == KeyEntry(k, r.user.email, r.arg.label)
        <4>1. Follows(backend, r, Head(r.todo), r.todo[2]) /\ r.todo \in Seq(Steps) /\ r.todo # <<>>
          BY <1>1, <2>4, <3>2, Served
        <4>2. Head(Tail(r.todo)) = r.todo[2]
          BY <3>2, <4>1
        <4>3. Head(r.todo) = ApplyEntry(x)
          BY <3>2, <3>6, <4>1, <4>2 DEF Follows
        <4>4. was = "apply" /\ Arg(p) = x
          BY <4>3 DEF ApplyEntry, Arg
        <4>5. ApplyStep(p)
          BY <4>4, StepTaken
        <4>6. tables' = Changed(tables, x) /\ x \in Entries /\ tables \in Tables
          BY <4>4, <4>5, EntryArg DEF ApplyStep, TypeOK
        <4>7. KeyChanged(tables, x, k, tables'.keys[k])
          BY <2>1, <4>6, ChangedKeys
        <4>8. x.kind = "api-key" /\ x.key = k /\ x.email = r.user.email /\ x.label = r.arg.label
          BY DEF KeyEntry
        <4>9. backend = "pg" => IsUser(tables, r.user.email)
          BY <1>3, <1>7, <4>4 DEF Relies
        <4>10. tables'.keys[k] = [email |-> r.user.email, label |-> r.arg.label]
          <5> HIDE DEF x, k
          <5>1. QED
            BY <4>7, <4>8, <4>9 DEF KeyChanged
        <4>11. q.user = r.user /\ q.user.email \in Emails
          BY <2>1, <3>2, <3>6 DEF SameRequest
        <4>12. tables'.keys[k] # Nobody
          <5>1. tables'.keys[k] \in [email : Emails, label : Labels]
            BY <2>1, <4>10, <4>11
          <5>2. QED
            BY <5>1, AuthAssumption
        <4>13. QED
          BY <4>10, <4>11, <4>12 DEF Stored
      <3>7. QED
        BY <1>1, <2>2, <3>4, <3>5, <3>6
    <2>5. QED
      BY <2>3, <2>4
  <1>8. ASSUME r.op = "rename_api_key" \/ step = "reset_db"
        PROVE  r.op = "rename_api_key" /\ step \notin {"append", "apply", "label", "reset_db"}
    <2>1. r.op \in Removing /\ r.op # "login" /\ (step = "reset_db" => r.op = "factory_reset")
      BY <1>1, <1>2, <1>8 DEF Fits, Removing
    <2>2. was \in Opening
      BY <2>1
    <2>3. QED
      BY <1>1, <1>5, <1>8, <2>1, <2>2
  <1>9. QED
    BY <1>1, <1>6, <1>7, <1>8 DEF Relies

\* ... and the cache holds stored keys only.
LEMMA GrowsCached ==
  ASSUME TypeOK, RequestsInv, KeysInv, Undisturbed, NEW p \in Slots, Step(p),
         Head(req[p].todo).do \in Opening \/ req[p].op \notin Removing,
         NEW k \in Keys, api_key_cache'[k] # NoUser
  PROVE  Stored(tables'.keys, k, api_key_cache'[k].email, api_key_cache'[k].label)
  <1>1. Grows(tables, tables', api_key_cache, api_key_cache', req[p]) /\ Busy(p)
    BY StepGrows, StepShape
  <1>2. ASSUME NEW q \in Slots, Busy(q)
        PROVE  ~Owes(req[q], k, api_key_cache[k])
    <2> SUFFICES ASSUME Owes(req[q], k, api_key_cache[k])
                 PROVE  FALSE
      OBVIOUS
    <2>1. Head(req[q].todo).do \notin Opening /\ req[q].op \in Removing
      BY <1>2, OwesRemoves
    <2>2. QED
      BY <1>1, <1>2, <2>1, OtherRemovals
  <1>3. Stored(tables.keys, k, api_key_cache'[k].email, api_key_cache'[k].label)
    <2>1. CASE api_key_cache'[k] = api_key_cache[k]
      <3>1. \/ Stored(tables.keys, k, api_key_cache[k].email, api_key_cache[k].label)
            \/ \E q \in Slots : Busy(q) /\ Owes(req[q], k, api_key_cache[k])
        BY <2>1 DEF KeysInv
      <3>2. QED
        BY <1>2, <2>1, <3>1
    <2>2. CASE api_key_cache'[k] # api_key_cache[k]
      BY <1>1, <2>2 DEF Grows
    <2>3. QED
      BY <2>1, <2>2
  <1>4. QED
    BY <1>1, <1>3 DEF Grows, Stored

\* A request that revokes, renames or deletes is the only one, and goes straight on.
Removal(p) ==
    LET r == req[p]
        was == Head(r.todo).do
    IN  /\ Busy(p) /\ Called(r) /\ Fits(backend, r, Head(r.todo)) /\ OnPath(backend, r)
        /\ \A o \in Slots : o # p => req'[o] = Nothing
        /\ Relies(backend, tables, api_key_cache, r, was)
        /\ \A k \in Keys : api_key_cache[k] # NoUser =>
              \/ Stored(tables.keys, k, api_key_cache[k].email, api_key_cache[k].label)
              \/ Owes(r, k, api_key_cache[k])
        /\ req'[p] # Nothing =>
              SameRequest(req'[p], r) /\ req'[p].todo = Tail(r.todo) /\ Tail(r.todo) # <<>>
        /\ was \in {"apply", "drop_sessions", "delete_rows"} /\ Tail(r.todo) # <<>> => req'[p] # Nothing

LEMMA StepRemoves ==
  ASSUME TypeOK, RequestsInv, PathsInv, KeysInv, Undisturbed, NEW p \in Slots, Step(p),
         Head(req[p].todo).do \notin Opening, req[p].op \in Removing
  PROVE  Removal(p)
  <1> DEFINE r == req[p]
             was == Head(r.todo).do
  <1>1. Busy(p) /\ ServedStep(p) /\ \A o \in Slots : o # p => req'[o] = req[o]
    BY StepShape, StepTaken
  <1>2. Called(r) /\ Fits(backend, r, Head(r.todo)) /\ r.todo \in Seq(Steps) /\ r.todo # <<>>
    BY <1>1, Served
  <1>3. OnPath(backend, r) /\ Relies(backend, tables, api_key_cache, r, was)
    BY <1>1 DEF PathsInv, KeysInv
  <1>4. \A o \in Slots : o # p => ~Busy(o)
    BY <1>1, OtherRemovals
  <1>5. \A o \in Slots : o # p => req'[o] = Nothing
    BY <1>1, <1>4 DEF Busy, Idle
  <1>6. ASSUME NEW k \in Keys, api_key_cache[k] # NoUser
        PROVE  \/ Stored(tables.keys, k, api_key_cache[k].email, api_key_cache[k].label)
               \/ Owes(r, k, api_key_cache[k])
    <2>1. \/ Stored(tables.keys, k, api_key_cache[k].email, api_key_cache[k].label)
          \/ \E q \in Slots : Busy(q) /\ Owes(req[q], k, api_key_cache[k])
      BY <1>6 DEF KeysInv
    <2>2. QED
      BY <1>4, <2>1
  <1>7. ASSUME req'[p] # Nothing
        PROVE  SameRequest(req'[p], r) /\ req'[p].todo = Tail(r.todo) /\ Tail(r.todo) # <<>>
    <2>1. \/ r.op \in AccountOps \union KeyOps
          \/ was \in {"remove_tree", "clear", "reset_db"}
      BY <1>3, ResetHead DEF Removing, AccountOps, KeyOps
    <2>2. QED
      BY <1>1, <1>7, <2>1, StraightOn
  <1>8. ASSUME was \in {"apply", "drop_sessions", "delete_rows"}, Tail(r.todo) # <<>>
        PROVE  req'[p] # Nothing
    <2>1. Advance(p)
      <3>1. CASE was = "apply"
        BY <3>1, StepTaken DEF ApplyStep
      <3>2. CASE was \in {"drop_sessions", "delete_rows"}
        <4>1. drop_sessions(p) \/ delete_rows(p)
          BY <1>1, <3>2 DEF ServedStep, CacheSession, RecordUser, RecordSession, Seed, AppendStep, ApplyStep,
             Exists, OwnsKey, OwnsShare, revoke_share_by_id, update_share_paths, delete_shares_under,
             drop_keys, delete_session, delete_row, CacheKey, DropKey, Label, RemoveTree,
             factory_reset_state, factory_reset, At
        <4>2. QED
          BY <4>1 DEF drop_sessions, delete_rows
      <3>3. QED
        BY <1>8, <3>1, <3>2
    <2>2. Tail(r.todo) \in Seq(Steps)
      BY <1>2, StepsOf
    <2>3. <<>> \o Tail(r.todo) # <<>>
      BY <1>8, <2>2, NothingJoined
    <2>4. InProgress(backend, req'[p]) \/ req'[p] = Nothing
      BY StepShape
    <2>5. SameRequest(req'[p], r)
      BY <1>1, <2>1, <2>3, ThenSame DEF Advance
    <2>6. Nothing.op = "none" /\ "none" \notin Removing
      BY DEF Nothing, Request, Removing
    <2>7. QED
      BY <2>5, <2>6 DEF SameRequest
  <1>9. QED
    BY <1>1, <1>2, <1>3, <1>5, <1>6, <1>7, <1>8 DEF Removal

\* What the cache holds after it, and what it relies on when it goes on.
Settled(p) ==
    /\ \A k \in Keys : api_key_cache'[k] # NoUser =>
          \/ Stored(tables'.keys, k, api_key_cache'[k].email, api_key_cache'[k].label)
          \/ req'[p] # Nothing /\ Owes(req'[p], k, api_key_cache'[k])
    /\ req'[p] # Nothing => Relies(backend, tables', api_key_cache', req'[p], Head(req'[p].todo).do)

\* A step that changes no key.
LEMMA QuietCached ==
  ASSUME NEW p \in Slots, Removal(p), tables'.keys = tables.keys, api_key_cache' = api_key_cache,
         Head(req[p].todo).do \notin {"drop_key", "label"} \union Cleanup, NEW k \in Keys, api_key_cache'[k] # NoUser
  PROVE  Stored(tables'.keys, k, api_key_cache'[k].email, api_key_cache'[k].label)
  BY DEF Removal, Owes, Stored

LEMMA RevokeSettles ==
  ASSUME TypeOK, RequestsInv, NEW p \in Slots, Step(p), Removal(p), Head(req[p].todo).do \notin Opening,
         req[p].op = "revoke_api_key"
  PROVE  Settled(p)
  <1> DEFINE r == req[p]
             q == req'[p]
             was == Head(r.todo).do
             key == r.arg.key
             x == Arg(p)
  <1>1. Fits(backend, r, Head(r.todo)) /\ OnPath(backend, r) /\ Busy(p)
    BY DEF Removal
  <1>2. was \notin {"label", "clear", "cache_key", "confirm"} \union Cleanup
    BY <1>1 DEF Fits, Opening, Cleanup
  <1>3. ~Label(p) /\ ~drop_keys(p) /\ ~CacheKey(p) /\ ~ConfirmKey(p) /\ ~factory_reset_state(p)
    BY <1>2 DEF Label, drop_keys, CacheKey, ConfirmKey, factory_reset_state, At, Cleanup
  <1>4. ASSUME q # Nothing
        PROVE  Relies(backend, tables', api_key_cache', q, Head(q.todo).do)
    <2>1. InProgress(backend, q) /\ q.op = r.op /\ Head(q.todo).do \notin Opening
      BY <1>4, StepShape
    <2>2. Fits(backend, q, Head(q.todo))
      BY <2>1, InProgressFields
    <2>3. Head(q.todo).do \notin {"reset_db", "confirm"}
      BY <2>1, <2>2 DEF Fits, Opening
    <2>4. QED
      BY <2>1, <2>3 DEF Relies
  <1>5. CASE was = "apply"
    <2>1. ApplyStep(p)
      BY <1>5, StepTaken
    <2>2. /\ tables' = Changed(tables, x) /\ x \in Entries /\ tables \in Tables /\ Writes(r, x)
          /\ api_key_cache' = api_key_cache
      BY <2>1, EntryArg DEF ApplyStep, TypeOK, caches
    <2>3. ASSUME NEW k \in Keys, k # key
          PROVE  tables'.keys[k] = tables.keys[k]
      <3>1. KeyChanged(tables, x, k, tables'.keys[k])
        BY <2>2, ChangedKeys
      <3>2. x.kind \notin {"api-key", "api-key-relabel", "user-delete"}
        BY <2>2 DEF Writes
      <3>3. x.kind = "api-key-revoke" => x.key = key
        BY <2>2 DEF Writes, KeyRevoke
      <3> HIDE DEF x, key, r
      <3>4. QED
        BY <2>3, <3>1, <3>2, <3>3 DEF KeyChanged
    <2>4. q # Nothing /\ Head(q.todo).do = "drop_key" /\ q.arg = r.arg
      <3>1. Tail(r.todo) # <<>> /\ Head(Tail(r.todo)).do = "drop_key"
        BY <1>1, <1>5, PathAhead
      <3>2. q # Nothing
        BY <1>5, <3>1 DEF Removal
      <3>3. QED
        BY <3>1, <3>2 DEF Removal, SameRequest
    <2>5. ASSUME NEW k \in Keys, api_key_cache'[k] # NoUser
          PROVE  \/ Stored(tables'.keys, k, api_key_cache'[k].email, api_key_cache'[k].label)
                 \/ q # Nothing /\ Owes(q, k, api_key_cache'[k])
      <3>1. CASE k = key
        BY <2>4, <3>1 DEF Owes
      <3>2. CASE k # key
        <4>1. Stored(tables.keys, k, api_key_cache[k].email, api_key_cache[k].label)
          BY <1>5, <2>2, <2>5 DEF Removal, Owes, Cleanup
        <4>2. QED
          BY <2>2, <2>3, <3>2, <4>1 DEF Stored
      <3>3. QED
        BY <3>1, <3>2
    <2>6. QED
      BY <1>4, <2>5 DEF Settled
  <1>6. CASE was # "apply"
    <2>1. ~ApplyStep(p)
      BY <1>6 DEF ApplyStep, At
    <2>2. tables'.keys = tables.keys
      BY <1>3, <2>1, StepKeysTables
    <2>3. ASSUME NEW k \in Keys, api_key_cache'[k] # NoUser
          PROVE  Stored(tables'.keys, k, api_key_cache'[k].email, api_key_cache'[k].label)
      <3>1. CASE was = "drop_key"
        <4>1. DropKey(p)
          BY <3>1, StepTaken
        <4>2. k # key /\ api_key_cache'[k] = api_key_cache[k]
          BY <2>3, <4>1 DEF DropKey, TypeOK
        <4>3. ~Owes(r, k, api_key_cache[k])
          BY <1>2, <4>2 DEF Owes
        <4>4. Stored(tables.keys, k, api_key_cache[k].email, api_key_cache[k].label)
          BY <2>3, <4>2, <4>3 DEF Removal
        <4>5. QED
          BY <2>2, <4>2, <4>4
      <3>2. CASE was # "drop_key"
        <4>1. ~DropKey(p)
          BY <3>2 DEF DropKey, At
        <4>2. api_key_cache' = api_key_cache
          BY <1>3, <4>1, StepKeysCache
        <4>3. was \notin {"drop_key", "label"} \union Cleanup
          BY <1>2, <3>2
        <4>4. QED
          BY <2>2, <2>3, <4>2, <4>3, QuietCached
      <3>3. QED
        BY <3>1, <3>2
    <2>4. QED
      BY <1>4, <2>3 DEF Settled
  <1>7. QED
    BY <1>5, <1>6

LEMMA RenameSettles ==
  ASSUME TypeOK, RequestsInv, NEW p \in Slots, Step(p), Removal(p), Head(req[p].todo).do \notin Opening,
         req[p].op = "rename_api_key"
  PROVE  Settled(p)
  <1> DEFINE r == req[p]
             q == req'[p]
             was == Head(r.todo).do
             step == Head(q.todo).do
             key == r.arg.key
             label == r.arg.label
             x == Arg(p)
             row == tables.keys[key]
             named == [email |-> row.email, label |-> label]
  <1>1. /\ Fits(backend, r, Head(r.todo)) /\ OnPath(backend, r) /\ Busy(p) /\ Called(r)
        /\ Relies(backend, tables, api_key_cache, r, was)
        /\ tables \in Tables /\ tables.keys \in [Keys -> KeyRecords \union {Nobody}]
        /\ api_key_cache \in [Keys -> Users \union {NoUser}]
    BY DEF Removal, TypeOK, Tables
  <1>2. key \in Keys /\ label \in Labels
    BY <1>1 DEF Called, KeyOps
  <1>3. was \in {"owns_key", "append", "label"} \union (IF backend = "store" THEN {} ELSE {"apply"})
    BY <1>1, RenameHead
  <1>4. ~drop_keys(p) /\ ~CacheKey(p) /\ ~ConfirmKey(p) /\ ~factory_reset_state(p) /\ ~DropKey(p)
    BY <1>3 DEF drop_keys, CacheKey, ConfirmKey, factory_reset_state, DropKey, At
  <1>5. ASSUME q # Nothing
        PROVE  /\ q.op = r.op /\ q.arg = r.arg
               /\ step \notin {"confirm", "reset_db"}
               /\ was # "apply" => ~(step = "label" /\ backend # "store")
    <2>1. InProgress(backend, q) /\ q.op = r.op /\ step \notin Opening
      BY <1>5, StepShape
    <2>2. Fits(backend, q, Head(q.todo))
      BY <2>1, InProgressFields
    <2>3. q.arg = r.arg /\ q.todo = Tail(r.todo) /\ Tail(r.todo) # <<>>
      BY <1>5 DEF Removal, SameRequest
    <2>4. Follows(backend, r, Head(r.todo), r.todo[2]) /\ r.todo \in Seq(Steps) /\ r.todo # <<>>
      BY <1>1, <2>3, Served
    <2>5. Head(Tail(r.todo)) = r.todo[2]
      BY <2>3, <2>4
    <2>6. step = "label" /\ backend # "store" => was = "apply"
      BY <2>3, <2>4, <2>5 DEF Follows
    <2>7. QED
      BY <2>1, <2>2, <2>3, <2>6 DEF Fits, Opening
  <1>6. ASSUME was \in {"append", "apply", "label"} \/ (was = "owns_key" /\ q # Nothing)
        PROVE  /\ row # Nobody /\ row \in KeyRecords
               /\ api_key_cache[key] # NoUser => api_key_cache[key].email = row.email
    <2>1. CASE was \in {"append", "apply", "label"}
      BY <1>1, <1>2, <2>1 DEF Relies
    <2>2. CASE was = "owns_key" /\ q # Nothing
      <3>1. OwnsKey(p) /\ ~Refuse(p)
        BY <1>1, <2>2, StepTaken, RefuseMoves DEF RequestsInv
      <3>2. row # Nobody
        BY <3>1 DEF OwnsKey, Pass
      <3>3. api_key_cache[key] # NoUser => Stored(tables.keys, key, api_key_cache[key].email, api_key_cache[key].label)
        BY <1>2, <2>2 DEF Removal, Owes, Cleanup
      <3>4. row \in KeyRecords
        BY <1>1, <1>2, <3>2
      <3>5. api_key_cache[key] # NoUser => api_key_cache[key].email = row.email
        BY <3>3 DEF Stored
      <3>6. QED
        BY <3>2, <3>4, <3>5
    <2>3. QED
      BY <1>6, <2>1, <2>2
  <1>7. ASSUME row # Nobody
        PROVE  named \in KeyRecords /\ named # Nobody
    <2>1. named \in KeyRecords
      BY <1>1, <1>2, <1>7 DEF KeyRecords
    <2>2. QED
      BY <2>1, AuthAssumption DEF KeyRecords
  <1>8. CASE was \in {"owns_key", "append"}
    <2>1. tables'.keys = tables.keys /\ api_key_cache' = api_key_cache
      <3>1. ~ApplyStep(p) /\ ~Label(p)
        BY <1>8 DEF ApplyStep, Label, At
      <3>2. QED
        BY <1>4, <3>1, StepKeysTables, StepKeysCache
    <2>2. ASSUME NEW k \in Keys, api_key_cache'[k] # NoUser
          PROVE  Stored(tables'.keys, k, api_key_cache'[k].email, api_key_cache'[k].label)
      BY <1>8, <2>1, <2>2, QuietCached DEF Cleanup
    <2>3. ASSUME q # Nothing
          PROVE  Relies(backend, tables', api_key_cache', q, step)
      BY <1>5, <1>6, <1>8, <2>1, <2>3 DEF Relies
    <2>4. QED
      BY <2>2, <2>3 DEF Settled
  <1>9. CASE was = "apply"
    <2>1. ApplyStep(p) /\ backend # "store" /\ row # Nobody
      BY <1>3, <1>6, <1>9, StepTaken
    <2>2. tables' = Changed(tables, x) /\ x \in Entries /\ api_key_cache' = api_key_cache
      BY <2>1, EntryArg DEF ApplyStep, caches
    <2>3. Tail(r.todo) # <<>> /\ Head(Tail(r.todo)).do = "label" /\ x = Relabel(key, label)
      BY <1>1, <1>9, <2>1, PathAhead DEF Arg
    <2>4. ASSUME NEW k \in Keys
          PROVE  tables'.keys[k] = IF k = key THEN named ELSE tables.keys[k]
      <3>1. KeyChanged(tables, x, k, tables'.keys[k])
        BY <1>1, <2>2, ChangedKeys
      <3>2. x.kind = "api-key-relabel" /\ x.key = key /\ x.label = label
        BY <2>3 DEF Relabel
      <3> HIDE DEF x, label
      <3>3. QED
        BY <2>1, <3>1, <3>2 DEF KeyChanged
    <2>5. q # Nothing /\ step = "label"
      <3>1. q # Nothing
        BY <1>9, <2>3 DEF Removal
      <3>2. QED
        BY <2>3, <3>1 DEF Removal
    <2>6. ASSUME NEW k \in Keys, api_key_cache'[k] # NoUser
          PROVE  \/ Stored(tables'.keys, k, api_key_cache'[k].email, api_key_cache'[k].label)
                 \/ q # Nothing /\ Owes(q, k, api_key_cache'[k])
      <3>1. CASE k = key
        BY <1>5, <2>5, <3>1 DEF Owes
      <3>2. CASE k # key
        <4>1. Stored(tables.keys, k, api_key_cache[k].email, api_key_cache[k].label)
          BY <1>9, <2>2, <2>6 DEF Removal, Owes, Cleanup
        <4>2. QED
          BY <2>2, <2>4, <3>2, <4>1 DEF Stored
      <3>3. QED
        BY <3>1, <3>2
    <2>7. tables'.keys[key] = named
      BY <1>2, <2>4
    <2>8. Relies(backend, tables', api_key_cache', q, step)
      <3>1. api_key_cache[key] # NoUser => api_key_cache[key].email = row.email
        BY <1>6, <1>9
      <3>2. named.email = row.email /\ named.label = label /\ named # Nobody
        BY <1>7, <2>1
      <3> HIDE DEF named
      <3>3. QED
        BY <1>5, <2>2, <2>5, <2>7, <3>1, <3>2 DEF Relies
    <2>9. QED
      BY <2>6, <2>8 DEF Settled
  <1>10. CASE was = "label"
    <2> DEFINE user == api_key_cache[key]
               new == [user EXCEPT !.label = label]
    <2>1. Label(p) /\ row # Nobody /\ row \in KeyRecords
      BY <1>6, <1>10, StepTaken
    <2>2. tables'.keys = [tables.keys EXCEPT ![key] = named]
      <3>1. CASE backend = "store"
        <4>1. tables' = [tables EXCEPT !.keys[key].label = label]
          BY <2>1, <3>1 DEF Label
        <4>2. tables'.keys = [tables.keys EXCEPT ![key] = [row EXCEPT !.label = label]]
          BY <1>1, <4>1 DEF Tables
        <4>3. [row EXCEPT !.label = label] = named
          BY <2>1 DEF KeyRecords
        <4>4. QED
          BY <4>2, <4>3
      <3>2. CASE backend # "store"
        <4>1. tables' = tables
          BY <2>1, <3>2 DEF Label
        <4>2. row.label = label
          BY <1>1, <1>10, <3>2 DEF Relies
        <4>3. row = named
          BY <2>1, <4>2 DEF KeyRecords
        <4>4. QED
          BY <1>1, <1>2, <4>1, <4>3
      <3>3. QED
        BY <3>1, <3>2
    <2>3. api_key_cache' = IF user # NoUser THEN [api_key_cache EXCEPT ![key] = new] ELSE api_key_cache
      BY <2>1 DEF Label
    <2>4. tables'.keys[key] = named /\ \A k \in Keys : k # key => tables'.keys[k] = tables.keys[k]
      <3> HIDE DEF named
      <3>1. QED
        BY <1>1, <1>2, <2>2
    <2>5. /\ \A k \in Keys : k # key => api_key_cache'[k] = api_key_cache[k]
          /\ api_key_cache'[key] = IF user # NoUser THEN new ELSE NoUser
      <3> HIDE DEF new
      <3>1. QED
        BY <1>1, <1>2, <2>3
    <2>6. ASSUME user # NoUser
          PROVE  new.email = row.email /\ new.label = label
      <3>1. user \in Users /\ user.email = row.email
        BY <1>1, <1>2, <1>6, <1>10, <2>6
      <3>2. QED
        BY <3>1 DEF Users
    <2>7. named.email = row.email /\ named.label = label /\ named # Nobody
      BY <1>7, <2>1
    <2> HIDE DEF new
    <2>8. ASSUME NEW k \in Keys, api_key_cache'[k] # NoUser
          PROVE  Stored(tables'.keys, k, api_key_cache'[k].email, api_key_cache'[k].label)
      <3>1. CASE k = key
        BY <2>4, <2>5, <2>6, <2>7, <2>8, <3>1 DEF Stored
      <3>2. CASE k # key
        <4>1. Stored(tables.keys, k, api_key_cache[k].email, api_key_cache[k].label)
          BY <1>10, <2>5, <2>8, <3>2 DEF Removal, Owes, Cleanup
        <4>2. QED
          BY <2>4, <2>5, <3>2, <4>1 DEF Stored
      <3>3. QED
        BY <3>1, <3>2
    <2>9. ASSUME q # Nothing
          PROVE  Relies(backend, tables', api_key_cache', q, step)
      <3> HIDE DEF named
      <3>1. QED
        BY <1>5, <2>4, <2>5, <2>6, <2>7, <2>9 DEF Relies
    <2>10. QED
      BY <2>8, <2>9 DEF Settled
  <1>11. QED
    BY <1>3, <1>8, <1>9, <1>10

LEMMA DeleteSettles ==
  ASSUME TypeOK, RequestsInv, NEW p \in Slots, Step(p), Removal(p), Head(req[p].todo).do \notin Opening,
         req[p].op = "delete_user"
  PROVE  Settled(p)
  <1> DEFINE r == req[p]
             q == req'[p]
             was == Head(r.todo).do
             e == r.arg
             x == Arg(p)
  <1>1. /\ Fits(backend, r, Head(r.todo)) /\ OnPath(backend, r) /\ Busy(p)
        /\ tables \in Tables /\ tables.keys \in [Keys -> KeyRecords \union {Nobody}]
        /\ api_key_cache \in [Keys -> Users \union {NoUser}]
    BY DEF Removal, TypeOK, Tables
  <1>2. was \notin {"label", "clear", "cache_key", "confirm", "drop_key"}
    BY <1>1 DEF Fits, Opening
  <1>3. ~Label(p) /\ ~DropKey(p) /\ ~CacheKey(p) /\ ~ConfirmKey(p) /\ ~factory_reset_state(p)
    BY <1>2 DEF Label, DropKey, CacheKey, ConfirmKey, factory_reset_state, At
  <1>4. ASSUME q # Nothing
        PROVE  /\ Relies(backend, tables', api_key_cache', q, Head(q.todo).do)
               /\ q.op = r.op /\ q.arg = r.arg
    <2>1. InProgress(backend, q) /\ q.op = r.op /\ Head(q.todo).do \notin Opening
      BY <1>4, StepShape
    <2>2. Fits(backend, q, Head(q.todo))
      BY <2>1, InProgressFields
    <2>3. Head(q.todo).do \notin {"reset_db", "confirm"}
      BY <2>1, <2>2 DEF Fits, Opening
    <2>4. q.arg = r.arg
      BY <1>4 DEF Removal, SameRequest
    <2>5. QED
      BY <2>1, <2>3, <2>4 DEF Relies
  <1>5. ASSUME was \in {"apply", "drop_sessions", "delete_rows"}
        PROVE  q # Nothing /\ Head(q.todo).do \in Cleanup
    <2>1. Tail(r.todo) # <<>> /\ Head(Tail(r.todo)).do \in {"drop_sessions", "delete_rows", "drop_keys"}
      BY <1>1, <1>5, PathAhead
    <2>2. q # Nothing
      BY <1>5, <2>1 DEF Removal
    <2>3. QED
      BY <2>1, <2>2 DEF Removal, Cleanup
  <1>6. ASSUME was # "apply"
        PROVE  tables'.keys = tables.keys
    <2>1. ~ApplyStep(p)
      BY <1>6 DEF ApplyStep, At
    <2>2. QED
      BY <1>3, <2>1, StepKeysTables
  <1>7. was # "drop_keys" => api_key_cache' = api_key_cache
    <2>1. was # "drop_keys" => ~drop_keys(p)
      BY DEF drop_keys, At
    <2>2. QED
      BY <1>3, <2>1, StepKeysCache
  <1>8. ASSUME was = "apply"
        PROVE  \A k \in Keys : tables'.keys[k] = tables.keys[k] \/ tables.keys[k].email = e
    <2>1. ApplyStep(p)
      BY <1>8, StepTaken
    <2>2. tables' = Changed(tables, x) /\ x \in Entries /\ Writes(r, x)
      BY <2>1, EntryArg DEF ApplyStep
    <2>3. x.kind \notin {"api-key", "api-key-relabel", "api-key-revoke"}
      BY <2>2 DEF Writes
    <2>4. x.kind = "user-delete" => x.email = e
      BY <2>2 DEF Writes
    <2>5. ASSUME NEW k \in Keys
          PROVE  tables'.keys[k] = tables.keys[k] \/ tables.keys[k].email = e
      <3>1. KeyChanged(tables, x, k, tables'.keys[k])
        BY <1>1, <2>2, ChangedKeys
      <3> HIDE DEF x, e
      <3>2. QED
        BY <2>3, <2>4, <3>1 DEF KeyChanged
    <2>6. QED
      BY <2>5
  <1>9. ASSUME NEW k \in Keys, api_key_cache'[k] # NoUser
        PROVE  \/ Stored(tables'.keys, k, api_key_cache'[k].email, api_key_cache'[k].label)
               \/ q # Nothing /\ Owes(q, k, api_key_cache'[k])
    <2> DEFINE user == api_key_cache[k]
    <2>1. ASSUME user # NoUser
          PROVE  \/ Stored(tables.keys, k, user.email, user.label)
                 \/ was \in Cleanup /\ e = user.email
      BY <1>2, <2>1 DEF Removal, Owes
    <2>2. CASE was = "apply"
      <3>1. Stored(tables.keys, k, user.email, user.label) /\ api_key_cache'[k] = user
        BY <1>7, <1>9, <2>1, <2>2 DEF Cleanup
      <3>2. tables'.keys[k] = tables.keys[k] \/ user.email = e
        BY <1>8, <2>2, <3>1 DEF Stored
      <3>3. QED
        BY <1>4, <1>5, <2>2, <3>1, <3>2 DEF Stored, Owes
    <2>3. CASE was \in {"drop_sessions", "delete_rows"}
      <3>1. tables'.keys = tables.keys /\ api_key_cache'[k] = user
        BY <1>6, <1>7, <2>3
      <3>2. QED
        BY <1>4, <1>5, <1>9, <2>1, <2>3, <3>1 DEF Owes
    <2>4. CASE was = "drop_keys"
      <3>1. drop_keys(p) /\ tables'.keys = tables.keys
        BY <1>6, <2>4, StepTaken
      <3>2. Arg(p).email = e
        BY <1>1, <2>4 DEF Fits, Cleanup, Arg
      <3>3. api_key_cache' = [c \in DOMAIN api_key_cache |->
                                IF api_key_cache[c].email = Arg(p).email THEN NoUser ELSE api_key_cache[c]]
        BY <3>1 DEF drop_keys, Dropped
      <3>4. api_key_cache'[k] = user /\ user.email # e
        BY <1>1, <1>9, <3>2, <3>3
      <3>5. QED
        BY <1>9, <2>1, <3>1, <3>4
    <2>5. CASE was \notin {"apply"} \union Cleanup
      BY <1>2, <1>6, <1>7, <1>9, <2>5, QuietCached DEF Cleanup
    <2>6. QED
      BY <2>2, <2>3, <2>4, <2>5 DEF Cleanup
  <1>10. QED
    BY <1>4, <1>9 DEF Settled

LEMMA ResetSettles ==
  ASSUME TypeOK, RequestsInv, NEW p \in Slots, Step(p), Removal(p), Head(req[p].todo).do \notin Opening,
         req[p].op = "factory_reset"
  PROVE  Settled(p)
  <1> DEFINE r == req[p]
             q == req'[p]
             was == Head(r.todo).do
             step == Head(q.todo).do
  <1>1. /\ OnPath(backend, r) /\ Busy(p) /\ Relies(backend, tables, api_key_cache, r, was)
        /\ \A k \in Keys : api_key_cache[k] # NoUser =>
              \/ Stored(tables.keys, k, api_key_cache[k].email, api_key_cache[k].label)
              \/ Owes(r, k, api_key_cache[k])
    BY DEF Removal
  <1>2. was \in {"remove_tree", "clear", "reset_db"}
    BY <1>1, ResetHead
  <1>3. /\ ~Label(p) /\ ~DropKey(p) /\ ~CacheKey(p) /\ ~ConfirmKey(p) /\ ~drop_keys(p) /\ ~ApplyStep(p)
    BY <1>2 DEF Label, DropKey, CacheKey, ConfirmKey, drop_keys, ApplyStep, At
  <1>4. ASSUME q # Nothing
        PROVE  /\ q.op = r.op /\ step # "confirm"
               /\ step = "reset_db" => was = "clear"
    <2>1. InProgress(backend, q) /\ q.op = r.op /\ step \notin Opening
      BY <1>4, StepShape
    <2>2. q.todo = Tail(r.todo) /\ Tail(r.todo) # <<>>
      BY <1>4 DEF Removal
    <2>3. Follows(backend, r, Head(r.todo), r.todo[2]) /\ r.todo \in Seq(Steps) /\ r.todo # <<>>
      BY <1>1, <2>2, Served
    <2>4. Head(Tail(r.todo)) = r.todo[2]
      BY <2>2, <2>3
    <2>5. QED
      BY <2>1, <2>2, <2>3, <2>4 DEF Follows, Opening
  <1>5. CASE was = "remove_tree"
    <2>1. tables'.keys = tables.keys /\ api_key_cache' = api_key_cache
      <3>1. RemoveTree(p)
        <4>1. ~factory_reset_state(p) /\ ~factory_reset(p)
          BY <1>5 DEF factory_reset_state, factory_reset, At
        <4>2. ~CacheSession(p) /\ ~RecordUser(p) /\ ~RecordSession(p) /\ ~Seed(p) /\ ~AppendStep(p)
              /\ ~Exists(p) /\ ~OwnsKey(p) /\ ~OwnsShare(p) /\ ~revoke_share_by_id(p)
              /\ ~update_share_paths(p) /\ ~delete_shares_under(p) /\ ~drop_sessions(p)
              /\ ~delete_rows(p) /\ ~delete_session(p) /\ ~delete_row(p)
          BY <1>5 DEF CacheSession, RecordUser, RecordSession, Seed, AppendStep, Exists, OwnsKey, OwnsShare,
             revoke_share_by_id, update_share_paths, delete_shares_under, drop_sessions, delete_rows,
             delete_session, delete_row, At
        <4>3. ServedStep(p)
          BY StepTaken
        <4>4. QED
          BY <1>3, <4>1, <4>2, <4>3 DEF ServedStep
      <3>2. QED
        BY <3>1 DEF RemoveTree, caches
    <2>2. ASSUME NEW k \in Keys, api_key_cache'[k] # NoUser
          PROVE  Stored(tables'.keys, k, api_key_cache'[k].email, api_key_cache'[k].label)
      BY <1>5, <2>1, <2>2, QuietCached DEF Cleanup
    <2>3. q # Nothing => Relies(backend, tables', api_key_cache', q, step)
      BY <1>4, <1>5 DEF Relies
    <2>4. QED
      BY <2>2, <2>3 DEF Settled
  <1>6. CASE was = "clear" \/ was = "reset_db"
    <2>1. \A k \in Keys : api_key_cache'[k] = NoUser
      <3>1. CASE was = "clear"
        BY <3>1, StepTaken DEF factory_reset_state
      <3>2. CASE was = "reset_db"
        <4>1. \A k \in Keys : api_key_cache[k] = NoUser
          BY <1>1, <3>2 DEF Relies
        <4>2. ~factory_reset_state(p)
          BY <3>2 DEF factory_reset_state, At
        <4>3. QED
          BY <1>3, <4>1, <4>2, StepKeysCache
      <3>3. QED
        BY <1>6, <3>1, <3>2
    <2>2. q # Nothing => Relies(backend, tables', api_key_cache', q, step)
      BY <1>4, <2>1 DEF Relies
    <2>3. QED
      BY <2>1, <2>2 DEF Settled
  <1>7. QED
    BY <1>2, <1>5, <1>6

LEMMA StepKeepsKeys ==
  ASSUME TypeOK, RequestsInv, IdsInv, PathsInv, KeysInv, NEW p \in Slots, Step(p)
  PROVE  KeysInv'
  <1>1. backend' = backend /\ met' = met
    <2>1. backend' = backend
      BY StepKeeps
    <2>2. QED
      BY <2>1 DEF Step
  <1>2. CASE ~Undisturbed
    <2>1. ~Undisturbed'
      BY <1>1, <1>2 DEF Undisturbed
    <2>2. QED
      BY <2>1 DEF KeysInv
  <1> SUFFICES ASSUME Undisturbed
               PROVE  KeysInv'
    BY <1>2
  <1>3. /\ Busy(p) /\ \A q \in Slots : q # p => req'[q] = req[q]
        /\ req'[p] = Nothing \/ InProgress(backend, req'[p])
    BY StepShape
  <1>4. \A q \in Slots : Busy(q)' <=> req'[q] # Nothing
    BY DEF Busy, Idle
  <1>5. ASSUME NEW q \in Slots, q # p, Busy(q)'
        PROVE  Relies(backend, tables', api_key_cache', req'[q], Head(req'[q].todo).do)
    <2>1. Busy(q) /\ req'[q] = req[q]
      BY <1>3, <1>4, <1>5 DEF Busy, Idle
    <2>2. QED
      BY <1>5, <2>1, OthersRely
  <1>6. ASSUME Settled(p)
        PROVE  KeysInv'
    <2>1. ASSUME NEW k \in Keys, api_key_cache'[k] # NoUser
          PROVE  \/ Stored(tables'.keys, k, api_key_cache'[k].email, api_key_cache'[k].label)
                 \/ \E q \in Slots : Busy(q)' /\ Owes(req'[q], k, api_key_cache'[k])
      BY <1>4, <1>6, <2>1 DEF Settled
    <2>2. ASSUME NEW q \in Slots, Busy(q)'
          PROVE  Relies(backend, tables', api_key_cache', req'[q], Head(req'[q].todo).do)
      BY <1>4, <1>5, <1>6, <2>2 DEF Settled
    <2> HIDE DEF Busy
    <2>3. QED
      BY <1>1, <2>1, <2>2 DEF KeysInv
  <1>7. CASE Head(req[p].todo).do \in Opening \/ req[p].op \notin Removing
    <2>1. \A k \in Keys : api_key_cache'[k] # NoUser =>
              Stored(tables'.keys, k, api_key_cache'[k].email, api_key_cache'[k].label)
      BY <1>7, GrowsCached
    <2>2. req'[p] # Nothing => Relies(backend, tables', api_key_cache', req'[p], Head(req'[p].todo).do)
      BY <1>7, GrowsRelies
    <2>3. QED
      BY <1>6, <2>1, <2>2 DEF Settled
  <1>8. CASE Head(req[p].todo).do \notin Opening /\ req[p].op \in Removing
    <2>1. Removal(p)
      BY <1>8, StepRemoves
    <2>2. Settled(p)
      BY <1>8, <2>1, RevokeSettles, RenameSettles, DeleteSettles, ResetSettles DEF Removing
    <2>3. QED
      BY <1>6, <2>2
  <1>9. QED
    BY <1>7, <1>8

LEMMA BeginKeepsKeys ==
  ASSUME TypeOK, RequestsInv, IdsInv, KeysInv, NEW p \in Slots, Begin(p)
  PROVE  KeysInv'
  <1>1. tables' = tables /\ api_key_cache' = api_key_cache /\ backend' = backend
    BY DEF Begin, store, caches
  <1>2. /\ ~Busy(p)
        /\ \A q \in Slots : q # p /\ Busy(q) =>
              SameRequest(req'[q], req[q]) /\ req'[q].todo = req[q].todo /\ Busy(q)'
        /\ \A q \in Slots : Busy(q)' => q = p \/ Busy(q)
        /\ req'[p].todo = Identified \/ (req'[p].todo = LoggingIn /\ req'[p].op = "login")
        /\ met \subseteq met'
    BY BeginShape
  <1>3. CASE ~Undisturbed'
    BY <1>3 DEF KeysInv
  <1> SUFFICES ASSUME Undisturbed'
               PROVE  KeysInv'
    BY <1>3
  <1>4. Undisturbed
    BY <1>2 DEF Undisturbed
  <1>5. Head(req'[p].todo).do = "lookup" \/ (Head(req'[p].todo).do = "allowed" /\ req'[p].op = "login")
    <2> DEFINE a == Do("lookup")
               b == Do("confirm")
               c == Do("allowed")
               d == Do("login_role")
               e == Do("is_active")
    <2>1. Identified = <<a, b>> /\ LoggingIn = <<c, d, e>> /\ a.do = "lookup" /\ c.do = "allowed"
      BY DEF Identified, LoggingIn, Do
    <2> HIDE DEF a, b, c, d, e
    <2>2. QED
      BY <1>2, <2>1, FirstOf
  <1>6. Relies(backend, tables, api_key_cache, req'[p], Head(req'[p].todo).do)
    <2>1. ASSUME req'[p].op = "create_api_key"
          PROVE  tables.keys[req'[p].arg.key] = Nobody /\ api_key_cache[req'[p].arg.key] = NoUser
      BY <2>1, BeginIds DEF IdsInv
    <2>2. QED
      BY <1>5, <2>1 DEF Relies
  <1>7. ASSUME NEW q \in Slots, q # p, Busy(q)
        PROVE  Relies(backend, tables, api_key_cache, req'[q], Head(req'[q].todo).do)
    <2>1. Relies(backend, tables, api_key_cache, req[q], Head(req[q].todo).do)
      BY <1>4, <1>7 DEF KeysInv
    <2>2. QED
      BY <1>2, <1>7, <2>1 DEF Relies, SameRequest
  <1>8. ASSUME NEW k \in Keys, api_key_cache[k] # NoUser
        PROVE  \/ Stored(tables.keys, k, api_key_cache[k].email, api_key_cache[k].label)
               \/ \E q \in Slots : Busy(q)' /\ Owes(req'[q], k, api_key_cache[k])
    <2>1. CASE \E q \in Slots : Busy(q) /\ Owes(req[q], k, api_key_cache[k])
      <3>1. PICK q \in Slots : Busy(q) /\ Owes(req[q], k, api_key_cache[k])
        BY <2>1
      <3>2. Busy(q)' /\ Owes(req'[q], k, api_key_cache[k])
        BY <1>2, <3>1 DEF Owes, SameRequest
      <3>3. QED
        BY <3>2
    <2>2. QED
      BY <1>4, <1>8, <2>1 DEF KeysInv
  <1> HIDE DEF Busy
  <1>9. \A q \in Slots : Busy(q)' => Relies(backend, tables, api_key_cache, req'[q], Head(req'[q].todo).do)
    BY <1>2, <1>6, <1>7
  <1>10. QED
    BY <1>1, <1>8, <1>9 DEF KeysInv

\* The cache built at the start of the daemon.
LEMMA BootStored ==
  ASSUME NEW t \in Tables, NEW k \in Keys, BootKeys(t)[k] # NoUser
  PROVE  Stored(t.keys, k, BootKeys(t)[k].email, BootKeys(t)[k].label)
  <1> DEFINE row == t.keys[k]
  <1>1. row # Nobody /\ BootKeys(t)[k] = [email |-> row.email, role |-> resolve_role(t, row.email),
                                         label |-> row.label]
    BY DEF BootKeys
  <1>2. row \in KeyRecords
    BY <1>1 DEF Tables
  <1>3. row = [email |-> row.email, label |-> row.label]
    BY <1>2 DEF KeyRecords
  <1>4. QED
    BY <1>1, <1>3 DEF Stored

LEMMA RestartKeepsKeys ==
  ASSUME TypeOK, backend \in {"store", "jsonl", "pg"}, Restart
  PROVE  KeysInv'
  <1>1. /\ tables' = BootTables(tables, log') /\ log' = BootLog(log, stored)
        /\ api_key_cache' = BootKeys(tables') /\ req' = [p \in Slots |-> Nothing]
    BY DEF Restart
  <1>2. tables' \in Tables
    BY RestartTyped DEF TypeOK
  <1>3. \A k \in Keys : api_key_cache'[k] # NoUser =>
            Stored(tables'.keys, k, api_key_cache'[k].email, api_key_cache'[k].label)
    <2> DEFINE t == tables'
    <2>1. t \in Tables /\ api_key_cache' = BootKeys(t)
      BY <1>1, <1>2
    <2> HIDE DEF t
    <2>2. \A k \in Keys : api_key_cache'[k] # NoUser =>
            Stored(t.keys, k, api_key_cache'[k].email, api_key_cache'[k].label)
      BY <2>1, BootStored
    <2>3. QED
      BY <2>2 DEF t
  <1>4. \A p \in Slots : ~Busy(p)'
    BY <1>1 DEF Busy, Idle
  <1> HIDE DEF Busy
  <1>5. QED
    BY <1>3, <1>4 DEF KeysInv

LEMMA InitKeys ==
  ASSUME Init, AuthInv
  PROVE  PathsInv /\ KeysInv
  <1>1. tables \in Tables /\ api_key_cache \in {BootKeys(tables), [k \in Keys |-> NoUser]}
    BY DEF Init, AuthInv, TypeOK
  <1>2. \A p \in Slots : ~Busy(p)
    BY DEF Init, Busy, Idle
  <1>3. \A k \in Keys : api_key_cache[k] # NoUser =>
            Stored(tables.keys, k, api_key_cache[k].email, api_key_cache[k].label)
    BY <1>1, BootStored
  <1>4. QED
    BY <1>2, <1>3 DEF PathsInv, KeysInv

LEMMA KeysStay ==
  ASSUME AuthInv, IdsInv, PathsInv, KeysInv, [Next]_vars
  PROVE  KeysInv'
  <1>1. TypeOK /\ RequestsInv /\ backend \in {"store", "jsonl", "pg"}
    BY DEF AuthInv
  <1>2. CASE \E p \in Slots : Begin(p)
    BY <1>1, <1>2, BeginKeepsKeys
  <1>3. CASE \E p \in Slots : Step(p)
    BY <1>1, <1>3, StepKeepsKeys
  <1>4. CASE \E s \in Sessions : Expire(s)
    BY <1>4 DEF Expire, KeysInv, Undisturbed, Busy, Idle, caches
  <1>5. CASE Restart
    BY <1>1, <1>5, RestartKeepsKeys
  <1>6. CASE UNCHANGED vars
    BY <1>6 DEF vars, KeysInv, Undisturbed, Busy, Idle
  <1>7. QED
    BY <1>2, <1>3, <1>4, <1>5, <1>6 DEF Next

\* Between requests the key cache holds no key that has been revoked, renamed or deleted with
\* its account: whatever is cached is stored, with its account and its label, over each of the
\* backends and across restarts, unless a request that takes keys away met another
\* (record_api_key, revoke_api_key_by_id, rename_api_key_by_id and get_user_by_key_hash of
\* src/auth/store.rs, delete_user, factory_reset).
THEOREM CachedAreStored == Spec => []CachedKeysAreStored
  <1>1. Init => AuthInv /\ IdsInv /\ PathsInv /\ KeysInv
    BY InitAuth, InitIds, InitKeys
  <1>2. AuthInv /\ IdsInv /\ PathsInv /\ KeysInv /\ [Next]_vars => IdsInv' /\ PathsInv' /\ KeysInv'
    BY IdsStay, PathsStay, KeysStay
  <1>3. KeysInv => CachedKeysAreStored
    BY DEF KeysInv, CachedKeysAreStored, Undisturbed, Removing, Stored, AllIdle, Busy
  <1>4. QED
    BY <1>1, <1>2, <1>3, AuthAlways, PTL DEF Spec

-----------------------------------------------------------------------------
(* Renamed folders *)

LEMMA PrefixOf ==
  ASSUME NEW S, NEW s \in Seq(S), NEW t \in Seq(S)
  PROVE  IsPrefix(s, t) <=> Len(s) <= Len(t) /\ \A i \in 1..Len(s) : s[i] = t[i]
  <1>1. Len(s) \in Nat /\ Len(t) \in Nat /\ SubSeq(s, 1, Len(s)) = s
    OBVIOUS
  <1>2. ASSUME Len(s) <= Len(t)
        PROVE  SubSeq(t, 1, Len(s)) = s <=> \A i \in 1..Len(s) : s[i] = t[i]
    <2> DEFINE n == Len(s)
               u == SubSeq(t, 1, n)
    <2>1. n \in Nat /\ n <= Len(t) /\ \A i \in 1..n : t[i] \in S
      BY <1>1, <1>2
    <2>2. u \in Seq(S) /\ Len(u) = n /\ \A i \in 1..n : u[i] = t[i]
      <3> HIDE DEF n
      <3>1. /\ SubSeq(t, 1, n) \in Seq(S)
            /\ Len(SubSeq(t, 1, n)) = IF 1 <= n THEN n - 1 + 1 ELSE 0
            /\ \A i \in 1..(n - 1 + 1) : SubSeq(t, 1, n)[i] = t[1 + i - 1]
        BY <2>1, SubSeqProperties
      <3>2. (1 <= n => n - 1 + 1 = n) /\ (~(1 <= n) => n = 0)
        BY <2>1
      <3>3. \A i \in 1..n : i \in 1..(n - 1 + 1) /\ 1 + i - 1 = i
        BY <2>1
      <3> HIDE DEF u
      <3>4. QED
        BY <3>1, <3>2, <3>3 DEF u
    <2> HIDE DEF u
    <2>3. (\A i \in 1..n : s[i] = t[i]) => u = s
      BY <2>2, SeqEqual
    <2>4. QED
      BY <2>2, <2>3 DEF u
  <1>3. QED
    BY <1>1, <1>2 DEF IsPrefix

LEMMA ConcatParts ==
  ASSUME NEW S, NEW u \in Seq(S), NEW v \in Seq(S), NEW m, NEW k, m = Len(u), k = Len(v)
  PROVE  /\ u \o v \in Seq(S) /\ Len(u \o v) = m + k
         /\ \A i \in 1..(m + k) : (u \o v)[i] = IF i <= m THEN u[i] ELSE v[i - m]
  <1>1. /\ u \o v \in Seq(S) /\ Len(u \o v) = Len(u) + Len(v)
        /\ \A i \in 1..(Len(u) + Len(v)) : (u \o v)[i] = IF i <= Len(u) THEN u[i] ELSE v[i - Len(u)]
    BY ConcatProperties
  <1>2. QED
    BY <1>1

\* What was under from is as long as it was, with to in the place of from.
LEMMA MovedUnder ==
  ASSUME NEW S, NEW path \in Seq(S), NEW from \in Seq(S), NEW to \in Seq(S), NEW m,
         Len(from) = m, Len(to) = m, Under(path, from)
  PROVE  /\ Moved(path, from, to) \in Seq(S) /\ Len(Moved(path, from, to)) = Len(path)
         /\ m <= Len(path)
         /\ \A i \in 1..Len(path) : Moved(path, from, to)[i] = IF i <= m THEN to[i] ELSE path[i]
         /\ \A i \in 1..m : path[i] = from[i]
  <1> DEFINE n == Len(path)
             rest == SubSeq(path, m + 1, n)
  <1>1. m \in Nat /\ n \in Nat /\ m <= n /\ \A i \in 1..m : path[i] = from[i]
    BY PrefixOf DEF Under
  <1>2. \A i \in (m + 1)..n : path[i] \in S
    BY <1>1
  <1>3. m + 1 \in Int /\ n \in Int /\ (m + 1 <= n => n - (m + 1) + 1 = n - m)
        /\ (~(m + 1 <= n) => 0 = n - m)
        /\ \A i \in 1..(n - m) : i \in 1..(n - (m + 1) + 1) /\ (m + 1) + i - 1 = m + i
    BY <1>1
  <1> HIDE DEF n
  <1>4. rest \in Seq(S) /\ Len(rest) = n - m /\ \A i \in 1..(n - m) : rest[i] = path[m + i]
    <2>1. /\ SubSeq(path, m + 1, n) \in Seq(S)
          /\ Len(SubSeq(path, m + 1, n)) = IF m + 1 <= n THEN n - (m + 1) + 1 ELSE 0
          /\ \A i \in 1..(n - (m + 1) + 1) : SubSeq(path, m + 1, n)[i] = path[(m + 1) + i - 1]
      BY <1>2, <1>3, SubSeqProperties
    <2>2. Len(SubSeq(path, m + 1, n)) = n - m
      BY <1>3, <2>1
    <2>3. \A i \in 1..(n - m) : SubSeq(path, m + 1, n)[i] = path[m + i]
      BY <1>3, <2>1
    <2>4. QED
      BY <2>1, <2>2, <2>3
  <1>5. Moved(path, from, to) = to \o rest
    BY DEF Moved, n
  <1> HIDE DEF rest
  <1>6. /\ to \o rest \in Seq(S) /\ Len(to \o rest) = m + (n - m)
        /\ \A i \in 1..(m + (n - m)) : (to \o rest)[i] = IF i <= m THEN to[i] ELSE rest[i - m]
    BY <1>4, ConcatParts
  <1>7. \A i \in 1..n : ~(i <= m) => rest[i - m] = path[i]
    <2> SUFFICES ASSUME NEW i \in 1..n, ~(i <= m)
                 PROVE  rest[i - m] = path[i]
      OBVIOUS
    <2>1. i - m \in 1..(n - m) /\ m + (i - m) = i
      BY <1>1
    <2>2. QED
      BY <1>4, <2>1
  <1>8. m + (n - m) = n
    BY <1>1
  <1>9. \A i \in 1..n : (to \o rest)[i] = IF i <= m THEN to[i] ELSE path[i]
    BY <1>6, <1>7, <1>8
  <1>10. QED
    BY <1>1, <1>5, <1>6, <1>8, <1>9 DEF n

LEMMA FolderPath ==
  ASSUME NEW S, NEW a \in S, NEW b \in S, NEW inside \in Seq(S), NEW k, Len(inside) = k
  PROVE  LET p == <<a, b>> \o inside
         IN  /\ p \in Seq(S) /\ Len(p) = 2 + k /\ p[1] = a /\ p[2] = b
             /\ \A i \in 1..(2 + k) : i > 2 => p[i] = inside[i - 2]
  <1> DEFINE u == <<a, b>>
             m == Len(u)
  <1>1. u \in Seq(S) /\ Len(u) = 2 /\ u[1] = a /\ u[2] = b /\ k \in Nat
    OBVIOUS
  <1> HIDE DEF u
  <1>2. /\ u \o inside \in Seq(S) /\ Len(u \o inside) = 2 + k
        /\ \A i \in 1..(2 + k) : (u \o inside)[i] = IF i <= 2 THEN u[i] ELSE inside[i - 2]
    <2>1. u \in Seq(S)
      BY <1>1
    <2> HIDE DEF m
    <2>2. /\ u \o inside \in Seq(S) /\ Len(u \o inside) = m + k
          /\ \A i \in 1..(m + k) : (u \o inside)[i] = IF i <= m THEN u[i] ELSE inside[i - m]
      BY <2>1, ConcatParts DEF m
    <2>3. m = 2
      BY <1>1 DEF m
    <2>4. QED
      BY <2>2, <2>3
  <1>3. 1 \in 1..(2 + k) /\ 2 \in 1..(2 + k) /\ \A i \in 1..(2 + k) : i > 2 => ~(i <= 2)
    BY <1>1
  <1>4. QED
    BY <1>1, <1>2, <1>3 DEF u

LEMMA PrefixAlike ==
  ASSUME NEW S, NEW s \in Seq(S), NEW r \in Seq(S), NEW p \in Seq(S), NEW q \in Seq(S),
         Len(r) = Len(s), Len(q) = Len(p),
         \A i \in 1..Len(s) : i <= Len(p) => (r[i] = q[i] <=> s[i] = p[i])
  PROVE  IsPrefix(r, q) <=> IsPrefix(s, p)
  <1>1. IsPrefix(s, p) <=> Len(s) <= Len(p) /\ \A i \in 1..Len(s) : s[i] = p[i]
    BY PrefixOf
  <1>2. IsPrefix(r, q) <=> Len(r) <= Len(q) /\ \A i \in 1..Len(r) : r[i] = q[i]
    BY PrefixOf
  <1>3. Len(s) <= Len(p) => \A i \in 1..Len(s) : i <= Len(p)
    OBVIOUS
  <1>4. QED
    BY <1>1, <1>2, <1>3

\* Inside the renamed folder a path matches after the move as it did before it.
LEMMA MovedPrefix ==
  ASSUME NEW S, NEW a \in S, NEW b \in S, NEW c \in S, NEW path \in Seq(S), NEW inside \in Seq(S),
         ~Under(path, <<a, c>>)
  PROVE  /\ Moved(path, <<a, b>>, <<a, c>>) \in Seq(S)
         /\ Len(Moved(path, <<a, b>>, <<a, c>>)) = Len(path)
         /\ IsPrefix(Moved(path, <<a, b>>, <<a, c>>), <<a, c>> \o inside)
               <=> IsPrefix(path, <<a, b>> \o inside)
  <1> DEFINE from == <<a, b>>
             to == <<a, c>>
             p == from \o inside
             q == to \o inside
             moved == Moved(path, from, to)
             n == Len(path)
             k == Len(inside)
  <1>0. from \in Seq(S) /\ to \in Seq(S) /\ path \in Seq(S)
    OBVIOUS
  <1>1. Len(from) = 2 /\ Len(to) = 2 /\ n \in Nat /\ k \in Nat
        /\ from[1] = a /\ from[2] = b /\ to[1] = a /\ to[2] = c
    OBVIOUS
  <1>2. /\ p \in Seq(S) /\ Len(p) = 2 + k /\ p[1] = a /\ p[2] = b
        /\ \A i \in 1..(2 + k) : i > 2 => p[i] = inside[i - 2]
    BY FolderPath
  <1>3. /\ q \in Seq(S) /\ Len(q) = 2 + k /\ q[1] = a /\ q[2] = c
        /\ \A i \in 1..(2 + k) : i > 2 => q[i] = inside[i - 2]
    BY FolderPath
  <1>4. moved \in Seq(S) /\ Len(moved) = n /\ (Under(path, from) => 2 <= n)
        /\ (Under(path, from) => \A i \in 1..n : moved[i] = IF i <= 2 THEN to[i] ELSE path[i])
        /\ (Under(path, from) => path[1] = a /\ path[2] = b)
    <2>1. CASE Under(path, from)
      <3> DEFINE m == Len(from)
      <3>0. m = 2 /\ Len(to) = m
        BY <1>1
      <3> HIDE DEF from, to, m
      <3>1. /\ Moved(path, from, to) \in Seq(S) /\ Len(Moved(path, from, to)) = Len(path)
            /\ m <= Len(path)
            /\ \A i \in 1..Len(path) : Moved(path, from, to)[i] = IF i <= m THEN to[i] ELSE path[i]
            /\ \A i \in 1..m : path[i] = from[i]
        <4>1. Len(to) = m
          BY <3>0
        <4>2. Len(from) = m
          BY DEF m
        <4>3. Moved(path, from, to) \in Seq(S) /\ Len(Moved(path, from, to)) = Len(path) /\ m <= Len(path)
          BY <1>0, <2>1, <4>1, <4>2, MovedUnder
        <4>4. \A i \in 1..Len(path) : Moved(path, from, to)[i] = IF i <= m THEN to[i] ELSE path[i]
          BY <1>0, <2>1, <4>1, <4>2, MovedUnder
        <4>5. \A i \in 1..m : path[i] = from[i]
          BY <1>0, <2>1, <4>2, PrefixOf DEF Under
        <4>6. QED
          BY <4>3, <4>4, <4>5
      <3>2. path[1] = from[1] /\ path[2] = from[2]
        BY <3>0, <3>1
      <3>3. QED
        BY <1>1, <3>0, <3>1, <3>2
    <2>2. CASE ~Under(path, from)
      BY <2>2 DEF Moved
    <2>3. QED
      BY <2>1, <2>2
  <1>5. Under(path, from) \/ moved = path
    BY DEF Moved
  <1>6. ~Under(path, from) => n <= 1 \/ path[1] # a \/ path[2] # b
    <2> HIDE DEF from
    <2>1. IsPrefix(from, path) <=> Len(from) <= n /\ \A i \in 1..Len(from) : from[i] = path[i]
      BY <1>0, PrefixOf
    <2>2. \A i \in 1..2 : i = 1 \/ i = 2
      OBVIOUS
    <2>3. QED
      BY <1>1, <2>1, <2>2 DEF Under
  <1>7. n <= 1 \/ path[1] # a \/ path[2] # c
    <2>0. ~Under(path, to)
      OBVIOUS
    <2> HIDE DEF to
    <2>1. IsPrefix(to, path) <=> Len(to) <= n /\ \A i \in 1..Len(to) : to[i] = path[i]
      BY <1>0, PrefixOf
    <2>2. \A i \in 1..2 : i = 1 \/ i = 2
      OBVIOUS
    <2>3. QED
      BY <1>1, <2>0, <2>1, <2>2 DEF Under
  <1> HIDE DEF p, q, moved, n, k, from, to
  <1>8. CASE Under(path, from)
    <2>1. ASSUME NEW i \in 1..n, i <= 2 + k
          PROVE  moved[i] = q[i] <=> path[i] = p[i]
      <3>1. i \in 1..(2 + k) /\ (i = 1 \/ i = 2 \/ i > 2)
        BY <1>1, <2>1
      <3>2. CASE i > 2
        <4>0. ~(i <= 2)
          BY <1>1, <3>2
        <4>1. moved[i] = path[i]
          BY <1>4, <1>8, <4>0
        <4>3. p[i] = q[i]
          BY <1>2, <1>3, <3>1, <3>2
        <4>4. QED
          BY <4>1, <4>3
      <3>3. CASE i = 1
        BY <1>1, <1>2, <1>3, <1>4, <1>8, <3>3
      <3>4. CASE i = 2
        BY <1>1, <1>2, <1>3, <1>4, <1>8, <3>4
      <3>5. QED
        BY <3>1, <3>2, <3>3, <3>4
    <2>2. Len(moved) = Len(path) /\ Len(q) = Len(p)
      BY <1>2, <1>3, <1>4 DEF n
    <2>3. \A i \in 1..Len(path) : i <= Len(p) => (moved[i] = q[i] <=> path[i] = p[i])
      BY <1>2, <2>1 DEF n
    <2>4. IsPrefix(moved, q) <=> IsPrefix(path, p)
      BY <1>2, <1>3, <1>4, <2>2, <2>3, PrefixAlike
    <2>5. QED
      BY <1>4, <2>2, <2>4 DEF moved, p, q, from, to
  <1>9. CASE ~Under(path, from)
    <2>1. moved = path
      BY <1>5, <1>9
    <2>2. n <= 1 \/ path[1] # a \/ (path[2] # b /\ path[2] # c)
      BY <1>6, <1>7, <1>9
    <2>3. ASSUME NEW s \in Seq(S), Len(s) = 2 + k, s[1] = a, s[2] = b \/ s[2] = c
          PROVE  IsPrefix(path, s) <=> n <= 1 /\ (n = 1 => path[1] = a)
      <3>1. IsPrefix(path, s) <=> n <= Len(s) /\ \A i \in 1..n : path[i] = s[i]
        <4>1. s \in Seq(S)
          BY <2>3
        <4>2. QED
          BY <4>1, PrefixOf DEF n
      <3>2. n <= 1 => \A i \in 1..n : i = 1 /\ n = 1
        BY <1>1
      <3>3. n > 1 => 1 \in 1..n /\ 2 \in 1..n
        BY <1>1
      <3>4. n <= 1 => n <= 2 + k
        BY <1>1
      <3>5. n = 1 => 1 \in 1..n
        OBVIOUS
      <3>6. CASE n <= 1
        BY <2>3, <3>1, <3>2, <3>4, <3>5, <3>6
      <3>7. CASE n > 1
        BY <2>2, <2>3, <3>1, <3>3, <3>7, <1>1
      <3>8. QED
        BY <1>1, <3>6, <3>7
    <2>4. IsPrefix(moved, q) <=> IsPrefix(path, p)
      BY <1>2, <1>3, <2>1, <2>3
    <2>5. QED
      BY <1>4, <2>4 DEF moved, p, q, from, to, n
  <1>10. QED
    BY <1>8, <1>9

\* Of finitely many grants one is the deepest, and the first of these.
LEMMA DeepestFirst ==
  ASSUME NEW n, n \in Nat, NEW m, \A i \in m : i \in 1..n, m # {}, NEW depth,
         \A i \in 1..n : depth[i] \in Nat
  PROVE  \E i \in m : \A j \in m : depth[i] > depth[j] \/ (depth[i] = depth[j] /\ i <= j)
  <1> DEFINE beats(i, j) == depth[i] > depth[j] \/ (depth[i] = depth[j] /\ i <= j)
             best(k, i) == i \in m /\ i \in 1..k /\ \A j \in m : j \in 1..k => beats(i, j)
             good == {k \in 0..n : (\E j \in m : j \in 1..k) => \E i \in 1..k : best(k, i)}
  <1>1. 0 \in good
    OBVIOUS
  <1>2. \A k \in 0..n : k \in good /\ k # n => k + 1 \in good
    <2> SUFFICES ASSUME NEW k \in 0..n, k \in good, k # n
                 PROVE  k + 1 \in good
      OBVIOUS
    <2> SUFFICES ASSUME NEW j \in m, j \in 1..(k + 1)
                 PROVE  \E i \in 1..(k + 1) : best(k + 1, i)
      <3>1. k + 1 \in 0..n
        OBVIOUS
      <3> HIDE DEF best
      <3>2. QED
        BY <3>1
    <2>1. k + 1 \in 1..n /\ \A i \in 1..n : depth[i] \in Nat
      OBVIOUS
    <2>2. \A i \in 1..(k + 1) : i \in 1..n /\ (i \in 1..k \/ i = k + 1)
      BY <2>1
    <2>3. CASE k + 1 \notin m
      <3>1. PICK i \in 1..k : best(k, i)
        BY <2>2, <2>3
      <3>2. best(k + 1, i) /\ i \in 1..(k + 1)
        BY <2>2, <2>3, <3>1
      <3>3. QED
        BY <3>2
    <2>4. CASE k + 1 \in m /\ \A i \in m : i \notin 1..k
      <3>1. best(k + 1, k + 1)
        BY <2>1, <2>2, <2>4
      <3>2. k + 1 \in 1..(k + 1)
        BY <2>1
      <3> HIDE DEF best
      <3>3. QED
        BY <3>1, <3>2
    <2>5. ASSUME k + 1 \in m, NEW one \in m, one \in 1..k
          PROVE  \E i \in 1..(k + 1) : best(k + 1, i)
      <3>1. PICK i \in 1..k : best(k, i)
        BY <2>5
      <3>2. i \in 1..(k + 1) /\ i \in 1..n /\ i <= k + 1 /\ k + 1 \in 1..(k + 1)
        BY <2>1, <3>1
      <3>3. CASE depth[k + 1] > depth[i]
        <4>1. \A l \in m : l \in 1..(k + 1) => beats(k + 1, l)
          BY <2>1, <2>2, <3>1, <3>2, <3>3
        <4>2. QED
          BY <2>5, <3>2, <4>1
      <3>4. CASE ~(depth[k + 1] > depth[i])
        <4>1. \A l \in m : l \in 1..k => beats(i, l)
          BY <3>1
        <4>2. depth[i] \in Nat /\ depth[k + 1] \in Nat
          BY <2>1, <3>2
        <4>3. beats(i, k + 1)
          BY <3>2, <3>4, <4>2
        <4>4. \A l \in m : l \in 1..(k + 1) => beats(i, l)
          <5> HIDE DEF beats
          <5>1. QED
            BY <2>2, <4>1, <4>3
        <4>5. QED
          BY <3>1, <3>2, <4>4
      <3>5. QED
        BY <3>3, <3>4
    <2> HIDE DEF best
    <2>6. QED
      BY <2>3, <2>4, <2>5
  <1> HIDE DEF good
  <1>3. \A k \in 0..n : k \in good
    BY <1>1, <1>2, UpTo
  <1>4. n \in good
    BY <1>3
  <1>5. QED
    BY <1>4 DEF good

Deepest(m, g, i) == \A j \in m : \/ Len(g[i].path) > Len(g[j].path)
                                 \/ Len(g[i].path) = Len(g[j].path) /\ i <= j

LEMMA DeepestGrant ==
  ASSUME NEW n \in Nat, NEW m, \A i \in m : i \in 1..n, m # {}, NEW g,
         \A i \in 1..n : Len(g[i].path) \in Nat
  PROVE  \E i \in m : Deepest(m, g, i)
  <1> DEFINE depth == [i \in 1..n |-> Len(g[i].path)]
  <1>1. (\A i \in 1..n : depth[i] \in Nat) /\ \A i \in 1..n : depth[i] = Len(g[i].path)
    OBVIOUS
  <1> HIDE DEF depth
  <1>2. \E i \in m : \A j \in m : depth[i] > depth[j] \/ (depth[i] = depth[j] /\ i <= j)
    BY <1>1, DeepestFirst
  <1>3. PICK i \in m : \A j \in m : depth[i] > depth[j] \/ (depth[i] = depth[j] /\ i <= j)
    BY <1>2
  <1>4. ASSUME NEW j \in m
        PROVE  Len(g[i].path) > Len(g[j].path) \/ (Len(g[i].path) = Len(g[j].path) /\ i <= j)
    <2>1. depth[i] = Len(g[i].path) /\ depth[j] = Len(g[j].path)
      BY <1>1
    <2>2. QED
      BY <1>3, <2>1
  <1>5. Deepest(m, g, i)
    BY <1>4 DEF Deepest
  <1>6. QED
    BY <1>5

\* The grants that match decide alike if they are as deep and as wide as the others.
Alike(n, g, h, p, q) ==
    /\ n \in Nat /\ DOMAIN g = 1..n /\ DOMAIN h = 1..n
    /\ \A i \in 1..n : /\ Len(g[i].path) \in Nat
                       /\ Len(h[i].path) = Len(g[i].path)
                       /\ h[i].permission = g[i].permission
                       /\ IsPrefix(h[i].path, q) <=> IsPrefix(g[i].path, p)

LEMMA SameResolution ==
  ASSUME NEW n, NEW g, NEW h, NEW p, NEW q, Alike(n, g, h, p, q)
  PROVE  ResolveFromGrants(q, h) = ResolveFromGrants(p, g)
  <1> DEFINE m == Matching(p, g)
             best(s) == CHOOSE i \in m : Deepest(m, s, i)
  <1>1. Matching(q, h) = m /\ \A i \in m : i \in 1..n
    BY DEF Matching, Alike
  <1>2. /\ ResolveFromGrants(q, h) = IF m = {} THEN Denied ELSE PermissionLevel(h[best(h)].permission)
        /\ ResolveFromGrants(p, g) = IF m = {} THEN Denied ELSE PermissionLevel(g[best(g)].permission)
    <2>1. ResolveFromGrants(q, h) = IF Matching(q, h) = {} THEN Denied
            ELSE PermissionLevel(h[CHOOSE i \in Matching(q, h) : Deepest(Matching(q, h), h, i)].permission)
      BY Zenon DEF ResolveFromGrants, Deepest
    <2>2. ResolveFromGrants(p, g) = IF m = {} THEN Denied ELSE PermissionLevel(g[best(g)].permission)
      BY Zenon DEF ResolveFromGrants, Deepest
    <2> HIDE DEF m
    <2>3. ResolveFromGrants(q, h) = IF m = {} THEN Denied ELSE PermissionLevel(h[best(h)].permission)
      BY <1>1, <2>1, Zenon
    <2>4. QED
      BY <2>2, <2>3
  <1> HIDE DEF m
  <1>3. \A i \in m : Deepest(m, h, i) <=> Deepest(m, g, i)
    <2>1. \A i \in m : Len(h[i].path) = Len(g[i].path)
      BY <1>1 DEF Alike
    <2>2. QED
      BY <2>1 DEF Deepest
  <1>4. best(h) = best(g)
    BY <1>3, Zenon
  <1>5. ASSUME m # {}
        PROVE  best(g) \in 1..n
    <2>1. n \in Nat /\ \A i \in 1..n : Len(g[i].path) \in Nat
      BY DEF Alike
    <2>2. \E i \in m : Deepest(m, g, i)
      BY <1>1, <1>5, <2>1, DeepestGrant
    <2>3. best(g) \in m
      BY <2>2, Zenon
    <2> HIDE DEF best
    <2>4. QED
      BY <1>1, <2>3
  <1> HIDE DEF best
  <1>6. m # {} => h[best(h)].permission = g[best(g)].permission
    BY <1>4, <1>5 DEF Alike
  <1>7. QED
    BY <1>2, <1>6

MovedShare(x, from, to) == [x EXCEPT !.path = Moved(@, from, to)]

LEMMA RelocatedShares ==
  ASSUME NEW s \in Seq(ShareRecords), NEW from \in Seq(STRING), NEW to \in Seq(STRING)
  PROVE  /\ Relocated(s, from, to) \in Seq(ShareRecords) /\ Len(Relocated(s, from, to)) = Len(s)
         /\ \A i \in 1..Len(s) :
               /\ Relocated(s, from, to)[i].path = Moved(s[i].path, from, to)
               /\ Relocated(s, from, to)[i].grantee = s[i].grantee
               /\ Relocated(s, from, to)[i].permission = s[i].permission
               /\ Relocated(s, from, to)[i] = MovedShare(s[i], from, to)
  <1> DEFINE r == Relocated(s, from, to)
             n == Len(s)
             new(x) == MovedShare(x, from, to)
  <1>1. n \in Nat /\ DOMAIN s = 1..n /\ \A i \in 1..n : s[i] \in ShareRecords
    OBVIOUS
  <1>2. r = [i \in 1..n |-> new(s[i])]
    BY <1>1 DEF Relocated, MovedShare
  <1>3. ASSUME NEW x \in ShareRecords
        PROVE  /\ new(x) \in ShareRecords /\ new(x).path = Moved(x.path, from, to)
               /\ new(x).grantee = x.grantee /\ new(x).permission = x.permission
    <2>1. Moved(x.path, from, to) \in Seq(STRING)
      BY MovedPath DEF ShareRecords
    <2>2. QED
      BY <2>1 DEF ShareRecords, MovedShare
  <1> HIDE DEF new, n
  <1>4. r \in [1..n -> ShareRecords] /\ \A i \in 1..n : r[i] = new(s[i])
    BY <1>1, <1>2, <1>3
  <1> HIDE DEF r
  <1>5. r \in Seq(ShareRecords) /\ Len(r) = n
    BY <1>1, <1>4
  <1>6. QED
    BY <1>1, <1>3, <1>4, <1>5 DEF r, new, n

\* The grants of an account after the move are its grants before it, moved.
LEMMA MovedGrants ==
  ASSUME NEW t \in Tables, NEW u, NEW from \in Seq(STRING), NEW to \in Seq(STRING), NEW e,
         u.shares = Relocated(t.shares, from, to)
  PROVE  GrantsOf(u, e) = Relocated(GrantsOf(t, e), from, to)
  <1> DEFINE s == t.shares
             r == u.shares
             n == Len(s)
             mine(v) == {x \in ToSet(v) : x.grantee = e}
             moved(v) == Relocated(v, from, to)
  <1>1. s \in Seq(ShareRecords) /\ n \in Nat /\ DOMAIN s = 1..n
    BY DEF Tables
  <1>2. /\ r \in Seq(ShareRecords) /\ Len(r) = n
        /\ \A i \in 1..n : r[i].grantee = s[i].grantee /\ r[i] = MovedShare(s[i], from, to)
    <2>1. s \in Seq(ShareRecords)
      BY <1>1
    <2> HIDE DEF s
    <2>2. r = Relocated(s, from, to)
      BY DEF s
    <2> HIDE DEF r
    <2>3. QED
      BY <2>1, <2>2, RelocatedShares DEF n
  <1>3. DOMAIN r = 1..n
    BY <1>2
  <1> HIDE DEF s, r, n
  <1>4. \A i \in 1..n : s[i] \in mine(s) <=> r[i] \in mine(r)
    BY <1>1, <1>2, <1>3 DEF ToSet
  <1> HIDE DEF mine
  <1>5. PICK f : Picking(f, s, ShareRecords, mine(s))
    BY <1>1, OnlyUnfolds
  <1>6. PICK h : Picking(h, r, ShareRecords, mine(r))
    BY <1>2, OnlyUnfolds
  <1>7. /\ f \in [0..n -> Seq(ShareRecords)] /\ f[0] = <<>> /\ Only(s, mine(s)) = f[n]
        /\ \A i \in 1..n : f[i] = IF s[i] \in mine(s) THEN Append(f[i - 1], s[i]) ELSE f[i - 1]
    BY <1>5 DEF Picking, n
  <1>8. /\ h \in [0..n -> Seq(ShareRecords)] /\ h[0] = <<>> /\ Only(r, mine(r)) = h[n]
        /\ \A i \in 1..n : h[i] = IF r[i] \in mine(r) THEN Append(h[i - 1], r[i]) ELSE h[i - 1]
    BY <1>2, <1>6 DEF Picking
  <1>9. /\ \A i \in 0..n : f[i] \in Seq(ShareRecords)
        /\ \A i \in 1..n : s[i] \in ShareRecords /\ r[i] \in ShareRecords
    <2>1. \A i \in 0..n : f[i] \in Seq(ShareRecords)
      BY <1>7
    <2>2. \A i \in 1..n : s[i] \in ShareRecords
      BY <1>1 DEF n
    <2>3. Len(r) = n /\ r \in Seq(ShareRecords)
      BY <1>2
    <2>4. \A i \in 1..n : r[i] \in ShareRecords
      BY <2>3
    <2>5. QED
      BY <2>1, <2>2, <2>4
  <1> DEFINE same == {i \in 0..n : h[i] = moved(f[i])}
  <1>10. 0 \in same
    <2>1. <<>> \in Seq(ShareRecords) /\ Len(<<>>) = 0
      OBVIOUS
    <2>2. moved(<<>>) \in Seq(ShareRecords) /\ Len(moved(<<>>)) = 0
      BY <2>1, RelocatedShares
    <2>3. moved(<<>>) = <<>>
      <3> HIDE DEF moved
      <3>1. QED
        BY <2>2
    <2>4. QED
      BY <1>1, <1>7, <1>8, <2>3
  <1>11. \A i \in 0..n : i \in same /\ i # n => i + 1 \in same
    <2> SUFFICES ASSUME NEW i \in 0..n, i \in same, i # n
                 PROVE  i + 1 \in same
      OBVIOUS
    <2>1. i + 1 \in 1..n /\ (i + 1) - 1 = i /\ i + 1 \in 0..n
      BY <1>1
    <2> DEFINE v == f[i]
               x == s[i + 1]
               y == r[i + 1]
    <2>2. v \in Seq(ShareRecords) /\ x \in ShareRecords /\ y \in ShareRecords
      BY <1>9, <2>1
    <2>3. y = MovedShare(x, from, to)
      BY <1>2, <2>1
    <2>4. h[i] = moved(v)
      OBVIOUS
    <2> HIDE DEF v, x, y
    <2>5. Append(moved(v), y) = moved(Append(v, x))
      <3> DEFINE w == Append(v, x)
                 k == Len(v)
      <3>1. w \in Seq(ShareRecords) /\ Len(w) = k + 1 /\ k \in Nat /\ w[k + 1] = x
            /\ \A j \in 1..k : w[j] = v[j]
        BY <2>2
      <3> HIDE DEF w
      <3>2. /\ moved(v) \in Seq(ShareRecords) /\ Len(moved(v)) = k
            /\ \A j \in 1..k : moved(v)[j] = MovedShare(v[j], from, to)
        BY <2>2, RelocatedShares
      <3>3. /\ moved(w) \in Seq(ShareRecords) /\ Len(moved(w)) = k + 1
            /\ \A j \in 1..(k + 1) : moved(w)[j] = MovedShare(w[j], from, to)
        <4>1. w \in Seq(ShareRecords)
          BY <3>1
        <4>2. /\ moved(w) \in Seq(ShareRecords) /\ Len(moved(w)) = Len(w)
              /\ \A j \in 1..Len(w) : moved(w)[j] = MovedShare(w[j], from, to)
          BY <4>1, RelocatedShares
        <4> HIDE DEF moved
        <4>3. QED
          BY <3>1, <4>2
      <3> HIDE DEF moved, k
      <3> DEFINE a == Append(moved(v), y)
      <3>4. a \in Seq(ShareRecords) /\ Len(a) = k + 1 /\ a[k + 1] = y
            /\ \A j \in 1..k : a[j] = moved(v)[j]
        BY <2>2, <3>2
      <3> HIDE DEF a
      <3>5. \A j \in 1..(k + 1) : a[j] = moved(w)[j]
        <4> TAKE j \in 1..(k + 1)
        <4>1. CASE j = k + 1
          BY <2>3, <3>1, <3>3, <3>4, <4>1
        <4>2. CASE j \in 1..k
          <5>1. a[j] = MovedShare(v[j], from, to)
            BY <3>2, <3>4, <4>2
          <5>2. moved(w)[j] = MovedShare(w[j], from, to) /\ w[j] = v[j]
            BY <3>1, <3>3, <4>2
          <5>3. QED
            BY <5>1, <5>2
        <4>3. QED
          BY <3>1, <4>1, <4>2
      <3>6. a = moved(w)
        BY <3>3, <3>4, <3>5, SeqEqual
      <3>7. QED
        BY <3>6 DEF a, w
    <2>6. f[i + 1] = IF x \in mine(s) THEN Append(v, x) ELSE v
      BY <1>7, <2>1 DEF v, x
    <2>7. h[i + 1] = IF y \in mine(r) THEN Append(moved(v), y) ELSE moved(v)
      BY <1>8, <2>1, <2>4 DEF y
    <2>8. x \in mine(s) <=> y \in mine(r)
      BY <1>4, <2>1 DEF x, y
    <2> HIDE DEF moved
    <2>9. h[i + 1] = moved(f[i + 1])
      BY <2>5, <2>6, <2>7, <2>8
    <2>10. QED
      BY <2>1, <2>9
  <1> HIDE DEF same
  <1>12. n \in same
    <2>1. \A i \in 0..n : i \in same
      BY <1>1, <1>10, <1>11, UpTo
    <2>2. QED
      BY <1>1, <2>1
  <1>13. Only(r, mine(r)) = moved(Only(s, mine(s)))
    BY <1>7, <1>8, <1>12 DEF same
  <1>14. QED
    BY <1>13 DEF GrantsOf, mine, moved, s, r

\* Resolved at the new name, the moved grants say what they said at the old one.
LEMMA MovedLevel ==
  ASSUME NEW t \in Tables, NEW u, NEW owner \in Emails, NEW e \in Emails,
         NEW names, STRING \subseteq names, NEW inside \in Seq(names),
         u.shares = Relocated(t.shares, Home(owner, Old), Home(owner, New)),
         \A i \in DOMAIN t.shares : ~Under(t.shares[i].path, Home(owner, New))
  PROVE  ResolveAccess(e, Home(owner, New) \o inside, GrantsOf(u, e), Unknown)
            = ResolveAccess(e, Home(owner, Old) \o inside, GrantsOf(t, e), Unknown)
  <1> DEFINE from == Home(owner, Old)
             to == Home(owner, New)
             g == GrantsOf(t, e)
             h == Relocated(g, from, to)
             n == Len(g)
             p == from \o inside
             q == to \o inside
  <1>1. /\ from \in Seq(STRING) /\ from[1] = owner /\ Len(from) = 2
        /\ to \in Seq(STRING) /\ to[1] = owner /\ Len(to) = 2
    BY HomePath
  <1>2. owner \in names /\ Old \in names /\ New \in names /\ inside \in Seq(names)
    <2>1. owner \in STRING /\ Old \in STRING /\ New \in STRING
      BY AuthAssumption
    <2>2. QED
      BY <2>1
  <1>3. GrantsOf(u, e) = h
    BY <1>1, MovedGrants
  <1>4. /\ g \in Seq(ShareRecords) /\ n \in Nat
        /\ \A i \in 1..n : g[i] \in ShareRecords /\ \E j \in DOMAIN t.shares : g[i] = t.shares[j]
    <2>1. t.shares \in Seq(ShareRecords)
      BY DEF Tables
    <2> DEFINE s == t.shares
               chosen == {x \in ToSet(s) : x.grantee = e}
    <2>2. Only(s, chosen) \in Seq(ShareRecords)
          /\ Elements(Only(s, chosen)) = Elements(s) \intersect chosen
      BY <2>1, OnlyPicks
    <2>3. g = Only(s, chosen)
      BY DEF GrantsOf
    <2> HIDE DEF g, chosen, s
    <2>4. s \in Seq(ShareRecords) /\ DOMAIN s = 1..Len(s)
      BY <2>1 DEF s
    <2>5. \A i \in 1..n : g[i] \in Elements(s)
      BY <2>2, <2>3 DEF Elements
    <2>6. QED
      BY <2>2, <2>3, <2>4, <2>5 DEF Elements, s
  <1> HIDE DEF g
  <1>5. /\ h \in Seq(ShareRecords) /\ Len(h) = n
        /\ \A i \in 1..n : h[i].path = Moved(g[i].path, from, to) /\ h[i].permission = g[i].permission
    <2>1. g \in Seq(ShareRecords) /\ from \in Seq(STRING) /\ to \in Seq(STRING)
      BY <1>1, <1>4
    <2> HIDE DEF from, to
    <2>2. QED
      BY <2>1, RelocatedShares
  <1> HIDE DEF h
  <1>6. ASSUME NEW i \in 1..n
        PROVE  /\ Len(g[i].path) \in Nat /\ Len(h[i].path) = Len(g[i].path)
               /\ IsPrefix(h[i].path, q) <=> IsPrefix(g[i].path, p)
    <2> DEFINE path == g[i].path
               a == <<owner, Old>>
               b == <<owner, New>>
    <2>1. path \in Seq(names) /\ ~Under(path, to)
      <3>1. path \in Seq(STRING) /\ ~Under(path, to)
        BY <1>4 DEF ShareRecords
      <3>2. Seq(STRING) \subseteq Seq(names)
        BY SeqMonotonic
      <3>3. QED
        BY <3>1, <3>2
    <2>2. from = a /\ to = b
      BY DEF Home
    <2> HIDE DEF path, from, to
    <2>3. LET moved == Moved(path, a, b)
          IN  /\ Len(moved) = Len(path)
              /\ IsPrefix(moved, b \o inside) <=> IsPrefix(path, a \o inside)
      BY <1>2, <2>1, <2>2, MovedPrefix
    <2>4. Len(path) \in Nat
      BY <2>1
    <2> HIDE DEF a, b
    <2>5. QED
      BY <1>5, <2>2, <2>3, <2>4 DEF path
  <1>7. ResolveFromGrants(q, h) = ResolveFromGrants(p, g)
    <2>1. DOMAIN g = 1..n /\ DOMAIN h = 1..n
      BY <1>4, <1>5
    <2> HIDE DEF n, p, q
    <2>2. n \in Nat
      BY <1>4
    <2>3. \A i \in 1..n : /\ Len(g[i].path) \in Nat
                          /\ Len(h[i].path) = Len(g[i].path)
                          /\ h[i].permission = g[i].permission
                          /\ IsPrefix(h[i].path, q) <=> IsPrefix(g[i].path, p)
      BY <1>5, <1>6
    <2>4. Alike(n, g, h, p, q)
      BY <2>1, <2>2, <2>3 DEF Alike
    <2>5. QED
      BY <2>4, SameResolution
  <1>8. p[1] = owner /\ q[1] = owner
    <2> HIDE DEF from, to
    <2> DEFINE both == names \union STRING
    <2>1. from \in Seq(both) /\ to \in Seq(both) /\ inside \in Seq(both)
      <3>1. Seq(STRING) \subseteq Seq(both) /\ Seq(names) \subseteq Seq(both)
        BY SeqMonotonic
      <3>2. QED
        BY <1>1, <3>1
    <2> HIDE DEF both
    <2>2. 1 \in 1..(2 + Len(inside))
      BY <2>1
    <2> DEFINE m == Len(from)
               l == Len(to)
    <2>3. m = 2 /\ l = 2
      BY <1>1
    <2> HIDE DEF m, l
    <2>4. (from \o inside)[1] = from[1]
      BY <2>1, <2>2, <2>3, ConcatProperties DEF m
    <2>5. (to \o inside)[1] = to[1]
      BY <2>1, <2>2, <2>3, ConcatProperties DEF l
    <2>6. QED
      BY <1>1, <2>4, <2>5
  <1> HIDE DEF p, q, from, to
  <1>9. ResolveAccess(e, q, h, Unknown) = ResolveAccess(e, p, g, Unknown)
    BY <1>7, <1>8 DEF ResolveAccess
  <1>10. QED
    BY <1>3, <1>9 DEF g, p, q, from, to

LEMMA CrashesCounted == Spec => [](crashes \in Nat)
  <1>1. Init => crashes \in Nat
    BY DEF Init
  <1>2. crashes \in Nat /\ [Next]_vars => (crashes \in Nat)'
    BY DEF Next, Begin, Step, Expire, Restart, vars
  <1>3. QED
    BY <1>1, <1>2, PTL DEF Spec

\* A renamed folder is as open to everybody as it was under its old name: the deepest grant
\* on the folder, on one above it or inside it decides as before, for every user, if no grant
\* was waiting at the new name (update_share_paths of src/auth/store.rs, resolve_access).
THEOREM RenamesKeepAccess == Spec => RenameKeepsAccess
  <1>1. AuthInv /\ crashes \in Nat /\ [Next]_vars =>
          \A p \in Slots : Takes(p, "update_share_paths") =>
            LET from == Home(Who(p), Old)
                to == Home(Who(p), New)
            IN  (\A i \in DOMAIN tables.shares : ~Under(tables.shares[i].path, to)) =>
                    \A e \in Emails : \A inside \in {<<>>, <<"exom">>} :
                        ResolveAccess(e, to \o inside, GrantsOf(tables', e), Unknown)
                            = ResolveAccess(e, from \o inside, GrantsOf(tables, e), Unknown)
    <2> SUFFICES ASSUME AuthInv, crashes \in Nat, [Next]_vars, NEW p \in Slots, At(p, "update_share_paths"),
                        req'[p].todo # req[p].todo, crashes' = crashes,
                        \A i \in DOMAIN tables.shares :
                            ~Under(tables.shares[i].path, Home(Who(p), New)),
                        NEW e \in Emails, NEW inside \in {<<>>, <<"exom">>}
                 PROVE  ResolveAccess(e, Home(Who(p), New) \o inside, GrantsOf(tables', e), Unknown)
                          = ResolveAccess(e, Home(Who(p), Old) \o inside, GrantsOf(tables, e), Unknown)
      BY DEF Takes
    <2>1. TypeOK /\ RequestsInv /\ tables \in Tables /\ Busy(p)
          /\ Head(req[p].todo).do = "update_share_paths"
      BY DEF AuthInv, At, TypeOK
    <2>2. Who(p) \in Emails
      BY <2>1, AtServed DEF Opening
    <2>3. update_share_paths(p)
      <3>1. CASE \E q \in Slots : Begin(q)
        <4>1. PICK q \in Slots : Begin(q)
          BY <3>1
        <4>2. q # p => req'[p].todo = req[p].todo
          BY <2>1, <4>1, BeginShape
        <4>3. q # p
          BY <2>1, <4>1, BeginShape
        <4>4. QED
          BY <4>2, <4>3
      <3>2. ASSUME NEW q \in Slots, Step(q)
            PROVE  update_share_paths(p)
        <4>1. q = p
          BY <2>1, <3>2, StepShape
        <4>2. ServedStep(p)
          BY <2>1, <3>2, <4>1, StepTaken DEF Opening
        <4>3. QED
          BY <2>1, <4>2 DEF ServedStep, At, CacheSession, RecordUser, RecordSession, Seed,
             AppendStep, ApplyStep, Exists, OwnsKey, OwnsShare, revoke_share_by_id,
             delete_shares_under, drop_sessions, delete_rows, drop_keys, delete_session, delete_row,
             CacheKey, DropKey, Label, RemoveTree, factory_reset_state, factory_reset
      <3>3. CASE \E s \in Sessions : Expire(s)
        BY <3>3 DEF Expire
      <3>4. CASE Restart
        BY <2>1, <3>4 DEF Restart
      <3>5. CASE UNCHANGED vars
        BY <3>5 DEF vars
      <3>6. QED
        BY <3>1, <3>2, <3>3, <3>4, <3>5 DEF Next
    <2>4. tables'.shares = Relocated(tables.shares, Home(Who(p), Old), Home(Who(p), New))
      BY <2>1, <2>3 DEF update_share_paths, Tables
    <2> DEFINE names == STRING \union {"exom"}
    <2>5. STRING \subseteq names /\ inside \in Seq(names)
      <3>1. STRING \subseteq names /\ "exom" \in names
        OBVIOUS
      <3> HIDE DEF names
      <3>2. <<>> \in Seq(names) /\ <<"exom">> \in Seq(names)
        BY <3>1
      <3>3. QED
        BY <3>1, <3>2
    <2> HIDE DEF names
    <2> HIDE DEF Who
    <2>6. QED
      BY <2>1, <2>2, <2>4, <2>5, MovedLevel
  <1>2. QED
    BY <1>1, AuthAlways, CrashesCounted, PTL DEF Spec, RenameKeepsAccess

=============================================================================
