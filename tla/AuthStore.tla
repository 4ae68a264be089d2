----------------------------- MODULE AuthStore -----------------------------
(***************************************************************************)
(* Accounts, sessions, API keys and shares (src/auth/store.rs, the         *)
(* handlers of src/auth/routes.rs and src/auth/admin.rs, the extractors of *)
(* src/auth/middleware.rs), over its three backends:                       *)
(*   store  tables in memory, rebuilt at start from the log auth.jsonl;    *)
(*   jsonl  the same behind the AuthDb trait (src/db/jsonl_auth.rs);       *)
(*   pg     tables in Postgres (src/db/pg_auth.rs), one statement a step.  *)
(* In front of all three are two caches of resolved users, one by session  *)
(* and one by API key, that only live as long as the process.              *)
(*                                                                         *)
(* A request is a list of steps and two requests interleave between them:  *)
(* every step is one statement under one lock, or one call of the AuthDb.  *)
(***************************************************************************)
EXTENDS Access

CONSTANTS
    Emails,         \* the accounts
    DomainOf,       \* the domain of each email
    SeedDomains,    \* the domains the daemon is started with
    Sessions,       \* session ids
    Keys,           \* API key ids; a hash is as good as its id
    Shares,         \* share ids
    Labels,         \* labels of API keys
    Permissions,    \* of a share: "read", "read-write"
    Old, New,       \* the folders <email>/old and, once renamed, <email>/new
    Backends,       \* the backends to look at: a subset of {"store", "jsonl", "pg"}
    Histories,      \* the entries an earlier daemon may have left, in order
    MaxRequests,    \* bound: requests in a behaviour
    MaxParallel,    \* bound: requests in progress at a time
    MaxCrashes,     \* bound: stops of the daemon
    Nobody

ASSUME AuthAssumption ==
    /\ Emails \union {Old, New} \subseteq STRING
    /\ IsFiniteSet(Emails) /\ IsFiniteSet(SeedDomains)
    /\ Nobody \notin Emails /\ Nobody \notin [email : Emails, label : Labels]
    /\ Sessions \intersect Keys = {}
    /\ Permissions \subseteq {"read", "read-write"}
    /\ Backends \subseteq {"store", "jsonl", "pg"}
    /\ MaxRequests \in Nat /\ MaxParallel \in Nat \ {0} /\ MaxCrashes \in Nat

VARIABLES
    backend,        \* the backend in use
    tables,         \* users, roles, keys, shares and login policy
    log,            \* auth.jsonl, a sequence of entries
    stored,         \* the directory of auth.jsonl exists
    rows,           \* the session rows of the AuthDb
    session_cache, api_key_cache,
    req,            \* the requests in progress
    issued,         \* the ids given out
    begun, crashes, \* counters, for the bounds
    met,            \* the pairs of operations that have been in progress at once
    barred,         \* accounts deactivated, and not activated or deleted since
    since           \* of each request, those that were barred ever since it began

vars == <<backend, tables, log, stored, rows, session_cache, api_key_cache, req,
          issued, begun, crashes, met, barred, since>>

store == <<backend, tables, log, stored, rows>>
caches == <<session_cache, api_key_cache>>

-----------------------------------------------------------------------------
(* Tables *)

Roles == {"regular", "admin", "top"}

EmptyTables ==
    [users |-> [e \in Emails |-> "none"], top |-> {}, admins |-> {},
     keys |-> [k \in Keys |-> Nobody], shares |-> <<>>, domains |-> {}, emails |-> {}]

IsUser(t, e) == t.users[e] # "none"

\* A slip to catch: any account that is known will do.
ActiveOrKnown(t, e) == IsUser(t, e)

Active(t, e) == t.users[e] = "active"

\* A TopAdmin of the log is an Admin no less if the log says so: the first test decides.
resolve_role(t, e) ==
    IF e \in t.top THEN "top" ELSE IF e \in t.admins THEN "admin" ELSE "regular"

\* Those of the shares that are in the set chosen, in their order.
Only(shares, chosen) ==
    LET found[n \in 0..Len(shares)] ==
            IF n = 0 THEN <<>>
            ELSE IF shares[n] \in chosen THEN Append(found[n - 1], shares[n]) ELSE found[n - 1]
    IN  found[Len(shares)]

\* The shares t keeps when those that satisfy Gone are removed.
Retain(t, Gone(_)) == [t EXCEPT !.shares = Only(@, {s \in ToSet(@) : ~Gone(s)})]

\* Entries: what the log says, and what is asked of the database.
ShareRecords == [id : Shares, owner : Emails, grantee : Emails, path : Seq(STRING),
                 permission : {"read", "read-write"}]

Entries ==
    [kind : {"user"}, email : Emails, active : BOOLEAN]
    \union [kind : {"top-admin", "admin", "admin-revoke", "user-deactivate", "user-activate",
                    "user-delete", "allowed-email", "allowed-email-revoke"}, email : Emails]
    \union [kind : {"api-key"}, key : Keys, email : Emails, label : Labels]
    \union [kind : {"api-key-relabel"}, key : Keys, label : Labels]
    \union [kind : {"api-key-revoke"}, key : Keys]
    \union [kind : {"share"}, share : ShareRecords]
    \union [kind : {"share-revoke"}, id : Shares]
    \union [kind : {"share-path-update"}, id : Shares, path : Seq(STRING)]
    \union [kind : {"domain", "domain-revoke"}, domain : SeedDomains]

\* An earlier daemon has had one top administrator.
ASSUME HistoriesAssumption ==
    /\ Histories \subseteq Seq(Entries)
    /\ \A h \in Histories : \A i, j \in DOMAIN h :
          h[i].kind = "top-admin" /\ h[j].kind = "top-admin" => h[i].email = h[j].email

\* Each of its shares had an id of its own and was in a folder of its owner's, wherever it
\* was moved.
ASSUME SharesAssumption ==
    \A h \in Histories : \A i, j \in DOMAIN h : h[i].kind = "share" =>
        /\ h[i].share.path # <<>> /\ h[i].share.path[1] = h[i].share.owner
        /\ h[j].kind = "share" /\ h[j].share.id = h[i].share.id => i = j
        /\ h[j].kind = "share-path-update" /\ h[j].id = h[i].share.id =>
              h[j].path # <<>> /\ h[j].path[1] = h[i].share.owner

\* Whatever it was given to, the account existed: nothing was created for an account while it
\* was being deleted.
HasAccount(h, i, e) ==
    \E j \in 1..i : /\ h[j].kind = "user" /\ h[j].email = e
                    /\ \A k \in j..i : h[k].kind = "user-delete" => h[k].email # e

ASSUME AccountsAssumption ==
    \A h \in Histories : \A i \in DOMAIN h :
        /\ h[i].kind \in {"top-admin", "api-key"} => HasAccount(h, i, h[i].email)
        /\ h[i].kind = "share" => HasAccount(h, i, h[i].share.owner)

UserEntry(e, active) == [kind |-> "user", email |-> e, active |-> active]
About(kind, e) == [kind |-> kind, email |-> e]
KeyEntry(k, e, label) == [kind |-> "api-key", key |-> k, email |-> e, label |-> label]
Relabel(k, label) == [kind |-> "api-key-relabel", key |-> k, label |-> label]
KeyRevoke(k) == [kind |-> "api-key-revoke", key |-> k]
ShareEntry(s) == [kind |-> "share", share |-> s]
ShareRevoke(id) == [kind |-> "share-revoke", id |-> id]
PathUpdate(id, path) == [kind |-> "share-path-update", id |-> id, path |-> path]
Policy(kind, d) == [kind |-> kind, domain |-> d]

\* A slip to catch: the account goes and its keys stay.
DeletedUserOnly(t, e) ==
    [Retain(t, LAMBDA s : s.owner = e \/ s.grantee = e \/ s.path[1] = e) EXCEPT
        !.users[e] = "none", !.top = @ \ {e}, !.admins = @ \ {e}]

\* user-delete: the account, its roles, its keys, and every share it has a part in.
DeletedUser(t, e) ==
    [Retain(t, LAMBDA s : s.owner = e \/ s.grantee = e \/ s.path[1] = e) EXCEPT
        !.users[e] = "none", !.top = @ \ {e}, !.admins = @ \ {e},
        !.keys = [k \in Keys |-> IF t.keys[k] # Nobody /\ t.keys[k].email = e
                                 THEN Nobody ELSE t.keys[k]]]

\* apply_entry: how the two logs act on the tables.  The store knows no relabel.
apply_entry(t, x) ==
    CASE x.kind = "user" ->
           [t EXCEPT !.users[x.email] = IF x.active THEN "active" ELSE "inactive"]
      [] x.kind = "top-admin" -> [t EXCEPT !.top = {x.email}]
      [] x.kind = "admin" -> [t EXCEPT !.admins = @ \union {x.email}]
      [] x.kind = "admin-revoke" -> [t EXCEPT !.admins = @ \ {x.email}]
      [] x.kind = "api-key" -> [t EXCEPT !.keys[x.key] = [email |-> x.email, label |-> x.label]]
      [] x.kind = "api-key-revoke" -> [t EXCEPT !.keys[x.key] = Nobody]
      [] x.kind = "api-key-relabel" ->
           IF backend = "store" \/ t.keys[x.key] = Nobody THEN t
           ELSE [t EXCEPT !.keys[x.key].label = x.label]
      [] x.kind = "share" -> [t EXCEPT !.shares = Append(@, x.share)]
      [] x.kind = "share-revoke" -> Retain(t, LAMBDA s : s.id = x.id)
      [] x.kind = "share-path-update" ->
           [t EXCEPT !.shares = [i \in DOMAIN @ |->
                IF @[i].id = x.id THEN [@[i] EXCEPT !.path = x.path] ELSE @[i]]]
      [] x.kind = "domain" -> [t EXCEPT !.domains = @ \union {x.domain}]
      [] x.kind = "domain-revoke" -> [t EXCEPT !.domains = @ \ {x.domain}]
      [] x.kind = "allowed-email" -> [t EXCEPT !.emails = @ \union {x.email}]
      [] x.kind = "allowed-email-revoke" -> [t EXCEPT !.emails = @ \ {x.email}]
      [] x.kind = "user-deactivate" ->
           IF IsUser(t, x.email) THEN [t EXCEPT !.users[x.email] = "inactive"] ELSE t
      [] x.kind = "user-activate" ->
           IF IsUser(t, x.email) THEN [t EXCEPT !.users[x.email] = "active"] ELSE t
      [] x.kind = "user-delete" -> DeletedUser(t, x.email)

\* set_role of the database: one role per row, and no row for an unknown account.
set_role(t, e, role) ==
    IF ~IsUser(t, e) THEN t
    ELSE [t EXCEPT !.top = IF role = "top" THEN @ \union {e} ELSE @ \ {e},
                   !.admins = IF role = "admin" THEN @ \union {e} ELSE @ \ {e}]

\* A new row is active; that of a known account keeps its state.
upsert_user(t, e) == IF IsUser(t, e) THEN t ELSE [t EXCEPT !.users[e] = "active"]

\* Keys and shares refer to user rows; the statement fails, and is logged, without them.
execute(t, x) ==
    CASE x.kind = "user" -> upsert_user(t, x.email)
      [] x.kind = "top-admin" -> set_role(t, x.email, "top")
      [] x.kind = "admin" -> set_role(t, x.email, "admin")
      [] x.kind = "admin-revoke" -> set_role(t, x.email, "regular")
      [] x.kind = "api-key" -> IF IsUser(t, x.email) THEN apply_entry(t, x) ELSE t
      [] x.kind = "share" ->
           IF IsUser(t, x.share.owner) /\ IsUser(t, x.share.grantee)
           THEN apply_entry(t, x) ELSE t
      [] OTHER -> apply_entry(t, x)

Changed(t, x) == IF backend = "pg" THEN execute(t, x) ELSE apply_entry(t, x)

\* The tables after a log; after statements, if there is a database instead of a log.
replay_jsonl(entries) ==
    LET after[n \in 0..Len(entries)] ==
            IF n = 0 THEN EmptyTables ELSE Changed(after[n - 1], entries[n])
    IN  after[Len(entries)]

-----------------------------------------------------------------------------
(* Requests *)

Slots == 1..MaxParallel

Do(step) == [do |-> step, x |-> [kind |-> "none"]]
AppendEntry(x) == [do |-> "append", x |-> x]
ApplyEntry(x) == [do |-> "apply", x |-> x]
On(step, x) == [do |-> step, x |-> x]

NoUser == [email |-> Nobody, role |-> "none", label |-> "none"]
Request(op, cred, arg, todo) ==
    [op |-> op, cred |-> cred, arg |-> arg, user |-> NoUser, cached |-> FALSE, alone |-> TRUE,
     todo |-> todo]
Nothing == Request("none", Nobody, Nobody, <<>>)

Idle(p) == req[p] = Nothing
Busy(p) == ~Idle(p)
AllIdle == \A p \in Slots : Idle(p)

\* Persist: the log is written, then the entry is applied; a database does both at once.
Persist(x) == IF backend = "pg" THEN <<ApplyEntry(x)>> ELSE <<AppendEntry(x), ApplyEntry(x)>>

revoke_user_access(e) ==
    <<On("drop_sessions", About("none", e)), On("delete_rows", About("none", e)),
      On("drop_keys", About("none", e))>>

Home(e, folder) == <<e, folder>>
NewShare(id, owner, grantee, path, permission) ==
    [id |-> id, owner |-> owner, grantee |-> grantee, path |-> path, permission |-> permission]

-----------------------------------------------------------------------------
(* Handlers: what a request does once its user is known *)

set_top_admin(e) == Persist(About("top-admin", e))

\* A slip to catch: the role is written as set_top_admin writes it.
grant_top_admin(e) == Persist(About("top-admin", e))

grant_admin(e) == Persist(About("admin", e))
revoke_admin(e) == Persist(About("admin-revoke", e))
deactivate_user(e) == Persist(About("user-deactivate", e)) \o revoke_user_access(e)
activate_user(e) == Persist(About("user-activate", e)) \o revoke_user_access(e)
delete_user(e) ==
    <<On("exists", About("none", e))>> \o Persist(About("user-delete", e)) \o revoke_user_access(e)

add_domain(d) == Persist(Policy("domain", d))
remove_domain(d) == Persist(Policy("domain-revoke", d))
add_allowed_email(e) == Persist(About("allowed-email", e))
remove_allowed_email(e) == Persist(About("allowed-email-revoke", e))

login_known(e, role) ==
    <<Do("cache_session"), Do("record_user"), Do("record_session"), Do("seed")>>
    \o (IF role = "top" THEN set_top_admin(e) ELSE <<>>)

logout(sid) == IF sid \in Sessions THEN <<On("delete_session", About("none", sid))>> ELSE <<>>

create_api_key(key, owner, label) == Persist(KeyEntry(key, owner, label)) \o <<Do("cache_key")>>

revoke_api_key(key) == <<Do("owns_key")>> \o Persist(KeyRevoke(key)) \o <<Do("drop_key")>>

rename_api_key(key, label) ==
    <<Do("owns_key")>>
    \o (IF backend = "store" THEN <<AppendEntry(Relabel(key, label))>> ELSE Persist(Relabel(key, label)))
    \o <<Do("label")>>

create_share(arg, owner) ==
    Persist(ShareEntry(NewShare(arg.share, owner, arg.grantee, Home(owner, arg.folder), arg.permission)))

revoke_share(id) == <<On("owns_share", ShareRevoke(id)), On("revoke_share", ShareRevoke(id))>>

\* A handler: whether it serves the user, and the steps it takes.  Every user has the
\* handlers of its own keys and shares; "rename" and "delete" of a folder stand for the
\* calls update_share_paths and delete_shares_under those handlers end with.
Serves(needs, user, todo) ==
    [allowed |-> CASE needs = "user" -> TRUE
                   [] needs = "admin" -> user.role \in {"admin", "top"}
                   [] needs = "top" -> user.role = "top",
     todo |-> todo]

UserHandler(r) ==
    LET a == r.arg
    IN  CASE r.op = "me" -> <<>>
          [] r.op = "logout" -> logout(r.cred)
          [] r.op = "create_api_key" -> create_api_key(a.key, r.user.email, a.label)
          [] r.op = "revoke_api_key" -> revoke_api_key(a.key)
          [] r.op = "rename_api_key" -> rename_api_key(a.key, a.label)
          [] r.op = "create_share" -> create_share(a, r.user.email)
          [] r.op = "revoke_share" -> revoke_share(a)
          [] r.op = "rename" -> <<Do("update_share_paths")>>
          [] r.op = "delete" -> <<Do("delete_shares_under")>>

TopHandler(r) ==
    LET a == r.arg
    IN  CASE r.op = "deactivate" -> deactivate_user(a)
          [] r.op = "activate" -> activate_user(a)
          [] r.op = "delete_user" -> delete_user(a)
          [] r.op = "grant_admin" -> grant_admin(a)
          [] r.op = "revoke_admin" -> revoke_admin(a)
          [] r.op = "add_domain" -> add_domain(a)
          [] r.op = "remove_domain" -> remove_domain(a)
          [] r.op = "add_email" -> add_allowed_email(a)
          [] r.op = "remove_email" -> remove_allowed_email(a)
          [] r.op = "factory_reset" -> <<Do("remove_tree"), Do("clear"), Do("reset_db")>>

UserOps == {"me", "logout", "create_api_key", "revoke_api_key", "rename_api_key",
            "create_share", "revoke_share", "rename", "delete"}

Handler(r) ==
    IF r.op \in UserOps THEN Serves("user", r.user, UserHandler(r))
    ELSE IF r.op = "kill_session" THEN Serves("admin", r.user, <<On("delete_session", About("none", r.arg))>>)
    ELSE [Serves("top", r.user, TopHandler(r)) EXCEPT
            !.allowed = @ /\ (r.op \in {"deactivate", "delete_user"} => r.arg # r.user.email)]

-----------------------------------------------------------------------------
(* Steps *)

At(p, step) == Busy(p) /\ Head(req[p].todo).do = step
Arg(p) == Head(req[p].todo).x
Who(p) == req[p].user.email

\* A finished request leaves nothing behind.
Goes(p, r) == req' = [req EXCEPT ![p] = IF r.todo = <<>> THEN Nothing ELSE r]
Rest(p) == [req[p] EXCEPT !.todo = Tail(@)]
Then(p, steps) == Goes(p, [req[p] EXCEPT !.todo = steps \o Tail(@)])
Advance(p) == Then(p, <<>>)
Refuse(p) == Goes(p, Nothing)
Pass(p, holds) == IF holds THEN Advance(p) ELSE Refuse(p)

(* get_user_by_session and get_user_by_key_hash: first the cache or the row *)

Row(k) == [email |-> tables.keys[k].email, role |-> resolve_role(tables, tables.keys[k].email),
           label |-> tables.keys[k].label]

\* Without its account a key of jsonl counts as active; its join makes pg refuse it.
Usable(k) ==
    /\ tables.keys[k] # Nobody
    /\ \/ Active(tables, tables.keys[k].email)
       \/ backend = "jsonl" /\ ~IsUser(tables, tables.keys[k].email)

Lookup(p) ==
    LET c == req[p].cred
        Found(user, cached) == Goes(p, [Rest(p) EXCEPT !.user = user, !.cached = cached])
    IN  /\ At(p, "lookup")
        /\ IF c \in Sessions
           THEN IF session_cache[c] # NoUser THEN Found(session_cache[c], TRUE)
                ELSE IF rows[c] # Nobody THEN Found([NoUser EXCEPT !.email = rows[c]], FALSE)
                ELSE Refuse(p)
           ELSE IF api_key_cache[c] # NoUser THEN Found(api_key_cache[c], TRUE)
                ELSE IF Usable(c) THEN Found(Row(c), FALSE)
                ELSE Refuse(p)
        /\ UNCHANGED <<store, caches, barred>>

\* The user is known: the handler decides whether it may go on.
Serve(p, user) ==
    LET r == [req[p] EXCEPT !.user = user]
        h == Handler(r)
    IN  IF h.allowed THEN Goes(p, [r EXCEPT !.todo = h.todo]) ELSE Refuse(p)

(* then, of a cached user, whether the account is still active *)

ConfirmSession(p) ==
    LET c == req[p].cred
        e == Who(p)
        fresh == IF req[p].cached THEN req[p].user
                 ELSE [NoUser EXCEPT !.email = e, !.role = resolve_role(tables, e)]
    IN  /\ At(p, "confirm") /\ c \in Sessions
        /\ \/ /\ Active(tables, e)
              /\ Serve(p, fresh)
              /\ UNCHANGED session_cache
           \/ /\ ~Active(tables, e)
              /\ Refuse(p)
              /\ session_cache' = IF req[p].cached THEN [session_cache EXCEPT ![c] = NoUser]
                                  ELSE session_cache
        /\ UNCHANGED <<store, api_key_cache, barred>>

ConfirmKey(p) ==
    LET c == req[p].cred
    IN  /\ At(p, "confirm") /\ c \in Keys
        /\ \/ /\ ~req[p].cached
              /\ api_key_cache' = [api_key_cache EXCEPT ![c] = req[p].user]
              /\ Serve(p, req[p].user)
           \/ /\ req[p].cached /\ Active(tables, Who(p))
              /\ Serve(p, req[p].user)
              /\ UNCHANGED api_key_cache
           \/ /\ req[p].cached /\ ~Active(tables, Who(p))
              /\ api_key_cache' = [api_key_cache EXCEPT ![c] = NoUser]
              /\ Refuse(p)
        /\ UNCHANGED <<store, session_cache, barred>>

(* login and dev_login *)

is_login_allowed(e) ==
    \/ tables.domains = {} /\ tables.emails = {}
    \/ e \in tables.emails
    \/ DomainOf[e] \in tables.domains

Allowed(p) ==
    /\ At(p, "allowed")
    /\ Pass(p, is_login_allowed(req[p].arg))
    /\ UNCHANGED <<store, caches, barred>>

\* A database knows the role of an account it has; the log has roles without accounts.
login_role(e) ==
    IF IsUser(tables, e) \/ (backend = "store" /\ resolve_role(tables, e) # "regular")
    THEN resolve_role(tables, e)
    ELSE IF \A u \in Emails : ~IsUser(tables, u) THEN "top" ELSE "regular"

LoginRole(p) ==
    LET e == req[p].arg
    IN  /\ At(p, "login_role")
        /\ Goes(p, [Rest(p) EXCEPT !.user = [NoUser EXCEPT !.email = e, !.role = login_role(e)]])
        /\ UNCHANGED <<store, caches, barred>>

LoginActive(p) ==
    /\ At(p, "is_active")
    /\ IF tables.users[Who(p)] = "inactive" THEN Refuse(p)
       ELSE Then(p, login_known(Who(p), req[p].user.role))
    /\ UNCHANGED <<store, caches, barred>>

CacheSession(p) ==
    /\ At(p, "cache_session")
    /\ session_cache' = [session_cache EXCEPT ![req[p].cred] = req[p].user]
    /\ Advance(p)
    /\ UNCHANGED <<store, api_key_cache, barred>>

\* record_user writes the account back as active as it found it.
RecordUser(p) ==
    /\ At(p, "record_user")
    /\ Then(p, Persist(UserEntry(Who(p), tables.users[Who(p)] # "inactive")))
    /\ UNCHANGED <<store, caches, barred>>

RecordSession(p) ==
    /\ At(p, "record_session")
    /\ rows' = IF backend = "store" \/ (backend = "pg" /\ ~IsUser(tables, Who(p))) THEN rows
               ELSE [rows EXCEPT ![req[p].cred] = Who(p)]
    /\ Advance(p)
    /\ UNCHANGED <<backend, tables, log, stored, caches, barred>>

\* bootstrap_public_tree may fail, and the login with it.
Seed(p) ==
    /\ At(p, "seed")
    /\ Advance(p) \/ Refuse(p)
    /\ UNCHANGED <<store, caches, barred>>

(* The log and the tables *)

\* append_entry: where the directory is gone the error is dropped.  An activation counts
\* from here: a daemon that stops now starts with the account active.
AppendStep(p) ==
    /\ At(p, "append")
    /\ log' = IF stored THEN Append(log, Arg(p)) ELSE log
    /\ barred' = IF stored /\ Arg(p).kind = "user-activate" THEN barred \ {Arg(p).email} ELSE barred
    /\ Advance(p)
    /\ UNCHANGED <<backend, tables, stored, rows, caches>>

\* The rows of a deleted account go with it.
ApplyStep(p) ==
    LET x == Arg(p)
    IN  /\ At(p, "apply")
        /\ tables' = Changed(tables, x)
        /\ rows' = IF x.kind = "user-delete"
                   THEN [s \in Sessions |-> IF rows[s] = x.email THEN Nobody ELSE rows[s]]
                   ELSE rows
        /\ barred' = CASE x.kind = "user-deactivate" /\ IsUser(tables, x.email)
                               /\ (backend = "pg" \/ req[p].alone) -> barred \union {x.email}
                       [] x.kind \in {"user-activate", "user-delete"} -> barred \ {x.email}
                       [] OTHER -> barred
        /\ Advance(p)
        /\ UNCHANGED <<backend, log, stored, caches>>

Exists(p) ==
    /\ At(p, "exists")
    /\ Pass(p, IsUser(tables, Arg(p).email))
    /\ UNCHANGED <<store, caches, barred>>

IsAdmin(p) == req[p].user.role \in {"admin", "top"}

OwnsKey(p) ==
    LET k == req[p].arg.key
    IN  /\ At(p, "owns_key")
        /\ Pass(p, tables.keys[k] # Nobody /\ (IsAdmin(p) \/ tables.keys[k].email = Who(p)))
        /\ UNCHANGED <<store, caches, barred>>

OwnsShare(p) ==
    /\ At(p, "owns_share")
    /\ Pass(p, IsAdmin(p) \/ \E i \in DOMAIN tables.shares :
                    tables.shares[i].id = Arg(p).id /\ tables.shares[i].owner = Who(p))
    /\ UNCHANGED <<store, caches, barred>>

(* Shares: the tables first, the log after *)

\* A slip to catch: the log is not told.
LoggedNothing(entries) == <<>>

Logged(entries) == IF backend = "pg" THEN <<>> ELSE [i \in DOMAIN entries |-> AppendEntry(entries[i])]

revoke_share_by_id(p) ==
    LET gone == Retain(tables, LAMBDA s : s.id = Arg(p).id)
    IN  /\ At(p, "revoke_share")
        /\ tables' = gone
        /\ Then(p, IF gone # tables THEN Logged(<<Arg(p)>>) ELSE <<>>)
        /\ UNCHANGED <<backend, log, stored, rows, caches, barred>>

\* A slip to catch: only the folder itself, not what is inside it.
UnderItself(path, prefix) == path = prefix

Under(path, prefix) == IsPrefix(prefix, path)

Moved(path, from, to) ==
    IF Under(path, from) THEN to \o SubSeq(path, Len(from) + 1, Len(path)) ELSE path

Relocated(shares, from, to) ==
    [i \in DOMAIN shares |-> [shares[i] EXCEPT !.path = Moved(@, from, to)]]

update_share_paths(p) ==
    LET from == Home(Who(p), Old)
        to == Home(Who(p), New)
        hit == Only(tables.shares, {s \in ToSet(tables.shares) : Under(s.path, from)})
        updates == [i \in DOMAIN hit |-> PathUpdate(hit[i].id, Moved(hit[i].path, from, to))]
    IN  /\ At(p, "update_share_paths")
        /\ tables' = [tables EXCEPT !.shares = Relocated(@, from, to)]
        /\ Then(p, Logged(updates))
        /\ UNCHANGED <<backend, log, stored, rows, caches, barred>>

\* Behind the trait the shares are listed and then revoked one by one.
delete_shares_under(p) ==
    LET prefix == req[p].arg
        hit == Only(tables.shares, {s \in ToSet(tables.shares) : Under(s.path, prefix)})
        ids == [i \in DOMAIN hit |-> ShareRevoke(hit[i].id)]
    IN  /\ At(p, "delete_shares_under")
        /\ IF backend = "store"
           THEN /\ tables' = Retain(tables, LAMBDA s : Under(s.path, prefix))
                /\ Then(p, Logged(ids))
           ELSE /\ tables' = tables
                /\ Then(p, [i \in DOMAIN ids |-> On("revoke_share", ids[i])])
        /\ UNCHANGED <<backend, log, stored, rows, caches, barred>>

(* Caches and session rows *)

Dropped(cache, Gone(_)) == [c \in DOMAIN cache |-> IF Gone(cache[c]) THEN NoUser ELSE cache[c]]

drop_sessions(p) ==
    /\ At(p, "drop_sessions")
    /\ session_cache' = Dropped(session_cache, LAMBDA u : u.email = Arg(p).email)
    /\ Advance(p)
    /\ UNCHANGED <<store, api_key_cache, barred>>

\* list_sessions, and delete_session for each row of the account
delete_rows(p) ==
    /\ At(p, "delete_rows")
    /\ rows' = [s \in Sessions |-> IF rows[s] = Arg(p).email THEN Nobody ELSE rows[s]]
    /\ Advance(p)
    /\ UNCHANGED <<backend, tables, log, stored, caches, barred>>

drop_keys(p) ==
    /\ At(p, "drop_keys")
    /\ api_key_cache' = Dropped(api_key_cache, LAMBDA u : u.email = Arg(p).email)
    /\ Advance(p)
    /\ UNCHANGED <<store, session_cache, barred>>

delete_session(p) ==
    /\ At(p, "delete_session")
    /\ session_cache' = [session_cache EXCEPT ![Arg(p).email] = NoUser]
    /\ Then(p, IF backend = "store" THEN <<>> ELSE <<On("delete_row", Arg(p))>>)
    /\ UNCHANGED <<store, api_key_cache, barred>>

delete_row(p) ==
    /\ At(p, "delete_row")
    /\ rows' = [rows EXCEPT ![Arg(p).email] = Nobody]
    /\ Advance(p)
    /\ UNCHANGED <<backend, tables, log, stored, caches, barred>>

CacheKey(p) ==
    /\ At(p, "cache_key")
    /\ api_key_cache' = [api_key_cache EXCEPT ![req[p].arg.key] =
                            [req[p].user EXCEPT !.label = req[p].arg.label]]
    /\ Advance(p)
    /\ UNCHANGED <<store, session_cache, barred>>

\* A slip to catch: the revoked key stays in the cache.
DropKeyNot(p) ==
    /\ At(p, "drop_key")
    /\ Advance(p)
    /\ UNCHANGED <<store, caches, barred>>

DropKey(p) ==
    /\ At(p, "drop_key")
    /\ api_key_cache' = [api_key_cache EXCEPT ![req[p].arg.key] = NoUser]
    /\ Advance(p)
    /\ UNCHANGED <<store, session_cache, barred>>

\* The store sets the label in its table itself; a key that is not cached is left so.
Label(p) ==
    LET k == req[p].arg.key
        label == req[p].arg.label
    IN  /\ At(p, "label")
        /\ tables' = IF backend = "store" /\ tables.keys[k] # Nobody
                     THEN [tables EXCEPT !.keys[k].label = label] ELSE tables
        /\ api_key_cache' = IF api_key_cache[k] # NoUser
                            THEN [api_key_cache EXCEPT ![k].label = label] ELSE api_key_cache
        /\ Advance(p)
        /\ UNCHANGED <<backend, log, stored, rows, session_cache, barred>>

(* factory_reset: the tree goes first, and with it the directory of the store's log *)

KeptPolicy == [EmptyTables EXCEPT !.domains = tables.domains, !.emails = tables.emails]

RemoveTree(p) ==
    /\ At(p, "remove_tree")
    /\ IF backend = "store" THEN log' = <<>> /\ stored' = FALSE ELSE UNCHANGED <<log, stored>>
    /\ Advance(p)
    /\ UNCHANGED <<backend, tables, rows, caches, barred>>

factory_reset_state(p) ==
    /\ At(p, "clear")
    /\ session_cache' = [s \in Sessions |-> NoUser]
    /\ api_key_cache' = [k \in Keys |-> NoUser]
    /\ IF backend = "store" THEN tables' = KeptPolicy /\ barred' = {} ELSE UNCHANGED <<tables, barred>>
    /\ Advance(p)
    /\ UNCHANGED <<backend, log, stored, rows>>

PolicyEntries(t) ==
    [i \in 1..Cardinality(t.domains) |-> Policy("domain", SetToSeq(t.domains)[i])]
    \o [i \in 1..Cardinality(t.emails) |-> About("allowed-email", SetToSeq(t.emails)[i])]

factory_reset(p) ==
    /\ At(p, "reset_db")
    /\ IF backend = "store" THEN UNCHANGED <<tables, log, rows, barred>>
       ELSE /\ tables' = KeptPolicy
            /\ rows' = [s \in Sessions |-> Nobody]
            /\ log' = IF backend = "jsonl" THEN PolicyEntries(tables) ELSE log
            /\ barred' = {}
    /\ Advance(p)
    /\ UNCHANGED <<backend, stored, caches>>

-----------------------------------------------------------------------------
(* The start of the daemon: bootstrap and with_auth_db *)

SeedEntries == [i \in 1..Cardinality(SeedDomains) |-> Policy("domain", SetToSeq(SeedDomains)[i])]

\* The first start of a store writes the seeds to its log; pg adds them at every start.
BootLog(entries, there) == IF backend = "store" /\ ~there THEN SeedEntries ELSE entries

BootTables(t, entries) ==
    IF backend = "pg" THEN [t EXCEPT !.domains = @ \union SeedDomains] ELSE replay_jsonl(entries)

\* A slip to catch: the keys come back without their roles.
BootKeysRoleless(t) ==
    [k \in Keys |-> IF t.keys[k] = Nobody THEN NoUser
                    ELSE [email |-> t.keys[k].email, role |-> "none", label |-> t.keys[k].label]]

\* rebuild_api_key_cache leaves out inactive accounts; with_auth_db takes every key.
BootKeys(t) ==
    [k \in Keys |-> IF t.keys[k] = Nobody THEN NoUser
                    ELSE IF backend = "store" /\ ~Active(t, t.keys[k].email) THEN NoUser
                    ELSE [email |-> t.keys[k].email, role |-> resolve_role(t, t.keys[k].email),
                          label |-> t.keys[k].label]]

NoSessions == [s \in Sessions |-> NoUser]
NoRows == [s \in Sessions |-> Nobody]

\* A daemon with one of the histories behind it, where the top administrator, if there
\* is one, has just logged in; an activation may have emptied the key cache.
Init ==
    /\ backend \in Backends
    /\ \E h \in Histories :
        /\ log = IF backend = "pg" THEN <<>> ELSE SeedEntries \o h
        /\ tables = replay_jsonl(SeedEntries \o h)
        /\ api_key_cache \in {BootKeys(tables), [k \in Keys |-> NoUser]}
        /\ \E s \in Sessions :
            /\ s = CHOOSE first \in Sessions : TRUE
            /\ session_cache = IF tables.top = {} THEN NoSessions
                               ELSE [NoSessions EXCEPT ![s] =
                                        [NoUser EXCEPT !.email = CHOOSE e \in tables.top : TRUE,
                                                       !.role = "top"]]
            /\ rows = IF tables.top = {} \/ backend = "store" THEN NoRows
                      ELSE [NoRows EXCEPT ![s] = CHOOSE e \in tables.top : TRUE]
            /\ issued = {h[i].key : i \in {j \in DOMAIN h : h[j].kind = "api-key"}}
                        \union {h[i].share.id : i \in {j \in DOMAIN h : h[j].kind = "share"}}
                        \union (IF tables.top = {} THEN {} ELSE {s})
    /\ stored = TRUE
    /\ req = [p \in Slots |-> Nothing]
    /\ begun = 0 /\ crashes = 0 /\ met = {} /\ barred = {} /\ since = [p \in Slots |-> {}]

\* Requests are lost, and what is not on disk or in the database.
Restart ==
    /\ crashes < MaxCrashes
    /\ crashes' = crashes + 1
    /\ log' = BootLog(log, stored)
    /\ stored' = TRUE
    /\ tables' = BootTables(tables, log')
    /\ rows' = IF backend = "pg" THEN rows ELSE NoRows
    /\ session_cache' = NoSessions
    /\ api_key_cache' = BootKeys(tables')
    /\ req' = [p \in Slots |-> Nothing]
    /\ barred' = {e \in barred : IsUser(tables', e)}
    /\ since' = [p \in Slots |-> {}]
    /\ UNCHANGED <<backend, issued, begun, met>>

\* A session row past its thirty days is not answered any more, and cleaned up later.
Expire(s) ==
    /\ rows[s] # Nobody
    /\ rows' = [rows EXCEPT ![s] = Nobody]
    /\ UNCHANGED <<backend, tables, log, stored, caches, req, issued, begun, crashes, met, barred, since>>

-----------------------------------------------------------------------------
(* Requests begin *)

Fresh(ids) == IF ids \subseteq issued THEN {} ELSE {CHOOSE i \in ids : i \notin issued}

\* What may be asked, and of what.
Asked ==
    [op : {"me", "logout", "rename"}, arg : {Nobody}]
    \union [op : {"deactivate", "activate", "delete_user", "grant_admin", "revoke_admin",
                  "add_email", "remove_email"}, arg : Emails]
    \union [op : {"add_domain", "remove_domain"}, arg : SeedDomains]
    \union [op : {"factory_reset"}, arg : {Nobody}]
    \union [op : {"kill_session"}, arg : issued \intersect Sessions]
    \union [op : {"create_api_key"}, arg : [key : Fresh(Keys), label : Labels]]
    \union [op : {"revoke_api_key", "rename_api_key"}, arg : [key : issued \intersect Keys, label : Labels]]
    \union [op : {"revoke_share"}, arg : issued \intersect Shares]
    \union [op : {"create_share"}, arg : [share : Fresh(Shares), grantee : Emails,
                                          folder : {Old, New}, permission : Permissions]]
    \union [op : {"delete"}, arg : {Home(e, f) : e \in Emails, f \in {Old, New}}]

Identified == <<Do("lookup"), Do("confirm")>>
LoggingIn == <<Do("allowed"), Do("login_role"), Do("is_active")>>

Requests ==
    {Request("login", s, e, LoggingIn) : s \in Fresh(Sessions), e \in Emails}
    \union {Request(a.op, c, a.arg, Identified) : a \in Asked, c \in issued \ Shares}

\* The ids a request is answered with are given out with it.
Issues(r) ==
    CASE r.op = "login" -> {r.cred}
      [] r.op = "create_api_key" -> {r.arg.key}
      [] r.op = "create_share" -> {r.arg.share}
      [] OTHER -> {}

Enters(p, r) ==
    /\ req' = [q \in Slots |-> IF q = p THEN [r EXCEPT !.alone = AllIdle]
                               ELSE IF Busy(q) THEN [req[q] EXCEPT !.alone = FALSE] ELSE Nothing]
    /\ issued' = issued \union Issues(r)
    /\ met' = met \union {{r.op, req[q].op} : q \in {q \in Slots : Busy(q)}}

Begin(p) ==
    /\ begun < MaxRequests
    /\ Idle(p) /\ \A q \in 1..(p - 1) : Busy(q)
    /\ \E r \in Requests : Enters(p, r)
    /\ begun' = begun + 1
    /\ since' = [since EXCEPT ![p] = barred]
    /\ UNCHANGED <<store, caches, crashes, barred>>

Step(p) ==
    /\ \/ Lookup(p) \/ ConfirmSession(p) \/ ConfirmKey(p)
       \/ Allowed(p) \/ LoginRole(p) \/ LoginActive(p) \/ CacheSession(p)
       \/ RecordUser(p) \/ RecordSession(p) \/ Seed(p)
       \/ AppendStep(p) \/ ApplyStep(p) \/ Exists(p) \/ OwnsKey(p) \/ OwnsShare(p)
       \/ revoke_share_by_id(p) \/ update_share_paths(p) \/ delete_shares_under(p)
       \/ drop_sessions(p) \/ delete_rows(p) \/ drop_keys(p)
       \/ delete_session(p) \/ delete_row(p) \/ CacheKey(p) \/ DropKey(p) \/ Label(p)
       \/ RemoveTree(p) \/ factory_reset_state(p) \/ factory_reset(p)
    /\ since' = [q \in Slots |-> IF req'[q] = Nothing THEN {} ELSE since[q] \intersect barred']
    /\ UNCHANGED <<issued, begun, crashes, met>>

Next ==
    \/ \E p \in Slots : Begin(p) \/ Step(p)
    \/ \E s \in Sessions : Expire(s)
    \/ Restart

Spec == Init /\ [][Next]_vars

-----------------------------------------------------------------------------
(* Properties *)

\* Every table, cache and entry of the log holds what it is meant to hold.
KeyRecords == [email : Emails, label : Labels]
Users == [email : Emails, role : Roles, label : Labels \union {"none"}]

Tables ==
    [users : [Emails -> {"none", "active", "inactive"}], top : SUBSET Emails, admins : SUBSET Emails,
     keys : [Keys -> KeyRecords \union {Nobody}], shares : Seq(ShareRecords),
     domains : SUBSET SeedDomains, emails : SUBSET Emails]

TypeOK ==
    /\ tables \in Tables
    /\ log \in Seq(Entries)
    /\ backend = "pg" => log = <<>>
    /\ rows \in [Sessions -> Emails \union {Nobody}]
    /\ session_cache \in [Sessions -> Users \union {NoUser}]
    /\ api_key_cache \in [Keys -> Users \union {NoUser}]
    /\ issued \subseteq Sessions \union Keys \union Shares
    /\ barred \subseteq Emails
    /\ since \in [Slots -> SUBSET Emails]

\* The log replays to the tables in memory whatever the requests did, in parallel or one
\* after the other, in whatever order they wrote the two, and across restarts: unless two
\* of the conflicting kinds were in progress at once, which may apply in one order and log
\* in the other.  Aside are the labels of the store, whose replay knows no relabel, and its
\* log after a factory reset has taken its directory (replay_jsonl against every mutation).
Conflicting ==
    {{"login"}, {"login", "deactivate"}, {"login", "delete_user"}, {"activate", "deactivate"},
     {"grant_admin", "revoke_admin"}, {"grant_admin", "delete_user"},
     {"create_api_key", "delete_user"}, {"create_share", "delete_user"}, {"create_share"},
     {"rename_api_key"},
     {"add_domain", "remove_domain"}, {"add_email", "remove_email"}}

DuringReset == {m \in met : "factory_reset" \in m}

Unlabelled(t) ==
    IF backend = "jsonl" THEN t
    ELSE [t EXCEPT !.keys = [k \in Keys |-> IF t.keys[k] = Nobody THEN Nobody ELSE t.keys[k].email]]

ReplayIsMemory ==
    backend # "pg" /\ stored /\ AllIdle /\ met \intersect Conflicting = {} /\ DuringReset = {} =>
        Unlabelled(replay_jsonl(log)) = Unlabelled(tables)

\* An account that was deactivated stays out, with any session or key, cached or not,
\* until it is activated or deleted: also when a login, a lookup, a restart or another
\* request of the administrator comes in between.  Behind a log a request that was in
\* progress during the deactivation is exempt: it may write the account back.
Takes(p, step) == At(p, step) /\ req'[p].todo # req[p].todo /\ crashes' = crashes

DeactivatedStaysOut ==
    [][\A p \in Slots : Takes(p, "confirm") =>
        \/ req'[p] = Nothing
        \/ req'[p].user.email \notin since[p]]_vars

\* Between requests the key cache holds no revoked, deleted or relabelled key: a key in it
\* is a stored one, with its account and label, unless the request that took it away or
\* renamed it met another, which may have read it before and cached it after
\* (revoke_api_key_by_id, revoke_user_access against get_user_by_key_hash).
CachedKeysAreStored ==
    AllIdle /\ (\A m \in met : m \intersect {"revoke_api_key", "rename_api_key",
                                             "delete_user", "factory_reset"} = {}) =>
        \A k \in Keys : api_key_cache[k] # NoUser =>
            /\ tables.keys[k] # Nobody
            /\ tables.keys[k] = [email |-> api_key_cache[k].email, label |-> api_key_cache[k].label]

\* Whatever meets, stops or fails, there is at most one top administrator, unless two
\* logins were in progress at once (login_role).
OneTopAdmin == {"login"} \notin met => Cardinality(tables.top) <= 1

\* Of a deleted account nothing is left that would come back with its next login: no
\* session, no key and no share of its folders, whatever was in progress with the
\* deletion but a login or the creation of a key or share (delete_user, factory_reset).
Creating == {"login", "create_api_key", "create_share"}

DeletedLeavesNothing ==
    AllIdle /\ (\A m \in met : m \intersect Creating # {} =>
                                    m \intersect {"delete_user", "factory_reset"} = {}) =>
        \A e \in Emails : ~IsUser(tables, e) =>
            /\ \A s \in Sessions : rows[s] # e /\ session_cache[s].email # e
            /\ \A k \in Keys : tables.keys[k] # Nobody => tables.keys[k].email # e
            /\ \A i \in DOMAIN tables.shares :
                    e \notin {tables.shares[i].owner, tables.shares[i].path[1]}

\* A renamed folder is as open to everybody as it was under its old name, if no grant was
\* waiting at the new one (update_share_paths against resolve_from_grants).
GrantsOf(t, e) == Only(t.shares, {s \in ToSet(t.shares) : s.grantee = e})

RenameKeepsAccess ==
    [][\A p \in Slots : Takes(p, "update_share_paths") =>
        LET from == Home(Who(p), Old)
            to == Home(Who(p), New)
        IN  (\A i \in DOMAIN tables.shares : ~Under(tables.shares[i].path, to)) =>
                \A e \in Emails : \A inside \in {<<>>, <<"exom">>} :
                    ResolveAccess(e, to \o inside, GrantsOf(tables', e), Unknown)
                        = ResolveAccess(e, from \o inside, GrantsOf(tables, e), Unknown)]_vars

=============================================================================
