------------------------------- MODULE Exoms -------------------------------
(***************************************************************************)
(* The tree of exoms on disk, the cache of loaded exoms and the query      *)
(* engine that the cached tables are bound in (src/server.rs, src/mcp.rs,  *)
(* src/scaffold.rs, src/tree.rs, src/exom.rs, src/auth/admin.rs).          *)
(*                                                                         *)
(* A handler is a sequence of steps; between two of them another request   *)
(* may run.  A step is what a handler does under one lock of the cache, or *)
(* one change of the tree, which no lock protects.                         *)
(*                                                                         *)
(* Of a brain this module keeps the rows its branches show and the         *)
(* branches.  The claims of precheck_write, acl_mode and the paths in      *)
(* public are in module WriteGate, accounts and the tables of shares in    *)
(* module AuthStore, the order of transactions in module Brain.            *)
(***************************************************************************)
EXTENDS Access

CONSTANTS
    Users,
    Exoms,          \* paths requests are about, besides those that are there
    Folders,        \* directories requests are about
    NewNames,       \* last segments to rename to
    Targets,        \* targets of a fork; Default among them
    Default,
    Branches, Main,
    Starts,         \* what an earlier daemon may have left: [tree, shares]
    FirstId,        \* rows and directories of Starts have numbers below it
    MaxSuffix,      \* bound: candidates for the target of a fork
    MaxRequests,    \* bound: requests begun
    MaxParallel,    \* bound: requests in progress
    MaxCrashes,     \* bound: restarts
    NoTable,        \* facts_i64, facts_str and facts_sym are not bound
    None            \* no user, path, name, or nothing held

ASSUME ExomsAssumption ==
    /\ Main \in Branches
    /\ Default \in Targets
    /\ Public \notin Users
    /\ FirstId \in Nat /\ MaxSuffix \in Nat \ {0}
    /\ MaxRequests \in Nat /\ MaxParallel \in Nat \ {0} /\ MaxCrashes \in Nat

VARIABLES
    tree,       \* the directories: a node at every path that is there
    shares,     \* the grants of the auth store
    cache,      \* AppState.exoms
    env,        \* the tables bound in the engine under the names of exoms
    typed,      \* the tables bound under facts_i64, facts_str and facts_sym
    req,        \* req[p]: what is left of request p
    begun, crashes,
    answer,     \* what the last step evaluated, and what it was asked for
    acked,      \* the rows that were reported saved, by directory
    apart       \* a step outside the lock has set cache, engine or shares apart from the tree

vars == <<tree, shares, cache, env, typed, req, begun, crashes, answer, acked, apart>>

disk == <<tree, shares, acked>>
memory == <<cache, env, typed>>

Slots == 1..MaxParallel

-----------------------------------------------------------------------------
(* Brains *)

\* A fact (kills = 0) or the retraction of row number kills.
Row(n, b, kills) == [n |-> n, on |-> b, kills |-> kills]

EmptyBrain == [rows |-> {}, branches |-> {Main}]

\* facts_on_branch, as build_datoms_table and build_typed_fact_tables tabulate it
View(brain, b) ==
    {r \in brain.rows :
        /\ r.kills = 0 /\ r.on \in {Main, b}
        /\ \A k \in brain.rows : k.kills = r.n => k.on \notin {Main, b}}

With(brain, rows) == [brain EXCEPT !.rows = @ \union rows]

-----------------------------------------------------------------------------
(* The tree.  id is the request that made a directory and the path it was   *)
(* made at: it tells a directory from a later one at the same path.         *)

Kinds == {"folder", "project", "session", "bare"}

Node(kind, brain, id) == [kind |-> kind, brain |-> brain, id |-> id]
Directory(id) == Node("folder", EmptyBrain, id)

There(path) == path \in DOMAIN tree

\* Brains have their main branch and rows on branches they have; directories are below
\* directories.
IsBrain(brain) ==
    /\ brain = [rows |-> brain.rows, branches |-> brain.branches]
    /\ Main \in brain.branches /\ brain.branches \subseteq Branches
    /\ \A r \in brain.rows : r.on \in brain.branches

IsNode(node) ==
    /\ node = Node(node.kind, node.brain, node.id)
    /\ node.kind \in Kinds /\ IsBrain(node.brain)

\* A directory with exom.json in it: classify
IsExom(path) == There(path) /\ tree[path].kind # "folder"

Above(path) == {SubSeq(path, 1, i) : i \in 1..(Len(path) - 1)}
Under(path, top) == IsPrefix(top, path)

IsTree(t) ==
    \A path \in DOMAIN t : path # <<>> /\ Above(path) \subseteq DOMAIN t /\ IsNode(t[path])

\* create_dir_all
CreateDirs(t, path, id) ==
    [q \in DOMAIN t \union Above(path) \union {path} |->
        IF q \in DOMAIN t THEN t[q] ELSE Directory(<<id, q>>)]

Put(t, path, kind, id) == [CreateDirs(t, path, id) EXCEPT ![path].kind = kind]

Removed(t, top) == [q \in {q \in DOMAIN t : ~Under(q, top)} |-> t[q]]

\* Brain::save: the tables of a brain, in a directory that is made if it is not there.
Saved(t, path, brain, id) == [CreateDirs(t, path, id) EXCEPT ![path].brain = brain]

\* The segment of an exom on the way is compared with the last one by name; the path itself
\* passes, so that init puts a project into an exom.
check_no_exom_ancestor(path) ==
    \A q \in Above(path) : IsExom(q) => Last(q) = Last(path)

\* A slip to catch: the directory moves, and what is in it stays.
MovedAlone(path, from, to) == IF path = from THEN to ELSE path

Moved(path, from, to) ==
    IF Under(path, from) THEN to \o SubSeq(path, Len(from) + 1, Len(path)) ELSE path

\* Exoms of a subtree: a walk does not look inside an exom.
Walk(t, top) ==
    {q \in DOMAIN t :
        /\ Under(q, top) /\ t[q].kind # "folder"
        /\ \A a \in Above(q) : Under(a, top) => t[a].kind = "folder"}

\* Inside an exom, where no walk comes
Nested(path) == \E a \in Above(path) : IsExom(a)

-----------------------------------------------------------------------------
(* The cache and the engine *)

Insert(map, key, value) == [k \in DOMAIN map \union {key} |-> IF k = key THEN value ELSE map[k]]

Entry(brain, datoms) == [brain |-> brain, datoms |-> datoms, typed |-> datoms]

\* load_exom_from_tree_path
FromDisk(brain) == Entry(brain, View(brain, Main))

\* get_or_load_exom
Loadable(path) == path \in DOMAIN cache \/ IsExom(path)

Loaded(path) ==
    IF path \in DOMAIN cache THEN cache ELSE Insert(cache, path, FromDisk(tree[path].brain))

\* A slip to catch: what is loaded is not bound.
Unbound(path) == env

Bound(path) ==
    IF path \in DOMAIN cache THEN env ELSE Insert(env, path, View(tree[path].brain, Main))

\* A slip to catch: the typed tables stay those of the branch asked for before.
ReboundDatomsOnly(c, path, b) == [c EXCEPT ![path].datoms = View(c[path].brain, b)]

\* rebind_datoms_only: both tables, and they stay
Rebound(c, path, b) == [c EXCEPT ![path] = Entry(@.brain, View(@.brain, b))]

\* reconcile_engine: nothing is bound but the datoms of the cache
Bindings(c) == [path \in DOMAIN c |-> c[path].datoms]

\* evict_cached_exoms_where
EvictWhere(gone) ==
    LET left == [path \in DOMAIN cache \ gone |-> cache[path]]
    IN  IF left = cache THEN UNCHANGED memory
        ELSE /\ cache' = left
             /\ env' = Bindings(left)
             /\ typed' = NoTable

-----------------------------------------------------------------------------
(* Shares *)

Share(user, path, permission, id) ==
    [to |-> user, path |-> path, permission |-> permission, id |-> id]

GrantsOf(user) == SetToSeq({s \in shares : s.to = user})

Level(user, path) == ResolveAccess(user, path, GrantsOf(user), Unknown)

-----------------------------------------------------------------------------
(* The handlers, each as the steps it takes, the paths and the branches it  *)
(* may be called with; name is a new segment or the target of a fork        *)

Calls(steps, paths, branches, names) ==
    [todo : {steps}, user : Users, path : paths, branch : branches, name : names,
     held : {None}, id : {0}]

Nothing == [todo |-> <<>>, user |-> None, path |-> None, branch |-> Main, name |-> None,
            held |-> None, id |-> 0]

Asked == Exoms \union DOMAIN cache \union Walk(tree, <<>>)
Anywhere == Folders \union Asked
NotRoots == {path \in Anywhere : Len(path) > 1}

OnMain(steps) == Calls(steps, Asked, {Main}, {None})
OnABranch(steps) == Calls(steps, Asked, Branches, {None})

View_ == <<"guard_read", "load">>

api_status == OnMain(View_)
api_facts_list == OnABranch(View_)
api_facts_valid_at == OnABranch(View_)
api_facts_bitemporal == OnABranch(View_)
api_fact_detail == OnABranch(View_)
api_beliefs_list == OnABranch(View_)
api_belief_support_handler == OnABranch(View_)
api_observations_list == OnMain(View_)
api_list_branches == OnMain(View_)
api_branch_detail == OnABranch(View_)
api_branch_diff_handler == OnABranch(View_)
api_explain == OnABranch(View_)
api_export == OnABranch(View_)
api_export_json == OnMain(View_)
api_graph == OnABranch(View_)
api_clusters == OnABranch(View_)
api_cluster_detail_handler == OnABranch(View_)
api_logs == OnMain(View_)
api_provenance == OnABranch(View_)
api_relation_graph == OnABranch(View_)

tool_exom_status == OnMain(<<"load">>)
tool_explain == OnABranch(<<"load">>)
tool_fact_history == OnMain(<<"load">>)
tool_list_branches == OnMain(<<"load">>)
tool_export == OnMain(<<"load">>)

api_query_post == OnABranch(<<"guard_read", "query">>)
tool_query == OnABranch(<<"mcp_query">>)
tool_eval == OnABranch(<<"tool_bind", "tool_eval">>)
api_schema == OnABranch(<<"guard_read", "schema">>)
api_derived_handler == OnMain(<<"guard_read", "derived">>)

\* authorize_rayfall asks for the level each form needs.
api_eval ==
    OnABranch(<<"guard_read", "eval_query">>) \union OnMain(<<"eval_raw">>)
    \union UNION {OnABranch(<<"guard_write", op>>) : op \in {"eval_assert", "eval_retract", "eval_rule"}}

\* Every handler that writes through the gate
api_writes == OnABranch(<<"guard_write", "precheck", "evict", "assert">>)
tool_writes ==
    UNION {OnABranch(<<"precheck", "uncache", op>>) : op \in {"assert", "retract"}}

api_import_json == OnMain(<<"guard_write", "import", "rebind">>)
api_retract_all == OnMain(<<"guard_owner", "precheck", "evict", "retract_all">>)
api_wipe == OnMain(<<"guard_owner", "precheck", "evict", "wipe">>)

Scaffold(step, paths) == Calls(<<"guard_write", step>>, paths, {Main}, {None})

api_init == Scaffold("init", Folders)
tool_init == Scaffold("init", Folders)
api_folder_new == Scaffold("folder_new", Anywhere)
tool_folder_new == Scaffold("folder_new", Anywhere)
api_exom_new == Scaffold("exom_new", Anywhere)
tool_exom_new == Scaffold("exom_new", Anywhere)
api_session_new == Calls(<<"guard_write", "session_dir", "session_rows">>, Folders, {Main}, {None})
tool_session_new == Calls(<<"session_dir", "session_rows">>, Folders, {Main}, {None})

\* A namespace root is not renamed and not deleted.
Rename == Calls(<<"guard_write", "rename", "evict_under", "share_paths">>, NotRoots, {Main}, NewNames)
Delete == Calls(<<"guard_write", "collect", "evict_held", "delete", "delete_shares">>,
                NotRoots, {Main}, {None})
api_rename == Rename
tool_rename == Rename
api_delete == Delete
tool_delete == Delete

api_exom_fork ==
    Calls(<<"guard_read", "fork_check", "snapshot", "fork_new", "copy">>, Asked, {Main}, Targets)
tool_exom_fork ==
    Calls(<<"guard_read", "fork_check", "peek", "fork_load", "fork_insert", "snapshot_cached",
            "fork_new", "copy">>, Asked, {Main}, Targets)

delete_user_account ==
    Calls(<<"delete_user", "purge", "evict_under">>, {<<u>> : u \in Users}, {Main}, {None})
api_factory_reset ==
    Calls(<<"reset_evict", "reset", "reset_shares">>, {None}, {Main}, {None})

Views ==
    api_status \union api_facts_list \union api_facts_valid_at \union api_facts_bitemporal
    \union api_fact_detail \union api_beliefs_list \union api_belief_support_handler
    \union api_observations_list \union api_list_branches \union api_branch_detail
    \union api_branch_diff_handler \union api_explain \union api_export
    \union api_export_json \union api_graph \union api_clusters
    \union api_cluster_detail_handler \union api_logs \union api_provenance
    \union api_relation_graph \union tool_exom_status \union tool_explain
    \union tool_fact_history \union tool_list_branches \union tool_export

Queries ==
    api_query_post \union tool_query \union tool_eval \union api_schema
    \union api_derived_handler \union api_eval

Writes ==
    api_writes \union tool_writes \union api_import_json \union api_retract_all \union api_wipe

Structure ==
    api_init \union tool_init \union api_folder_new \union tool_folder_new
    \union api_exom_new \union tool_exom_new \union api_session_new
    \union tool_session_new \union api_rename \union tool_rename \union api_delete
    \union tool_delete \union api_exom_fork \union tool_exom_fork
    \union delete_user_account \union api_factory_reset

Idle(p) == req[p] = Nothing
Busy(p) == ~Idle(p)

NoAnswer == [op |-> "none"]

Begin(p) ==
    /\ begun < MaxRequests
    /\ Idle(p) /\ \A q \in 1..(p - 1) : Busy(q)
    /\ \E r \in Views \union Queries \union Writes \union Structure :
          req' = [req EXCEPT ![p] = [r EXCEPT !.id = FirstId + 2 * begun]]
    /\ begun' = begun + 1
    /\ answer' = NoAnswer
    /\ UNCHANGED <<disk, memory, crashes, apart>>

-----------------------------------------------------------------------------
(* Steps *)

At(p, step) == Busy(p) /\ Head(req[p].todo) = step

Skip(p, n) ==
    LET r == req[p]
        rest == SubSeq(r.todo, n + 1, Len(r.todo))
    IN  req' = [req EXCEPT ![p] = IF Len(r.todo) = n THEN Nothing ELSE [r EXCEPT !.todo = rest]]
Advance(p) == Skip(p, 1)
Leave(p) == req' = [req EXCEPT ![p] = Nothing]
Pass(p, allowed) == IF allowed THEN Advance(p) ELSE Leave(p)
Holding(p, held) ==
    req' = [req EXCEPT ![p].todo = Tail(@), ![p].held = held]

Quiet == answer' = NoAnswer

\* What was evaluated, over which datoms and typed tables, and what the tables of the
\* exom's directory show of that branch.
Answer(p, datoms, typedTables) ==
    LET r == req[p]
        due == IF There(r.path) THEN View(tree[r.path].brain, r.branch) ELSE {}
    IN  answer' = [op |-> Head(r.todo), got |-> {datoms, typedTables}, due |-> {due}]

Guard(p, step, Suffices(_)) ==
    /\ At(p, step)
    /\ Pass(p, Suffices(Level(req[p].user, req[p].path)))
    /\ Quiet /\ UNCHANGED <<disk, memory>>

GuardRead(p) == Guard(p, "guard_read", CanRead)
GuardWrite(p) == Guard(p, "guard_write", CanWrite)
GuardOwner(p) == Guard(p, "guard_owner", IsOwner)

-----------------------------------------------------------------------------
(* Reading *)

\* get_or_load_exom; the answer is what the cached brain shows of a branch it has.
Load(p) ==
    LET path == req[p].path
        brain == Loaded(path)[path].brain
        shown == View(brain, req[p].branch)
    IN  /\ At(p, "load")
        /\ IF Loadable(path)
           THEN /\ cache' = Loaded(path) /\ env' = Bound(path)
                /\ IF req[p].branch \in brain.branches THEN Answer(p, shown, shown) ELSE Quiet
           ELSE UNCHANGED <<cache, env>> /\ Quiet
        /\ Pass(p, Loadable(path))
        /\ UNCHANGED <<disk, typed>>

\* What the engine may make of a query once the tables are those of its branch: an answer,
\* a refusal before the typed tables are bound, or a failure after which it is reconciled.
Evaluate(p, c, outcomes) ==
    LET path == req[p].path
        entry == c[path]
    IN  /\ cache' = c
        /\ \E outcome \in outcomes :
              \/ /\ outcome = "answered"
                 /\ env' = Insert(Bound(path), path, entry.datoms)
                 /\ typed' = entry.typed
                 /\ Answer(p, env'[path], typed')
              \/ /\ outcome = "refused"
                 /\ env' = Insert(Bound(path), path, entry.datoms)
                 /\ Quiet /\ UNCHANGED typed
              \/ /\ outcome = "failed"
                 /\ env' = Bindings(c) /\ typed' = NoTable
                 /\ Quiet

\* The exom is there but not the branch: it stays loaded.
UnknownBranch(path) == cache' = Loaded(path) /\ env' = Bound(path) /\ UNCHANGED typed /\ Quiet

QueryOn(p, outcomes) ==
    LET path == req[p].path
        b == req[p].branch
    IN  /\ IF ~Loadable(path) THEN Quiet /\ UNCHANGED memory
           ELSE IF b \notin Loaded(path)[path].brain.branches THEN UnknownBranch(path)
           ELSE Evaluate(p, Rebound(Loaded(path), path, b), outcomes)
        /\ Advance(p)
        /\ UNCHANGED disk

Query(p) == At(p, "query") /\ QueryOn(p, {"answered", "refused", "failed"})
McpQuery(p) == At(p, "mcp_query") /\ QueryOn(p, {"answered", "refused"})

\* The form of api_eval loads nothing, and every failure after the rebind reconciles.
EvalQuery(p) ==
    /\ At(p, "eval_query")
    /\ req[p].path \in DOMAIN cache
    /\ QueryOn(p, {"answered", "failed"})

EvalQueryUnknown(p) ==
    /\ At(p, "eval_query")
    /\ req[p].path \notin DOMAIN cache
    /\ Leave(p) /\ Quiet /\ UNCHANGED <<disk, memory>>

\* Any expression, without the lock; only its failure reaches the tables.
EvalRaw(p) ==
    /\ At(p, "eval_raw")
    /\ Advance(p) /\ Quiet
    /\ \/ UNCHANGED memory
       \/ env' = Bindings(cache) /\ typed' = NoTable /\ UNCHANGED cache
    /\ UNCHANGED disk

\* tool_eval: the tables are bound under the lock, and the source is evaluated after it.
ToolBind(p) ==
    LET path == req[p].path
        b == req[p].branch
    IN  /\ At(p, "tool_bind")
        /\ Quiet
        /\ IF ~Loadable(path) THEN UNCHANGED memory
           ELSE IF b \notin Loaded(path)[path].brain.branches
           THEN cache' = Loaded(path) /\ env' = Bound(path) /\ UNCHANGED typed
           ELSE LET c == Rebound(Loaded(path), path, b)
                IN  /\ cache' = c
                    /\ env' = Insert(env, path, c[path].datoms)
                    /\ typed' = c[path].typed
        /\ Pass(p, Loadable(path) /\ b \in Loaded(path)[path].brain.branches)
        /\ UNCHANGED disk

ToolEval(p) ==
    /\ At(p, "tool_eval")
    /\ IF req[p].path \in DOMAIN env THEN Answer(p, env[req[p].path], typed) ELSE Quiet
    /\ Advance(p)
    /\ UNCHANGED <<disk, memory>>

\* The relations are read from the brain; for samples of the derived ones the typed tables
\* are bound, over whatever datoms and typed tables the last query left.
Schema(p) ==
    LET path == req[p].path
        c == Loaded(path)
    IN  /\ At(p, "schema")
        /\ IF ~Loadable(path) THEN Quiet /\ UNCHANGED memory
           ELSE IF req[p].branch \notin c[path].brain.branches THEN UnknownBranch(path)
           ELSE /\ cache' = c /\ env' = Bound(path)
                /\ \/ UNCHANGED typed /\ Quiet
                   \/ typed' = c[path].typed /\ Answer(p, env'[path], typed')
        /\ Advance(p)
        /\ UNCHANGED disk

\* The query is evaluated over the tables as they are bound.
Derived(p) ==
    LET path == req[p].path
    IN  /\ At(p, "derived")
        /\ IF Loadable(path)
           THEN cache' = Loaded(path) /\ env' = Bound(path) /\ Answer(p, env'[path], typed)
           ELSE UNCHANGED <<cache, env>> /\ Quiet
        /\ Advance(p)
        /\ UNCHANGED <<disk, typed>>

-----------------------------------------------------------------------------
(* Writing *)

\* The tables of path are saved: old rows may be replaced, new ones are acknowledged.
Ack(t, path, old, new, replaced) ==
    LET id == t[path].id
    IN  acked' = {a \in acked : ~replaced \/ a.id # id}
                     \union {[id |-> id, row |-> r] : r \in new.rows \ old.rows}

\* Outcomes of a change of a brain, and whether it was saved
Ok(brain) == [ok |-> TRUE, brain |-> brain, replaced |-> FALSE]
Err(brain) == [Ok(brain) EXCEPT !.ok = FALSE]

Asserting(r, brain) ==
    IF r.branch \in brain.branches
    THEN {Ok(With(brain, {Row(r.id, r.branch, 0)}))} ELSE {Err(brain)}

\* retract_fact of one fact the branch shows
Retracting(r, brain) ==
    {Err(brain)} \union
        {Ok(With(brain, {Row(r.id, r.branch, f.n)})) :
            f \in {f \in View(brain, r.branch) : r.branch \in brain.branches}}

RetractingAll(r, brain) ==
    {Ok(With(brain, {Row(r.id, Main, f.n) : f \in View(brain, Main)}))}

\* replace_state saves; a rule of the payload may then fail to parse.
Importing(r, brain) ==
    {[ok |-> parsed, replaced |-> TRUE, brain |-> With(EmptyBrain, {Row(r.id, Main, 0)})] :
        parsed \in BOOLEAN}

Wiping(r, brain) == {[Ok(EmptyBrain) EXCEPT !.replaced = TRUE]}

Changing(r, brain) ==
    LET step == Head(r.todo)
    IN  CASE step \in {"assert", "eval_assert"} -> Asserting(r, brain)
          [] step \in {"retract", "eval_retract"} -> Retracting(r, brain)
          [] step = "eval_rule" -> {Ok(brain)}
          [] step = "retract_all" -> RetractingAll(r, brain)
          [] step = "import" -> Importing(r, brain)
          [] step = "wipe" -> Wiping(r, brain)

\* wipe: exom.json goes with the directory, which is made again for the tables.
Emptied(path, id) ==
    LET made == CreateDirs(Removed(tree, path), path, id)
    IN  IF There(path) THEN [made EXCEPT ![path].id = tree[path].id] ELSE made

\* A slip to catch: the change stays in memory.
Unsaved(t, path, brain, id) == CreateDirs(t, path, id)

\* The end of refresh_exom_binding: Brain::save
SaveTo(t, path, brain, id) == Saved(t, path, brain, id)

\* mutate_exom: the change, and if it succeeds refresh_exom_binding
Mutate(p) ==
    LET r == req[p]
        path == r.path
        old == Loaded(path)[path].brain
    IN  /\ \E step \in {"assert", "retract", "retract_all", "wipe", "import"} : At(p, step)
        /\ Loadable(path)
        /\ \E o \in Changing(r, old) :
              /\ IF o.ok
                 THEN /\ cache' = [Loaded(path) EXCEPT ![path] = FromDisk(o.brain)]
                      /\ env' = Insert(env, path, View(o.brain, Main))
                 ELSE /\ cache' = [Loaded(path) EXCEPT ![path].brain = o.brain]
                      /\ env' = Bound(path)
              /\ IF o.ok \/ o.replaced
                 THEN /\ tree' = SaveTo(IF At(p, "wipe") THEN Emptied(path, r.id) ELSE tree,
                                        path, o.brain, r.id)
                      /\ Ack(tree', path, old, o.brain, o.replaced)
                 ELSE UNCHANGED <<tree, acked>>
              /\ Pass(p, o.ok)
        /\ Quiet
        /\ UNCHANGED <<shares, typed>>

MutateUnknown(p) ==
    /\ \E step \in {"assert", "retract", "retract_all", "wipe", "import"} : At(p, step)
    /\ ~Loadable(req[p].path)
    /\ Leave(p) /\ Quiet /\ UNCHANGED <<disk, memory>>

\* api_import_json, once more under the lock
Rebind(p) ==
    /\ At(p, "rebind")
    /\ env' = Bindings(cache) /\ typed' = NoTable
    /\ Advance(p) /\ Quiet
    /\ UNCHANGED <<disk, cache>>

\* A form of api_eval: only a cached exom, the typed tables are left as they were, and any
\* failure reconciles the engine.
EvalChange(p) ==
    LET r == req[p]
        path == r.path
    IN  /\ \E step \in {"eval_assert", "eval_retract", "eval_rule"} : At(p, step)
        /\ \E o \in IF path \in DOMAIN cache THEN Changing(r, cache[path].brain) ELSE {Err(EmptyBrain)} :
              IF o.ok
              THEN /\ cache' = [cache EXCEPT ![path].brain = o.brain,
                                             ![path].datoms = View(o.brain, r.branch)]
                   /\ env' = Insert(env, path, View(o.brain, r.branch))
                   /\ tree' = SaveTo(tree, path, o.brain, r.id)
                   /\ Ack(tree', path, cache[path].brain, o.brain, FALSE)
                   /\ UNCHANGED typed
              ELSE /\ env' = Bindings(cache) /\ typed' = NoTable
                   /\ UNCHANGED <<cache, tree, acked>>
        /\ Advance(p) /\ Quiet
        /\ UNCHANGED shares

\* precheck_write reads the directory; its claim is in module WriteGate.
Precheck(p) ==
    LET path == req[p].path
    IN  /\ At(p, "precheck")
        /\ Pass(p, IsExom(path) /\ req[p].branch \in tree[path].brain.branches)
        /\ Quiet /\ UNCHANGED <<disk, memory>>

\* evict_cached_exom
Evict(p) == At(p, "evict") /\ EvictWhere({req[p].path}) /\ Advance(p) /\ Quiet /\ UNCHANGED disk

\* The MCP tools take the exom out of the map and leave the engine as it is.
Uncache(p) ==
    /\ At(p, "uncache")
    /\ cache' = [path \in DOMAIN cache \ {req[p].path} |-> cache[path]]
    /\ Advance(p) /\ Quiet
    /\ UNCHANGED <<disk, env, typed>>

-----------------------------------------------------------------------------
(* The tree.  The disk operations of one scaffold call are one step. *)

Reshape(p, step) == At(p, step) /\ Quiet /\ UNCHANGED <<memory, shares, acked>>

\* init_project
Init_(p) ==
    LET r == req[p]
        dirs == CreateDirs(tree, r.path, r.id)
        main == Append(r.path, "main")
        fits == main \notin DOMAIN dirs \/ dirs[main].kind = "project"
    IN  /\ Reshape(p, "init")
        /\ IF ~check_no_exom_ancestor(r.path) THEN UNCHANGED tree
           ELSE IF ~fits THEN tree' = dirs
           ELSE tree' = CreateDirs(Put(dirs, main, "project", r.id), Append(r.path, "sessions"), r.id)
        /\ Advance(p)

FolderNew(p) ==
    LET r == req[p]
    IN  /\ Reshape(p, "folder_new")
        /\ IF check_no_exom_ancestor(r.path) /\ ~IsExom(r.path)
           THEN tree' = CreateDirs(tree, r.path, r.id) ELSE UNCHANGED tree
        /\ Advance(p)

\* new_bare_exom: an exom that is there already is left as it is; "sessions" is reserved.
Bare(path) ==
    /\ Last(path) # "sessions" /\ check_no_exom_ancestor(path)
    /\ There(path) => IsExom(path)

BareExom(path, id) == IF There(path) THEN tree ELSE Put(tree, path, "bare", id)

ExomNew(p) ==
    LET r == req[p]
    IN  /\ Reshape(p, "exom_new")
        /\ tree' = IF Bare(r.path) THEN BareExom(r.path, r.id) ELSE tree
        /\ Advance(p)

\* session_new: the directory and exom.json, then a row for each participant.  Two sessions
\* of a project differ in their time or their label, here in the request; what a directory
\* that is made again by the rows is called, too, differs.
SessionPath(r) == r.path \o <<"sessions", "s" \o ToString(r.id)>>

SessionDir(p) ==
    LET r == req[p]
    IN  /\ Reshape(p, "session_dir")
        /\ IF IsExom(Append(r.path, "main"))
           THEN tree' = Put(tree, SessionPath(r), "session", r.id) /\ Advance(p)
           ELSE UNCHANGED tree /\ Leave(p)

SessionRows(p) ==
    LET r == req[p]
        path == SessionPath(r)
        brain == IF There(path) THEN tree[path].brain ELSE EmptyBrain
    IN  /\ Reshape(p, "session_rows")
        /\ \E participants \in SUBSET (Branches \ {Main}) :
              tree' = Saved(tree, path, [brain EXCEPT !.branches = @ \union participants], r.id + 1)
        /\ Advance(p)

\* Where a renamed directory goes
Renamed(r) == Append(Front(r.path), r.name)

\* A session exom keeps its name; the new name must be free.
CanRename(from, to) == There(from) /\ tree[from].kind # "session" /\ (to = from \/ ~There(to))

MovedTree(from, to) ==
    LET kept == IF to = from THEN tree ELSE Removed(tree, to)
    IN  [q \in {Moved(q, from, to) : q \in DOMAIN kept} |-> kept[Moved(q, to, from)]]

\* rename_last_segment, before anything is evicted
RenameDir(p) ==
    LET r == req[p]
    IN  /\ Reshape(p, "rename")
        /\ tree' = IF CanRename(r.path, Renamed(r)) THEN MovedTree(r.path, Renamed(r)) ELSE tree
        /\ Pass(p, CanRename(r.path, Renamed(r)))

\* A slip to catch: what is below the path stays.
Only(path) == DOMAIN cache \intersect {path}

CachedUnder(path) == {q \in DOMAIN cache : Under(q, path)}

EvictUnder(p) ==
    /\ At(p, "evict_under")
    /\ EvictWhere(CachedUnder(req[p].path))
    /\ Advance(p) /\ Quiet /\ UNCHANGED disk

\* A slip to catch: only a grant on the directory itself follows it.
ExactPath(path, from, to) == IF path = from THEN to ELSE path

NewSharePath(path, from, to) == Moved(path, from, to)

\* update_share_paths
SharePaths(p) ==
    LET r == req[p]
    IN  /\ At(p, "share_paths")
        /\ shares' = {[s EXCEPT !.path = NewSharePath(@, r.path, Renamed(r))] : s \in shares}
        /\ Advance(p) /\ Quiet /\ UNCHANGED <<memory, tree, acked>>

\* collect_exoms_under
Collect(p) ==
    /\ At(p, "collect")
    /\ IF There(req[p].path) THEN Holding(p, Walk(tree, req[p].path)) ELSE Leave(p)
    /\ Quiet /\ UNCHANGED <<disk, memory>>

EvictHeld(p) ==
    At(p, "evict_held") /\ EvictWhere(req[p].held) /\ Advance(p) /\ Quiet /\ UNCHANGED disk

\* Only what goes was to be lost.
RemoveDirs(top) ==
    LET left == Removed(tree, top)
    IN  /\ tree' = left
        /\ acked' = {a \in acked : \E q \in DOMAIN left : left[q].id = a.id}

\* delete_subtree
DeleteDir(p) ==
    /\ At(p, "delete")
    /\ RemoveDirs(req[p].path)
    /\ Pass(p, There(req[p].path))
    /\ Quiet /\ UNCHANGED <<memory, shares>>

DeleteShares(p) ==
    /\ At(p, "delete_shares")
    /\ shares' = {s \in shares : ~Under(s.path, req[p].path)}
    /\ Advance(p) /\ Quiet /\ UNCHANGED <<memory, tree, acked>>

\* AuthStore::delete_user
DeleteUser(p) ==
    LET u == req[p].path[1]
    IN  /\ At(p, "delete_user")
        /\ shares' = {s \in shares : s.to # u /\ s.path[1] # u}
        /\ Advance(p) /\ Quiet /\ UNCHANGED <<memory, tree, acked>>

\* purge_user_namespace: the directory goes before the cache is told.
Purge(p) ==
    At(p, "purge") /\ RemoveDirs(req[p].path) /\ Advance(p) /\ Quiet /\ UNCHANGED <<memory, shares>>

\* api_factory_reset
ResetEvict(p) ==
    At(p, "reset_evict") /\ EvictWhere(DOMAIN cache) /\ Advance(p) /\ Quiet /\ UNCHANGED disk

Reset(p) == At(p, "reset") /\ RemoveDirs(<<>>) /\ Advance(p) /\ Quiet /\ UNCHANGED <<memory, shares>>

ResetShares(p) ==
    /\ At(p, "reset_shares")
    /\ shares' = {}
    /\ Advance(p) /\ Quiet /\ UNCHANGED <<memory, tree, acked>>

-----------------------------------------------------------------------------
(* Forks *)

\* The first free one of the candidates; {} if none is.
default_fork_target(user, source) ==
    LET sub == IF source \in {<<Public>>, <<user>>} THEN <<"forked">>
               ELSE IF source[1] \in {Public, user} THEN Tail(source) ELSE source
        leaf(i) == IF i = 1 THEN Last(sub) ELSE Last(sub) \o "-" \o ToString(i)
        Candidate(i) == <<user, "forked">> \o Append(Front(sub), leaf(i))
        free == {i \in 1..MaxSuffix : ~There(Candidate(i))}
    IN  IF free = {} THEN {} ELSE {Candidate(Min(free))}

ForkTargets(r) == IF r.name = Default THEN default_fork_target(r.user, r.path) ELSE {r.name}

Fork(target, facts) == [target |-> target, facts |-> facts]

CanFork(r, target) ==
    /\ CanWrite(Level(r.user, target))
    /\ IsExom(r.path) /\ tree[r.path].kind # "session"
    /\ ~There(target)

ForkCheck(p) ==
    LET r == req[p]
        targets == {target \in ForkTargets(r) : CanFork(r, target)}
    IN  /\ At(p, "fork_check")
        /\ \/ targets = {} /\ Leave(p)
           \/ \E target \in targets : Holding(p, Fork(target, {}))
        /\ Quiet /\ UNCHANGED <<disk, memory>>

Copied(p, c) == Holding(p, Fork(req[p].held.target, View(c[req[p].path].brain, Main)))

\* api_exom_fork: the facts of the source are taken under the lock.
Snapshot(p) ==
    LET path == req[p].path
    IN  /\ At(p, "snapshot")
        /\ IF Loadable(path)
           THEN cache' = Loaded(path) /\ env' = Bound(path) /\ Copied(p, Loaded(path))
           ELSE UNCHANGED <<cache, env>> /\ Leave(p)
        /\ Quiet /\ UNCHANGED <<disk, typed>>

\* tool_exom_fork looks whether the source is cached, and if not loads and binds it without
\* the lock, puts it into the map, and takes the facts from there, each under a lock of its own.
Peek(p) ==
    /\ At(p, "peek")
    /\ IF req[p].path \in DOMAIN cache THEN Skip(p, 3) ELSE Advance(p)
    /\ Quiet /\ UNCHANGED <<disk, memory>>

ForkLoad(p) ==
    LET r == req[p]
        entry == FromDisk(IF There(r.path) THEN tree[r.path].brain ELSE EmptyBrain)
    IN  /\ At(p, "fork_load")
        /\ env' = Insert(env, r.path, entry.datoms)
        /\ Holding(p, [target |-> r.held.target, facts |-> {}, entry |-> entry])
        /\ Quiet /\ UNCHANGED <<disk, cache, typed>>

ForkInsert(p) ==
    /\ At(p, "fork_insert")
    /\ cache' = Insert(cache, req[p].path, req[p].held.entry)
    /\ Advance(p) /\ Quiet /\ UNCHANGED <<disk, env, typed>>

SnapshotCached(p) ==
    /\ At(p, "snapshot_cached")
    /\ IF req[p].path \in DOMAIN cache THEN Copied(p, cache) ELSE Leave(p)
    /\ Quiet /\ UNCHANGED <<disk, memory>>

ForkNew(p) ==
    LET r == req[p]
        target == r.held.target
    IN  /\ Reshape(p, "fork_new")
        /\ tree' = IF Bare(target) THEN BareExom(target, r.id) ELSE tree
        /\ IF Bare(target) THEN Skip(p, IF r.held.facts = {} THEN 2 ELSE 1) ELSE Leave(p)

\* One mutate_exom for each fact; one that fails is left out.
CopyFact(p) ==
    LET r == req[p]
        path == r.held.target
        old == Loaded(path)[path].brain
    IN  /\ At(p, "copy")
        /\ \E f \in r.held.facts :
              LET new == With(old, {Row(f.n, Main, 0)})
              IN  /\ IF Loadable(path)
                     THEN /\ cache' = [Loaded(path) EXCEPT ![path] = FromDisk(new)]
                          /\ env' = Insert(env, path, View(new, Main))
                          /\ tree' = SaveTo(tree, path, new, r.id)
                          /\ Ack(tree', path, old, new, FALSE)
                     ELSE UNCHANGED <<cache, env, tree, acked>>
                  /\ IF r.held.facts = {f} THEN Advance(p)
                     ELSE req' = [req EXCEPT ![p].held.facts = @ \ {f}]
        /\ Quiet /\ UNCHANGED <<shares, typed>>

-----------------------------------------------------------------------------
(* Steps that leave cache, engine or shares apart from the tree, because    *)
(* another request runs between two steps of a handler, or a handler stops  *)
(* half way.  From then on the invariants below are not claimed.            *)

\* Between them two locks of a handler, or a lock and a change of the tree
OutOfStep(q, path) ==
    LET r == req[q]
    IN  \/ (At(q, "evict_under") \/ At(q, "evict_held") \/ At(q, "delete")) /\ Under(path, r.path)
        \/ At(q, "reset")
        \/ At(q, "fork_insert") /\ path = r.path
        \/ At(q, "session_rows") /\ path = SessionPath(r)

\* A directory has gone and what hangs on its path has not followed yet.
Moving(q) ==
    \E step \in {"evict_under", "share_paths", "delete_shares", "reset_shares"} : At(q, step)

\* The exoms a step loads, evaluates or changes
Touched(p) ==
    IF At(p, "copy") THEN {req[p].held.target}
    ELSE IF \E step \in {"load", "query", "mcp_query", "eval_query", "tool_bind", "schema", "derived",
                         "assert", "retract", "retract_all", "wipe", "import", "eval_assert",
                         "eval_retract", "eval_rule", "snapshot", "snapshot_cached", "fork_insert"} :
               At(p, step)
    THEN {req[p].path} ELSE {}

Moves(p) == \E step \in {"rename", "delete", "purge", "reset"} : At(p, step)

\* Besides a race: api_wipe removes exom.json and goes on with the cached exom, an import that
\* fails after replace_state leaves the old tables bound, collect_exoms_under does not find an
\* exom inside another, and a session may be made where an exom is (create_dir_all, write_meta).
SetsApart(p) ==
    \/ \E q \in Slots \ {p} :
          \/ \E path \in Touched(p) : OutOfStep(q, path)
          \/ Moves(p) /\ Moving(q)
          \/ /\ At(q, "fork_load") \/ At(q, "fork_insert")
             /\ <<tree, memory>>' # <<tree, memory>>
    \/ At(p, "wipe") /\ Loadable(req[p].path)
    \/ At(p, "import") /\ Loadable(req[p].path) /\ req'[p] = Nothing
    \/ At(p, "fork_load") /\ ~IsExom(req[p].path)
    \/ At(p, "session_dir") /\ There(SessionPath(req[p]))
    \/ At(p, "delete") /\ \E path \in DOMAIN cache : Under(path, req[p].path) /\ Nested(path)

Step(p) ==
    /\ \/ GuardRead(p) \/ GuardWrite(p) \/ GuardOwner(p)
       \/ Load(p) \/ Query(p) \/ McpQuery(p) \/ EvalQuery(p) \/ EvalQueryUnknown(p)
       \/ EvalRaw(p) \/ ToolBind(p) \/ ToolEval(p) \/ Schema(p) \/ Derived(p)
       \/ Mutate(p) \/ MutateUnknown(p) \/ Rebind(p) \/ EvalChange(p) \/ Precheck(p)
       \/ Evict(p) \/ Uncache(p)
       \/ Init_(p) \/ FolderNew(p) \/ ExomNew(p) \/ SessionDir(p) \/ SessionRows(p)
       \/ RenameDir(p) \/ EvictUnder(p) \/ SharePaths(p)
       \/ Collect(p) \/ EvictHeld(p) \/ DeleteDir(p) \/ DeleteShares(p)
       \/ DeleteUser(p) \/ Purge(p) \/ ResetEvict(p) \/ Reset(p) \/ ResetShares(p)
       \/ ForkCheck(p) \/ Snapshot(p) \/ Peek(p) \/ ForkLoad(p) \/ ForkInsert(p)
       \/ SnapshotCached(p) \/ ForkNew(p) \/ CopyFact(p)
    /\ apart' = (apart \/ SetsApart(p))
    /\ UNCHANGED <<begun, crashes>>

-----------------------------------------------------------------------------
(* The daemon starts: from_data_dir loads every exom a walk finds and binds *)
(* it; the health probe then asks each of them a query over typed tables.   *)

Booted(t) == [path \in Walk(t, <<>>) |-> FromDisk(t[path].brain)]

TypedAtBoot(c) == IF c = <<>> THEN {NoTable} ELSE {c[path].typed : path \in DOMAIN c}

Restart ==
    /\ crashes < MaxCrashes
    /\ crashes' = crashes + 1
    /\ cache' = Booted(tree)
    /\ env' = Bindings(cache')
    /\ typed' \in TypedAtBoot(cache')
    /\ req' = [p \in Slots |-> Nothing]
    /\ apart' = (apart \/ \E q \in Slots : Moving(q))
    /\ Quiet
    /\ UNCHANGED <<disk, begun>>

\* The directories of an earlier daemon differ in their ids, and its grants are on directories.
ASSUME StartsAssumption ==
    /\ \A path \in Exoms \union Folders \union (Targets \ {Default}) : path \in Seq(STRING) \ {<<>>}
    /\ \A s \in Starts :
          /\ IsTree(s.tree) /\ IsFiniteSet(s.shares)
          /\ \A path \in DOMAIN s.tree :
                path \in Seq(STRING) /\ \E n \in 0..(FirstId - 1) : s.tree[path].id = <<n, path>>
          /\ \A g \in s.shares :
                /\ g = Share(g.to, g.path, g.permission, g.id)
                /\ g.to \in Users /\ g.permission \in {"read", "read-write"}
                /\ g.path \in DOMAIN s.tree /\ s.tree[g.path].id = g.id

AckedIn(t) == UNION {{[id |-> t[path].id, row |-> r] : r \in t[path].brain.rows} : path \in DOMAIN t}

Init ==
    /\ \E s \in Starts : tree = s.tree /\ shares = s.shares
    /\ cache = Booted(tree)
    /\ env = Bindings(cache)
    /\ typed \in TypedAtBoot(cache)
    /\ req = [p \in Slots |-> Nothing]
    /\ begun = 0 /\ crashes = 0
    /\ answer = NoAnswer
    /\ acked = AckedIn(tree)
    /\ apart = FALSE

Next ==
    \/ \E p \in Slots : Begin(p) \/ Step(p)
    \/ Restart

Spec == Init /\ [][Next]_vars

-----------------------------------------------------------------------------
(* The tree a user is shown: the exoms in it *)

SharedWith(user) == {s.path : s \in {s \in shares : s.to = user}}

\* A slip to catch: a folder above a share is shown whole.
WholeFolder(requested, grants) ==
    IF \E g \in grants : Under(requested, g) \/ Under(g, requested) THEN Walk(tree, requested) ELSE {}

walk_shared_projection(requested, grants) ==
    IF \E g \in grants : Under(requested, g) THEN Walk(tree, requested)
    ELSE UNION {Walk(tree, g) : g \in {g \in grants : Under(g, requested)}}

build_tree_root_for_user(user) ==
    LET others == {g \in SharedWith(user) : g[1] # user}
    IN  Walk(tree, <<user>>) \union Walk(tree, <<Public>>)
            \union UNION {walk_shared_projection(<<owner>>, {g \in others : g[1] = owner}) :
                             owner \in {g[1] : g \in others}}

build_tree_path_for_user(user, requested) ==
    IF CanRead(Level(user, requested)) THEN Walk(tree, requested)
    ELSE walk_shared_projection(requested, SharedWith(user))

\* tool_tree of a path
tool_tree(user, requested) ==
    IF CanRead(Level(user, requested)) THEN Walk(tree, requested) ELSE {}

-----------------------------------------------------------------------------
(* Properties *)

\* Directories are below directories, every brain has its main branch and rows on branches it
\* has, the cached ones too, and requests in progress have a step left.
TypeOK ==
    /\ IsTree(tree)
    /\ \A path \in DOMAIN cache : IsBrain(cache[path].brain)
    /\ DOMAIN req = Slots
    /\ \A p \in Slots : Busy(p) => req[p].todo # <<>> /\ req[p].user \in Users
    /\ {s.to : s \in shares} \subseteq Users
    /\ begun \in 0..MaxRequests /\ crashes \in 0..MaxCrashes
    /\ apart \in BOOLEAN

\* Every cached exom is an exom on disk with the rows and branches of its tables (get_or_load_exom,
\* mutate_exom, and the evictions of the handlers that rename, delete or reset): a renamed or
\* deleted exom is not answered from the cache, nor saved to its old place.
CachedIsOnDisk ==
    ~apart => \A path \in DOMAIN cache :
        \/ IsExom(path) /\ cache[path].brain = tree[path].brain
        \/ \E q \in Slots : OutOfStep(q, path)

\* A row that a handler reported saved is in the tables of its directory, wherever the
\* directory is by now, until it is deleted, wiped or replaced by an import.
NothingLost ==
    ~apart => \A a \in acked :
        \E path \in DOMAIN tree : tree[path].id = a.id /\ a.row \in tree[path].brain.rows

\* The engine holds for each cached exom the datoms the cache holds, and they are those of a
\* branch of its brain (refresh_exom_binding, rebind_datoms_only, reconcile_engine), whatever
\* else was evicted, reset, or failed.
EngineShowsTheBrain ==
    ~apart => \A path \in DOMAIN cache :
        /\ path \in DOMAIN env /\ env[path] = cache[path].datoms
        /\ \E b \in cache[path].brain.branches : env[path] = View(cache[path].brain, b)

\* A query of one exom and branch is evaluated over datoms and typed tables of just that
\* branch, as they are on disk, whatever was asked of the engine before.
QueriesAnswerTheirBranch ==
    ~apart /\ answer.op \in {"load", "query", "mcp_query", "eval_query"} => answer.got = answer.due

\* A grant stays on the directory it was given for (update_share_paths, delete_share_paths
\* and delete_user): it never comes to cover another one that took its path.
GrantsFollowTheirDirectory ==
    ~apart /\ (\A p \in Slots : Idle(p)) =>
        \A s \in shares : There(s.path) /\ tree[s.path].id = s.id

\* The tree a user is shown has the exoms the user may read, all of them and no other; and of
\* the subtree at a path just those in it (walk_shared_projection against resolve_access); but
\* for a grant inside an exom, where the walk from the root does not come.
TreeShowsWhatIsReadable ==
    \A user \in Users : (\A path \in SharedWith(user) : ~Nested(path)) =>
        LET readable == {path \in Walk(tree, <<>>) : CanRead(Level(user, path))}
        IN  /\ build_tree_root_for_user(user) = readable
            /\ \A top \in {top \in DOMAIN tree : ~Nested(top)} :
                  /\ build_tree_path_for_user(user, top) = {path \in readable : Under(path, top)}
                  /\ tool_tree(user, top) \in {{}, {path \in readable : Under(path, top)}}

\* server.rs:66 says of the typed tables that they are bound to their names immediately before
\* each query; api_derived_handler evaluates over those of the exom asked before.
TypedTablesAreTheirs == answer.op = "derived" => answer.got = answer.due

=============================================================================
