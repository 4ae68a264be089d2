----------------------------- MODULE SplayTable -----------------------------
(***************************************************************************)
(* One table of an exom on disk (src/storage.rs): a directory of column    *)
(* files that save_table replaces by writing a staging directory and       *)
(* swapping names, and that recover_splay_dirs brings back to one complete *)
(* directory after a crash.  Here a directory is an object that keeps its  *)
(* identity when it is renamed, and each system call is a step.            *)
(*                                                                         *)
(* The holder of the lock on the exoms opens the table and saves it.  A    *)
(* claimer holds no lock: save_branches_to_disk, called by a write that    *)
(* claims its branch, runs the recovery over every table of the exom       *)
(* before it saves the branch table.  The tables meant here are the other  *)
(* four, which only the holder saves.                                      *)
(*                                                                         *)
(* A crash is one of the process: what the system calls did stays done.    *)
(* Writes, renames of a save and removals may fail; loading a complete     *)
(* table and the rename of the recovery do not.                            *)
(***************************************************************************)
EXTENDS Naturals

CONSTANTS
    Holder,         \* the holder of the lock on the exoms
    Claimers,       \* concurrent calls of save_branches_to_disk
    Dirs, NoDir,    \* directories on disk
    MaxVersion      \* bound: saves

ASSUME SplayAssumption ==
    /\ Holder \notin Claimers
    /\ NoDir \notin Dirs
    /\ MaxVersion \in Nat

VARIABLES
    names,      \* which directory has the name dir, dir.new, dir.old
    files,      \* what is in each directory
    pc,         \* the next step of each process
    held,       \* the directory whose files a process is removing
    opened,     \* the brain is in memory
    version,    \* the number of saves begun
    returned,   \* the last version whose save returned Ok
    loaded      \* the version the last open found

vars == <<names, files, pc, held, opened, version, returned, loaded>>

Names == {"dir", "new", "old"}

Procs == {Holder} \cup Claimers

\* The steps that remove a directory: in save_table, in recover_splay_dirs.
Removals == {"clear", "drop", "discard", "cleanup"}

Steps == Removals \cup {"idle", "write", "fill", "park", "publish", "return",
                        "restore", "check", "recovered"}

Files == [version : Nat, written : BOOLEAN, damaged : BOOLEAN]

Whole(d) == files[d].written /\ ~files[d].damaged

Init ==
    /\ names = [n \in Names |-> NoDir]
    /\ files = [d \in Dirs |-> [version |-> 0, written |-> FALSE, damaged |-> FALSE]]
    /\ pc = [p \in Procs |-> "idle"]
    /\ held = [p \in Procs |-> NoDir]
    /\ opened = FALSE
    /\ version = 0
    /\ returned = 0
    /\ loaded = 0

Goto(p, step) == pc' = [pc EXCEPT ![p] = step]

-----------------------------------------------------------------------------
(* remove_dir_all: the files, then the directory.  Its errors are ignored. *)

\* The name is free, or the removal fails before its first file.
RemoveNothing(p, next) ==
    /\ held[p] = NoDir
    /\ Goto(p, next)
    /\ UNCHANGED <<names, files, held>>

RemoveFiles(p, name) ==
    /\ held[p] = NoDir
    /\ names[name] # NoDir
    /\ files' = [files EXCEPT ![names[name]].damaged = TRUE]
    /\ held' = [held EXCEPT ![p] = names[name]]
    /\ UNCHANGED <<names, pc>>

\* A slip to catch: the removal goes on in the background.
RemovingStill(p) == held

Removed(p) == [held EXCEPT ![p] = NoDir]

\* The directory goes only if it still has the name, and not if that fails.
RemoveDir(p, name, next) ==
    /\ held[p] # NoDir
    /\ names' \in {names} \cup {[names EXCEPT ![name] = NoDir] : d \in {held[p]} \cap {names[name]}}
    /\ held' = Removed(p)
    /\ Goto(p, next)
    /\ UNCHANGED files

Remove(p, here, name, next) ==
    /\ pc[p] = here
    /\ RemoveNothing(p, next) \/ RemoveFiles(p, name) \/ RemoveDir(p, name, next)
    /\ UNCHANGED <<opened, version, returned, loaded>>

-----------------------------------------------------------------------------
(* save_table *)

BeginSave ==
    /\ pc[Holder] = "idle"
    /\ opened
    /\ version < MaxVersion
    /\ version' = version + 1
    /\ Goto(Holder, "clear")
    /\ UNCHANGED <<names, files, held, opened, returned, loaded>>

Clear == Remove(Holder, "clear", "new", "write")

\* create_dir_all: a directory that nobody has, or the one that could not be removed.
Staging ==
    IF names["new"] # NoDir
      THEN {names["new"]}
      ELSE {d \in Dirs : (\A n \in Names : names[n] # d) /\ (\A p \in Procs : held[p] # d)}

Write ==
    /\ pc[Holder] = "write"
    /\ \E d \in Staging :
        /\ names' = [names EXCEPT !["new"] = d]
        /\ files' = [files EXCEPT ![d] =
             [version |-> version, written |-> FALSE, damaged |-> \E p \in Procs : held[p] = d]]
    /\ Goto(Holder, "fill")
    /\ UNCHANGED <<held, opened, version, returned, loaded>>

Fill ==
    /\ pc[Holder] = "fill"
    /\ names["new"] # NoDir
    /\ files' = [files EXCEPT ![names["new"]].written = TRUE]
    /\ Goto(Holder, "park")
    /\ UNCHANGED <<names, held, opened, version, returned, loaded>>

\* rename puts a directory under a free name, or in the place of one that a removal emptied.
Free(name) == names[name] # NoDir => files[names[name]].damaged

\* A slip to catch: the current directory is removed to make room for the new one.
ParkedAway == [names EXCEPT !["dir"] = NoDir]

Parked == [names EXCEPT !["old"] = names["dir"], !["dir"] = NoDir]

Park ==
    /\ pc[Holder] = "park"
    /\ \/ names["dir"] = NoDir /\ names' = names
       \/ names["dir"] # NoDir /\ Free("old") /\ names' = Parked
    /\ Goto(Holder, "publish")
    /\ UNCHANGED <<files, held, opened, version, returned, loaded>>

Publish ==
    /\ pc[Holder] = "publish"
    /\ names["new"] # NoDir
    /\ Free("dir")
    /\ names' = [names EXCEPT !["dir"] = names["new"], !["new"] = NoDir]
    /\ Goto(Holder, "drop")
    /\ UNCHANGED <<files, held, opened, version, returned, loaded>>

Drop == Remove(Holder, "drop", "old", "return")

Return ==
    /\ pc[Holder] = "return"
    /\ returned' = version
    /\ Goto(Holder, "idle")
    /\ UNCHANGED <<names, files, held, opened, version, loaded>>

\* An error of the file system: save_table returns it.
Fail ==
    /\ pc[Holder] \in {"write", "fill", "park", "publish"}
    /\ Goto(Holder, "idle")
    /\ UNCHANGED <<names, files, held, opened, version, returned, loaded>>

-----------------------------------------------------------------------------
(* recover_splay_dirs, by the holder when it opens the exom and by claimers *)

BeginOpen ==
    /\ pc[Holder] = "idle"
    /\ opened' = FALSE
    /\ Goto(Holder, "discard")
    /\ UNCHANGED <<names, files, held, version, returned, loaded>>

BeginClaim(p) ==
    /\ pc[p] = "idle"
    /\ Goto(p, "discard")
    /\ UNCHANGED <<names, files, held, opened, version, returned, loaded>>

Discard(p) == Remove(p, "discard", "new", "restore")

\* A slip to catch: the backup is restored over the current directory.
RestoreNeededAlways == names["old"] # NoDir

RestoreNeeded == names["old"] # NoDir /\ names["dir"] = NoDir

Restore(p) ==
    /\ pc[p] = "restore"
    /\ names' = IF RestoreNeeded
                  THEN [names EXCEPT !["dir"] = names["old"], !["old"] = NoDir]
                  ELSE names
    /\ Goto(p, "check")
    /\ UNCHANGED <<files, held, opened, version, returned, loaded>>

Check(p) ==
    /\ pc[p] = "check"
    /\ Goto(p, IF names["old"] # NoDir /\ names["dir"] # NoDir THEN "cleanup" ELSE "recovered")
    /\ UNCHANGED <<names, files, held, opened, version, returned, loaded>>

Cleanup(p) == Remove(p, "cleanup", "old", "recovered")

\* table_exists and load_table: a table that is missing or incomplete reads as empty.
Load ==
    /\ pc[Holder] = "recovered"
    /\ loaded' = IF names["dir"] # NoDir /\ Whole(names["dir"]) THEN files[names["dir"]].version ELSE 0
    /\ opened' = TRUE
    /\ Goto(Holder, "idle")
    /\ UNCHANGED <<names, files, held, version, returned>>

\* The claimer goes on to the branch table.
EndClaim(p) ==
    /\ pc[p] = "recovered"
    /\ Goto(p, "idle")
    /\ UNCHANGED <<names, files, held, opened, version, returned, loaded>>

Crash ==
    /\ pc' = [p \in Procs |-> "idle"]
    /\ held' = [p \in Procs |-> NoDir]
    /\ opened' = FALSE
    /\ UNCHANGED <<names, files, version, returned, loaded>>

-----------------------------------------------------------------------------

Save == BeginSave \/ Clear \/ Write \/ Fill \/ Park \/ Publish \/ Drop \/ Return \/ Fail

Recover(p) == Discard(p) \/ Restore(p) \/ Check(p) \/ Cleanup(p)

Next ==
    \/ Save
    \/ BeginOpen \/ Recover(Holder) \/ Load
    \/ \E p \in Claimers : BeginClaim(p) \/ Recover(p) \/ EndClaim(p)
    \/ Crash

Spec == Init /\ [][Next]_vars

-----------------------------------------------------------------------------
(* Properties *)

\* A process holds a directory only during a removal.
TypeOK ==
    /\ names \in [Names -> Dirs \cup {NoDir}]
    /\ files \in [Dirs -> Files]
    /\ pc \in [Procs -> Steps]
    /\ held \in [Procs -> Dirs \cup {NoDir}]
    /\ opened \in BOOLEAN
    /\ version \in Nat /\ returned \in Nat /\ loaded \in Nat
    /\ \A p \in Procs : held[p] # NoDir => pc[p] \in Removals

\* The version that an open would find if the process crashed now.
Recoverable ==
    LET kept == IF names["dir"] # NoDir THEN names["dir"] ELSE names["old"]
    IN  IF kept # NoDir /\ Whole(kept) THEN files[kept].version ELSE 0

Table == INSTANCE AtomicTable WITH stored <- Recoverable

\* With the lock, crashes and failing calls anywhere between the steps of save_table and
\* recover_splay_dirs leave a table that is written at once or not at all.
SavesAreAtomic == Table!Spec

\* A claim that runs its recovery inside a save may lose the table, but never brings an
\* older version back than one whose save returned Ok: not the backup over the current
\* directory, nor a staging directory whose writing was not finished.
LostOrCurrent == [][loaded' # loaded => loaded' = 0 \/ loaded' >= returned]_vars

\* save_table: "Atomic splay write".  A version whose save returned Ok, or a later one,
\* is what an open after a crash finds.
ReturnedIsKept == Recoverable >= returned

=============================================================================
