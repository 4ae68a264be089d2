------------------------- MODULE SplayTable_proofs -------------------------
(***************************************************************************)
(* A table that only the holder of the lock recovers and saves is written  *)
(* atomically, however often the process crashes or a call fails.  With    *)
(* claimers beside the lock a table may be lost, but none goes back to a   *)
(* version older than the last one that was acknowledged.                  *)
(***************************************************************************)
EXTENDS SplayTable, TLAPS

\* No directory has two names.
NamesDistinct ==
    \A m, n \in Names : m # n /\ names[m] # NoDir => names[m] # names[n]

\* What recovery would keep is complete.
KeptIsWhole ==
    /\ names["dir"] # NoDir => Whole(names["dir"])
    /\ names["dir"] = NoDir /\ names["old"] # NoDir => Whole(names["old"])

\* The staging directory holds the version being saved.
Staged ==
    /\ names["new"] # NoDir
    /\ files[names["new"]].version = version
    /\ ~files[names["new"]].damaged

\* What holds of the directories at each step of the holder.
StepInv ==
    /\ pc[Holder] \in {"clear", "write", "fill", "park", "publish"} => Recoverable < version
    /\ pc[Holder] \in {"fill", "park", "publish"} => Staged
    /\ pc[Holder] \in {"park", "publish"} => files[names["new"]].written
    /\ pc[Holder] = "publish" => names["dir"] = NoDir
    /\ pc[Holder] \in {"drop", "return"} =>
          names["dir"] # NoDir /\ files[names["dir"]].version = version
    /\ pc[Holder] \in {"check", "recovered"} => names["dir"] # NoDir \/ names["old"] = NoDir
    /\ pc[Holder] = "cleanup" => names["dir"] # NoDir

Inv ==
    /\ TypeOK
    /\ NamesDistinct
    /\ KeptIsWhole
    /\ Recoverable <= version
    /\ StepInv

LEMMA InitInv == Init => Inv
  <1> SUFFICES ASSUME Init PROVE Inv
    OBVIOUS
  <1>1. TypeOK
    BY DEF Init, TypeOK, Files, Steps, Procs
  <1>2. Recoverable = 0
    BY DEF Init, Recoverable, Names
  <1>3. NamesDistinct /\ KeptIsWhole
    BY DEF Init, NamesDistinct, KeptIsWhole, Names
  <1>4. StepInv
    BY DEF Init, StepInv, Procs
  <1>5. QED
    BY <1>1, <1>2, <1>3, <1>4 DEF Init, Inv

LEMMA RecoverableTyped == TypeOK => Recoverable \in Nat
  BY DEF TypeOK, Recoverable, Names, Files

\* What recovery would keep stays as it is, so the version it finds does too.
LEMMA KeptUntouched ==
  ASSUME TypeOK, KeptIsWhole,
         names'["dir"] = names["dir"],
         names["dir"] # NoDir => files'[names["dir"]] = files[names["dir"]],
         names["dir"] = NoDir => /\ names'["old"] = names["old"]
                                 /\ names["old"] # NoDir => files'[names["old"]] = files[names["old"]]
  PROVE  Recoverable' = Recoverable /\ KeptIsWhole'
  BY DEF Recoverable, KeptIsWhole, Whole

\* A step in which neither names nor contents change keeps what does not depend on pc.
LEMMA SameDirs ==
  ASSUME Inv, names' = names, files' = files
  PROVE  Recoverable' = Recoverable /\ KeptIsWhole' /\ NamesDistinct'
  BY KeptUntouched DEF Inv, NamesDistinct

\* The removal of a directory that recovery would not keep.
LEMMA RemovalKeeps ==
  ASSUME Claimers = {}, Inv, NEW here \in Removals, NEW name \in {"new", "old"}, NEW next \in Steps,
         name = "old" => names["dir"] # NoDir,
         Remove(Holder, here, name, next)
  PROVE  /\ TypeOK' /\ NamesDistinct' /\ KeptIsWhole' /\ Recoverable' = Recoverable
         /\ pc'[Holder] \in {here, next}
         /\ version' = version /\ returned' = returned /\ loaded' = loaded
         /\ names'["dir"] = names["dir"]
         /\ names["old"] = NoDir => names'["old"] = NoDir
         /\ names["dir"] # NoDir => files'[names["dir"]] = files[names["dir"]]
  <1>1. Procs = {Holder} /\ pc[Holder] = here /\ here \in Steps
    BY DEF Procs, Remove, Steps
  <1>2. names \in [Names -> Dirs \cup {NoDir}] /\ files \in [Dirs -> Files]
        /\ pc \in [Procs -> Steps] /\ held \in [Procs -> Dirs \cup {NoDir}]
        /\ NoDir \notin Dirs
    BY SplayAssumption DEF Inv, TypeOK
  <1>3. name \in Names /\ "dir" \in Names /\ "old" \in Names /\ "new" \in Names
    BY DEF Names
  <1>4. /\ opened' = opened /\ version' = version /\ returned' = returned /\ loaded' = loaded
    BY DEF Remove
  <1>5. CASE RemoveNothing(Holder, next)
    <2>1. names' = names /\ files' = files /\ held' = held /\ pc' = [pc EXCEPT ![Holder] = next]
          /\ held[Holder] = NoDir
      BY <1>5 DEF RemoveNothing, Goto
    <2>2. TypeOK'
      BY <1>1, <1>2, <1>4, <2>1 DEF Inv, TypeOK
    <2>3. QED
      BY <1>1, <1>2, <1>4, <2>1, <2>2, SameDirs
  <1>6. CASE RemoveFiles(Holder, name)
    <2>1. /\ names' = names /\ pc' = pc
          /\ names[name] # NoDir
          /\ files' = [files EXCEPT ![names[name]].damaged = TRUE]
          /\ held' = [held EXCEPT ![Holder] = names[name]]
      BY <1>6 DEF RemoveFiles
    <2>2. names[name] \in Dirs
      BY <1>2, <1>3, <2>1
    <2>3. files' \in [Dirs -> Files]
      BY <1>2, <2>1, <2>2 DEF Files
    <2>4. TypeOK'
      BY <1>1, <1>2, <1>4, <2>1, <2>2, <2>3 DEF Inv, TypeOK
    <2>5. names["dir"] # NoDir => names["dir"] # names[name]
      BY <1>3 DEF Inv, NamesDistinct
    <2>6. names["dir"] = NoDir /\ names["old"] # NoDir => names["old"] # names[name]
      BY <1>3 DEF Inv, NamesDistinct
    <2>7. \A d \in Dirs : d # names[name] => files'[d] = files[d]
      BY <1>2, <2>1
    <2>8. names["dir"] # NoDir => files'[names["dir"]] = files[names["dir"]]
      BY <1>2, <1>3, <2>5, <2>7
    <2>9. names["dir"] = NoDir /\ names["old"] # NoDir
            => files'[names["old"]] = files[names["old"]]
      BY <1>2, <1>3, <2>6, <2>7
    <2>10. Recoverable' = Recoverable /\ KeptIsWhole'
      BY <2>1, <2>8, <2>9, KeptUntouched DEF Inv
    <2>11. NamesDistinct'
      BY <2>1 DEF Inv, NamesDistinct
    <2>12. QED
      BY <1>1, <1>4, <2>1, <2>4, <2>8, <2>10, <2>11
  <1>7. CASE RemoveDir(Holder, name, next)
    <2>1. /\ files' = files
          /\ names' = names \/ names' = [names EXCEPT ![name] = NoDir]
          /\ held' = [held EXCEPT ![Holder] = NoDir]
          /\ pc' = [pc EXCEPT ![Holder] = next]
      BY <1>7 DEF RemoveDir, Removed, Goto
    <2>2. TypeOK'
      BY <1>1, <1>2, <1>3, <1>4, <2>1 DEF Inv, TypeOK
    <2>3. NamesDistinct'
      BY <1>2, <1>3, <2>1 DEF Inv, NamesDistinct
    <2>4. names'["dir"] = names["dir"] /\ (names["old"] = NoDir => names'["old"] = NoDir)
          /\ (names["dir"] = NoDir => names'["old"] = names["old"])
      BY <1>2, <1>3, <2>1
    <2>5. Recoverable' = Recoverable /\ KeptIsWhole'
      BY <2>1, <2>4, KeptUntouched DEF Inv
    <2>6. QED
      BY <1>1, <1>2, <1>4, <2>1, <2>2, <2>3, <2>4, <2>5
  <1>8. QED
    BY <1>5, <1>6, <1>7 DEF Remove

(***************************************************************************)
(* Every step keeps Inv and maps to a step of AtomicTable or to none.      *)
(***************************************************************************)

Mapped == [Table!Next]_<<Recoverable, returned, loaded>>

LEMMA RemovalSteps ==
  ASSUME Claimers = {}, Inv,
         Clear \/ Drop \/ Discard(Holder) \/ Cleanup(Holder)
  PROVE  Inv' /\ Mapped
  <1>1. ASSUME NEW here \in Removals, NEW name \in {"new", "old"}, NEW next \in Steps,
               name = "old" => names["dir"] # NoDir,
               Remove(Holder, here, name, next),
               <<here, name, next>> \in {<<"clear", "new", "write">>, <<"drop", "old", "return">>,
                                         <<"discard", "new", "restore">>, <<"cleanup", "old", "recovered">>}
        PROVE  Inv' /\ Mapped
    <2>1. /\ TypeOK' /\ NamesDistinct' /\ KeptIsWhole' /\ Recoverable' = Recoverable
          /\ pc'[Holder] \in {here, next}
          /\ version' = version /\ returned' = returned /\ loaded' = loaded
          /\ names'["dir"] = names["dir"]
          /\ names["dir"] # NoDir => files'[names["dir"]] = files[names["dir"]]
      BY <1>1, RemovalKeeps
    <2>2. pc[Holder] = here
      BY <1>1 DEF Remove
    <2>3. StepInv'
      BY <1>1, <2>1, <2>2 DEF Inv, StepInv
    <2>4. QED
      BY <2>1, <2>3 DEF Inv, Mapped
  <1>2. CASE Clear
    BY <1>1, <1>2 DEF Clear, Removals, Steps
  <1>3. CASE Drop
    <2>1. pc[Holder] = "drop"
      BY <1>3 DEF Drop, Remove
    <2>2. names["dir"] # NoDir
      BY <2>1 DEF Inv, StepInv
    <2>3. QED
      BY <1>1, <1>3, <2>2 DEF Drop, Removals, Steps
  <1>4. CASE Discard(Holder)
    BY <1>1, <1>4 DEF Discard, Removals, Steps
  <1>5. CASE Cleanup(Holder)
    <2>1. pc[Holder] = "cleanup"
      BY <1>5 DEF Cleanup, Remove
    <2>2. names["dir"] # NoDir
      BY <2>1 DEF Inv, StepInv
    <2>3. QED
      BY <1>1, <1>5, <2>2 DEF Cleanup, Removals, Steps
  <1>6. QED
    BY <1>2, <1>3, <1>4, <1>5

\* Steps that change neither names nor contents.
LEMMA QuietSteps ==
  ASSUME Claimers = {}, Inv,
         BeginSave \/ Return \/ Fail \/ BeginOpen \/ Check(Holder) \/ Load \/ Crash
  PROVE  Inv' /\ Mapped
  <1>1. names' = names /\ files' = files
    BY DEF BeginSave, Return, Fail, BeginOpen, Check, Load, Crash
  <1>2. Recoverable' = Recoverable /\ KeptIsWhole' /\ NamesDistinct' /\ Recoverable \in Nat
    BY <1>1, SameDirs, RecoverableTyped DEF Inv
  <1>3. Procs = {Holder}
    BY DEF Procs
  <1>4. pc \in [Procs -> Steps] /\ version \in Nat /\ TypeOK
    BY DEF Inv, TypeOK
  <1>5. CASE BeginSave
    <2>1. TypeOK'
      BY <1>1, <1>3, <1>5 DEF Inv, TypeOK, BeginSave, Goto, Steps, Removals
    <2>2. version' = version + 1 /\ pc'[Holder] = "clear" /\ returned' = returned /\ loaded' = loaded
      BY <1>3, <1>4, <1>5 DEF BeginSave, Goto
    <2>3. Recoverable' <= version' /\ Recoverable' < version'
      BY <1>2, <1>4, <2>2 DEF Inv
    <2>4. QED
      BY <1>2, <2>1, <2>2, <2>3 DEF Inv, StepInv, Mapped
  <1>6. CASE Return
    <2>1. pc[Holder] = "return" /\ pc'[Holder] = "idle" /\ returned' = version
          /\ version' = version /\ loaded' = loaded
      BY <1>3, <1>4, <1>6 DEF Return, Goto
    <2>2. TypeOK'
      BY <1>1, <1>3, <1>6 DEF Inv, TypeOK, Return, Goto, Steps, Removals
    <2>3. Recoverable = version
      BY <2>1 DEF Inv, StepInv, KeptIsWhole, Recoverable
    <2>4. Inv'
      BY <1>2, <2>1, <2>2 DEF Inv, StepInv
    <2>5. QED
      BY <1>2, <2>1, <2>3, <2>4 DEF Mapped, Table!Next, Table!Return
  <1>7. CASE Fail \/ BeginOpen
    <2>1. pc'[Holder] \in {"idle", "discard"} /\ version' = version /\ returned' = returned
          /\ loaded' = loaded
      BY <1>3, <1>4, <1>7 DEF Fail, BeginOpen, Goto
    <2>2. TypeOK'
      BY <1>1, <1>3, <1>7 DEF Inv, TypeOK, Fail, BeginOpen, Goto, Steps, Removals
    <2>3. QED
      BY <1>2, <2>1, <2>2 DEF Inv, StepInv, Mapped
  <1>8. CASE Check(Holder)
    <2>1. /\ pc[Holder] = "check"
          /\ pc'[Holder] = IF names["old"] # NoDir /\ names["dir"] # NoDir THEN "cleanup" ELSE "recovered"
          /\ version' = version /\ returned' = returned /\ loaded' = loaded
      BY <1>3, <1>4, <1>8 DEF Check, Goto
    <2>2. TypeOK'
      BY <1>1, <1>3, <1>8 DEF Inv, TypeOK, Check, Goto, Steps, Removals
    <2>3. StepInv'
      BY <1>1, <2>1 DEF Inv, StepInv
    <2>4. QED
      BY <1>2, <2>1, <2>2, <2>3 DEF Inv, Mapped
  <1>9. CASE Load
    <2>1. pc[Holder] = "recovered" /\ pc'[Holder] = "idle" /\ version' = version
          /\ returned' = returned
      BY <1>3, <1>4, <1>9 DEF Load, Goto
    <2>2. loaded' = Recoverable
      BY <1>9, <2>1 DEF Load, Recoverable, Inv, StepInv
    <2>3. TypeOK'
      BY <1>1, <1>2, <1>3, <1>9, <2>2 DEF Inv, TypeOK, Load, Goto, Steps, Removals
    <2>4. Inv'
      BY <1>2, <2>1, <2>3 DEF Inv, StepInv
    <2>5. QED
      BY <1>2, <2>1, <2>2, <2>4 DEF Mapped, Table!Next, Table!Open
  <1>10. CASE Crash
    <2>1. pc'[Holder] = "idle" /\ version' = version /\ returned' = returned /\ loaded' = loaded
      BY <1>3, <1>10 DEF Crash
    <2>2. TypeOK'
      BY <1>1, <1>3, <1>10 DEF Inv, TypeOK, Crash, Steps
    <2>3. QED
      BY <1>2, <2>1, <2>2 DEF Inv, StepInv, Mapped
  <1>11. QED
    BY <1>5, <1>6, <1>7, <1>8, <1>9, <1>10

LEMMA WriteFillSteps ==
  ASSUME Claimers = {}, Inv, Write \/ Fill
  PROVE  Inv' /\ Mapped
  <1>1. Procs = {Holder} /\ NoDir \notin Dirs
    BY SplayAssumption DEF Procs
  <1>2. names \in [Names -> Dirs \cup {NoDir}] /\ files \in [Dirs -> Files]
        /\ pc \in [Procs -> Steps] /\ held \in [Procs -> Dirs \cup {NoDir}]
        /\ version \in Nat /\ TypeOK
    BY DEF Inv, TypeOK
  <1>3. "dir" \in Names /\ "old" \in Names /\ "new" \in Names
    BY DEF Names
  <1>4. version' = version /\ returned' = returned /\ loaded' = loaded /\ held' = held
        /\ opened' = opened
    BY DEF Write, Fill
  <1>5. CASE Write
    <2>1. held[Holder] = NoDir
      BY <1>1, <1>5 DEF Write, Inv, TypeOK, Removals
    <2>2. PICK d \in Staging :
            /\ names' = [names EXCEPT !["new"] = d]
            /\ files' = [files EXCEPT ![d] =
                 [version |-> version, written |-> FALSE, damaged |-> \E p \in Procs : held[p] = d]]
      BY <1>5 DEF Write
    <2>3. d \in Dirs
      BY <1>2, <1>3, <2>2 DEF Staging
    <2>4. names["dir"] # d /\ names["old"] # d
      BY <1>3, <2>2, <2>3, SplayAssumption DEF Staging, Inv, NamesDistinct
    <2>5. (\E p \in Procs : held[p] = d) = FALSE
      BY <1>1, <2>1, <2>3
    <2>6. files' = [files EXCEPT ![d] = [version |-> version, written |-> FALSE, damaged |-> FALSE]]
      BY <2>2, <2>5
    <2>7. files' \in [Dirs -> Files] /\ names' \in [Names -> Dirs \cup {NoDir}]
      <3>1. [version |-> version, written |-> FALSE, damaged |-> FALSE] \in Files
        BY <1>2 DEF Files
      <3>2. files' \in [Dirs -> Files]
        BY <1>2, <2>3, <2>6, <3>1
      <3>3. names' \in [Names -> Dirs \cup {NoDir}]
        BY <1>2, <2>2, <2>3
      <3>4. QED
        BY <3>2, <3>3
    <2>8. pc[Holder] = "write" /\ pc' = [pc EXCEPT ![Holder] = "fill"]
      BY <1>5 DEF Write, Goto
    <2>9. TypeOK'
      BY <1>1, <1>2, <1>4, <2>1, <2>7, <2>8 DEF TypeOK, Steps, Removals
    <2>10. names'["dir"] = names["dir"] /\ names'["old"] = names["old"] /\ names'["new"] = d
      BY <1>2, <1>3, <2>2
    <2>11. /\ names["dir"] # NoDir => files'[names["dir"]] = files[names["dir"]]
           /\ names["old"] # NoDir => files'[names["old"]] = files[names["old"]]
      BY <1>2, <1>3, <2>4, <2>6
    <2>12. Recoverable' = Recoverable /\ KeptIsWhole'
      BY <2>10, <2>11, KeptUntouched DEF Inv
    <2>13. NamesDistinct'
      BY <1>2, <1>3, <2>2, <2>4 DEF Inv, NamesDistinct, Names
    <2>14. Staged'
      BY <1>2, <1>4, <2>3, <2>6, <2>10, <1>1 DEF Staged
    <2>15. pc'[Holder] = "fill"
      BY <1>1, <1>2, <2>8
    <2>16. StepInv'
      BY <1>4, <2>8, <2>12, <2>14, <2>15 DEF Inv, StepInv
    <2>17. QED
      BY <1>4, <2>9, <2>12, <2>13, <2>16 DEF Inv, Mapped
  <1>6. CASE Fill
    <2> DEFINE d == names["new"]
    <2>1. names' = names /\ files' = [files EXCEPT ![d].written = TRUE] /\ d # NoDir
          /\ pc[Holder] = "fill" /\ pc' = [pc EXCEPT ![Holder] = "park"]
      BY <1>6 DEF Fill, Goto
    <2>2. d \in Dirs
      BY <1>2, <1>3, <2>1
    <2>3. (names["dir"] # NoDir => names["dir"] # d) /\ (names["old"] # NoDir => names["old"] # d)
      BY <1>3 DEF Inv, NamesDistinct
    <2>4. files'[d] = [files[d] EXCEPT !.written = TRUE] /\ files[d] \in Files
      BY <1>2, <2>1, <2>2
    <2>5. files' \in [Dirs -> Files]
      BY <1>2, <2>1, <2>2 DEF Files
    <2>6. TypeOK'
      BY <1>1, <1>2, <1>4, <2>1, <2>5 DEF TypeOK, Steps, Removals
    <2>7. /\ names["dir"] # NoDir => files'[names["dir"]] = files[names["dir"]]
          /\ names["old"] # NoDir => files'[names["old"]] = files[names["old"]]
      BY <1>2, <1>3, <2>1, <2>3
    <2>8. Recoverable' = Recoverable /\ KeptIsWhole'
      BY <2>1, <2>7, KeptUntouched DEF Inv
    <2>9. NamesDistinct'
      BY <2>1 DEF Inv, NamesDistinct
    <2>10. Staged /\ Recoverable < version
      BY <2>1 DEF Inv, StepInv
    <2>11. Staged' /\ files'[d].written
      BY <1>4, <2>1, <2>4, <2>10 DEF Staged, Files
    <2>12. pc'[Holder] = "park"
      BY <1>1, <1>2, <2>1
    <2>13. StepInv'
      BY <1>4, <2>1, <2>8, <2>10, <2>11, <2>12 DEF StepInv
    <2>14. QED
      BY <1>4, <2>6, <2>8, <2>9, <2>13 DEF Inv, Mapped
  <1>7. QED
    BY <1>5, <1>6

LEMMA SwapSteps ==
  ASSUME Claimers = {}, Inv, Park \/ Publish \/ Restore(Holder)
  PROVE  Inv' /\ Mapped
  <1>1. Procs = {Holder} /\ NoDir \notin Dirs
    BY SplayAssumption DEF Procs
  <1>2. names \in [Names -> Dirs \cup {NoDir}] /\ files \in [Dirs -> Files]
        /\ pc \in [Procs -> Steps] /\ held \in [Procs -> Dirs \cup {NoDir}]
        /\ version \in Nat /\ TypeOK /\ Recoverable \in Nat
    BY RecoverableTyped DEF Inv, TypeOK
  <1>3. "dir" \in Names /\ "old" \in Names /\ "new" \in Names
    BY DEF Names
  <1>4. version' = version /\ returned' = returned /\ loaded' = loaded /\ held' = held
        /\ opened' = opened /\ files' = files
    BY DEF Park, Publish, Restore
  <1>5. pc[Holder] \notin Removals
    BY DEF Park, Publish, Restore, Removals
  <1>6. CASE Park
    <2>1. pc[Holder] = "park" /\ pc' = [pc EXCEPT ![Holder] = "publish"]
      BY <1>6 DEF Park, Goto
    <2>2. \/ names["dir"] = NoDir /\ names' = names
          \/ /\ names["dir"] # NoDir
             /\ names' = [names EXCEPT !["old"] = names["dir"], !["dir"] = NoDir]
      BY <1>6 DEF Park, Parked
    <2>3. names' \in [Names -> Dirs \cup {NoDir}]
      BY <1>2, <1>3, <2>2
    <2>4. TypeOK'
      BY <1>1, <1>2, <1>4, <1>5, <2>1, <2>3 DEF TypeOK, Steps, Removals
    <2>5. names'["new"] = names["new"] /\ names'["dir"] = NoDir
          /\ names'["old"] = IF names["dir"] = NoDir THEN names["old"] ELSE names["dir"]
      BY <1>2, <1>3, <2>2
    <2>6. NamesDistinct'
      BY <1>2, <1>3, <2>5 DEF Inv, NamesDistinct, Names
    <2>7. Recoverable' = Recoverable /\ KeptIsWhole'
      BY <1>4, <2>5 DEF Inv, Recoverable, KeptIsWhole, Whole
    <2>8. Staged /\ files[names["new"]].written /\ Recoverable < version
      BY <2>1 DEF Inv, StepInv
    <2>9. Staged'
      BY <1>4, <2>5, <2>8 DEF Staged
    <2>10. pc'[Holder] = "publish"
      BY <1>1, <1>2, <2>1
    <2>11. StepInv'
      BY <1>4, <2>5, <2>7, <2>8, <2>9, <2>10 DEF StepInv
    <2>12. QED
      BY <1>4, <2>4, <2>6, <2>7, <2>11 DEF Inv, Mapped
  <1>7. CASE Publish
    <2>1. /\ pc[Holder] = "publish" /\ pc' = [pc EXCEPT ![Holder] = "drop"]
          /\ names["new"] # NoDir /\ names["dir"] = NoDir
          /\ names' = [names EXCEPT !["dir"] = names["new"], !["new"] = NoDir]
      BY <1>7 DEF Publish, Goto, Inv, StepInv
    <2>2. names' \in [Names -> Dirs \cup {NoDir}]
      BY <1>2, <1>3, <2>1
    <2>3. TypeOK'
      BY <1>1, <1>2, <1>4, <1>5, <2>1, <2>2 DEF TypeOK, Steps, Removals
    <2>4. names'["dir"] = names["new"] /\ names'["new"] = NoDir /\ names'["old"] = names["old"]
      BY <1>2, <1>3, <2>1
    <2>5. NamesDistinct'
      BY <1>2, <1>3, <2>1, <2>4 DEF Inv, NamesDistinct, Names
    <2>6. Staged /\ files[names["new"]].written /\ Recoverable < version
      BY <2>1 DEF Inv, StepInv
    <2>7. Recoverable' = version /\ KeptIsWhole' /\ files'[names'["dir"]].version = version
      BY <1>4, <2>1, <2>4, <2>6 DEF Staged, Recoverable, KeptIsWhole, Whole
    <2>8. pc'[Holder] = "drop"
      BY <1>1, <1>2, <2>1
    <2>9. StepInv'
      BY <1>4, <2>1, <2>4, <2>7, <2>8 DEF StepInv
    <2>10. Recoverable' \in Nat /\ Recoverable' > Recoverable
      BY <1>2, <2>6, <2>7
    <2>11. Mapped
      BY <1>4, <2>10 DEF Mapped, Table!Next, Table!Write
    <2>12. QED
      BY <1>2, <1>4, <2>3, <2>5, <2>7, <2>9, <2>11 DEF Inv
  <1>8. CASE Restore(Holder)
    <2>1. pc[Holder] = "restore" /\ pc' = [pc EXCEPT ![Holder] = "check"]
      BY <1>8 DEF Restore, Goto
    <2>2. names' = IF names["old"] # NoDir /\ names["dir"] = NoDir
                     THEN [names EXCEPT !["dir"] = names["old"], !["old"] = NoDir]
                     ELSE names
      BY <1>8 DEF Restore, RestoreNeeded
    <2>3. names' \in [Names -> Dirs \cup {NoDir}]
      BY <1>2, <1>3, <2>2
    <2>4. TypeOK'
      BY <1>1, <1>2, <1>4, <1>5, <2>1, <2>3 DEF TypeOK, Steps, Removals
    <2>5. /\ names'["new"] = names["new"]
          /\ names'["dir"] = IF names["dir"] = NoDir THEN names["old"] ELSE names["dir"]
          /\ names'["old"] = IF names["dir"] = NoDir THEN NoDir ELSE names["old"]
      BY <1>2, <1>3, <2>2
    <2>6. NamesDistinct'
      BY <1>2, <1>3, <2>5 DEF Inv, NamesDistinct, Names
    <2>7. Recoverable' = Recoverable /\ KeptIsWhole'
      BY <1>4, <2>5 DEF Inv, Recoverable, KeptIsWhole, Whole
    <2>8. pc'[Holder] = "check"
      BY <1>1, <1>2, <2>1
    <2>9. StepInv'
      BY <1>4, <2>5, <2>8 DEF StepInv
    <2>10. QED
      BY <1>4, <2>4, <2>6, <2>7, <2>9 DEF Inv, Mapped
  <1>9. QED
    BY <1>6, <1>7, <1>8

LEMMA NextInv ==
  ASSUME Claimers = {}, Inv, [Next]_vars
  PROVE  Inv' /\ Mapped
  <1>1. CASE UNCHANGED vars
    <2>1. Inv'
      BY <1>1 DEF vars, Inv, TypeOK, NamesDistinct, KeptIsWhole, StepInv, Staged, Recoverable, Whole
    <2>2. Mapped
      BY <1>1 DEF vars, Mapped, Recoverable, Whole
    <2>3. QED
      BY <2>1, <2>2
  <1>2. QED
    BY <1>1, RemovalSteps, QuietSteps, WriteFillSteps, SwapSteps DEF Next, Save, Recover

\* With no claimer beside the lock, the swap of directories implements AtomicTable,
\* whatever the number of saves, crashes and failing calls.
THEOREM LockedSavesAreAtomic ==
  ASSUME Claimers = {}
  PROVE  Spec => SavesAreAtomic
  <1>1. Init => Table!Init
    BY DEF Init, Table!Init, Recoverable, Names
  <1>2. Inv /\ [Next]_vars => Inv' /\ [Table!Next]_<<Recoverable, returned, loaded>>
    BY NextInv DEF Mapped
  <1>3. QED
    BY <1>1, <1>2, InitInv, PTL DEF Spec, SavesAreAtomic, Table!Spec

\* Nor is a version lost whose save returned Ok.
THEOREM LockedSavesAreKept ==
  ASSUME Claimers = {}
  PROVE  Spec => []ReturnedIsKept
  <1> DEFINE Kept == Inv /\ returned <= Recoverable
  <1>1. Init => Kept
    BY InitInv, RecoverableTyped DEF Init, Inv
  <1>2. Kept /\ [Next]_vars => Kept'
    <2> SUFFICES ASSUME Kept, [Next]_vars PROVE Kept'
      OBVIOUS
    <2>1. Inv' /\ Mapped
      BY NextInv
    <2>2. returned \in Nat /\ Recoverable \in Nat /\ Recoverable' \in Nat
      <3>1. returned \in Nat /\ Recoverable \in Nat
        BY RecoverableTyped DEF Inv, TypeOK
      <3>2. QED
        BY <2>1, <3>1 DEF Mapped, Table!Next, Table!Write, Table!Return, Table!Open
    <2>3. returned' <= Recoverable'
      BY <2>1, <2>2 DEF Mapped, Table!Next, Table!Write, Table!Return, Table!Open
    <2>4. QED
      BY <2>1, <2>3
  <1>3. Kept => ReturnedIsKept
    BY RecoverableTyped DEF ReturnedIsKept, Inv, TypeOK
  <1>4. QED
    BY <1>1, <1>2, <1>3, PTL DEF Spec

-----------------------------------------------------------------------------
(* With any number of claimers beside the lock the table may be lost, but   *)
(* what an open finds is not older than a version whose save returned Ok:   *)
(* the current directory loses its name only to be parked, and a directory  *)
(* is published only with the version being saved.                          *)

Kept == IF names["dir"] # NoDir THEN names["dir"] ELSE names["old"]

\* What recovery would keep is damaged or current.
KeptIsCurrent == Kept # NoDir /\ Whole(Kept) => files[Kept].version >= returned

\* What holds at each step of the holder, whatever claimers remove meanwhile.
ClaimedStepInv ==
    /\ pc[Holder] \in {"fill", "park", "publish"} /\ names["new"] # NoDir =>
          files[names["new"]].version = version
    /\ pc[Holder] \in {"drop", "return"} =>
          names["dir"] # NoDir /\ files[names["dir"]].version = version

ClaimedInv ==
    /\ TypeOK
    /\ NamesDistinct
    /\ returned <= version
    /\ KeptIsCurrent
    /\ ClaimedStepInv

\* A directory that keeps its version and is not whole now unless it was
Lasts(d) == files'[d].version = files[d].version /\ (Whole(d)' => Whole(d))

\* Of a step that publishes nothing and acknowledges nothing, what it has to keep.
LEMMA CurrentAgain ==
  ASSUME ClaimedInv, Kept' = Kept \/ Kept' = NoDir,
         \A d \in Dirs : d # names["new"] => Lasts(d),
         returned' = returned
  PROVE  KeptIsCurrent'
  <1>1. names \in [Names -> Dirs \union {NoDir}] /\ "dir" \in Names /\ "old" \in Names /\ "new" \in Names
    BY DEF ClaimedInv, TypeOK, Names
  <1>2. Kept # NoDir => Kept \in Dirs /\ Kept # names["new"]
    BY <1>1 DEF Kept, ClaimedInv, NamesDistinct
  <1>3. CASE Kept' = NoDir
    BY <1>3 DEF KeptIsCurrent
  <1>4. CASE Kept' = Kept /\ Kept # NoDir
    <2>1. PICK d : d = Kept
      OBVIOUS
    <2>2. d \in Dirs /\ Lasts(d) /\ Kept' = d /\ Kept = d
      BY <1>2, <1>4, <2>1
    <2>3. files[d].written /\ ~files[d].damaged => files[d].version >= returned
      BY <1>4, <2>2 DEF ClaimedInv, KeptIsCurrent, Whole
    <2>4. files'[d].written /\ ~files'[d].damaged => files'[d].version >= returned'
      BY <2>2, <2>3 DEF Lasts, Whole
    <2>5. QED
      BY <2>2, <2>4 DEF KeptIsCurrent, Whole
  <1>5. QED
    BY <1>3, <1>4

\* Removing a directory, by whatever process at whatever step
LEMMA RemovalKeepsCurrent ==
  ASSUME ClaimedInv, NEW p \in Procs, NEW here \in Removals, NEW name \in {"new", "old"},
         NEW next \in Steps, Remove(p, here, name, next),
         p = Holder => next \notin {"fill", "park", "publish", "drop"}
                       /\ (next = "return" => here = "drop")
  PROVE  ClaimedInv'
  <1>1. /\ names \in [Names -> Dirs \union {NoDir}] /\ files \in [Dirs -> Files]
        /\ pc \in [Procs -> Steps] /\ held \in [Procs -> Dirs \union {NoDir}]
        /\ NoDir \notin Dirs /\ pc[p] = here /\ Holder \in Procs
        /\ "dir" \in Names /\ "old" \in Names /\ "new" \in Names /\ name \in Names
        /\ name # "dir" /\ here \in Steps
        /\ \A q \in Procs : held[q] # NoDir => pc[q] \in Removals
    BY SplayAssumption DEF ClaimedInv, TypeOK, Remove, Names, Procs, Removals, Steps
  <1>2. opened' = opened /\ version' = version /\ returned' = returned /\ loaded' = loaded
    BY DEF Remove
  <1>3. pc' = pc \/ pc' = [pc EXCEPT ![p] = next]
    BY DEF Remove, RemoveNothing, RemoveFiles, RemoveDir, Goto
  <1>4. names' = names \/ names' = [names EXCEPT ![name] = NoDir]
    BY DEF Remove, RemoveNothing, RemoveFiles, RemoveDir
  <1>5. files' = files \/ (names[name] # NoDir /\ files' = [files EXCEPT ![names[name]].damaged = TRUE])
    BY DEF Remove, RemoveNothing, RemoveFiles, RemoveDir
  <1>6. /\ files' \in [Dirs -> Files]
        /\ \A d \in Dirs : Lasts(d) /\ files'[d].version = files[d].version
    <2>1. CASE files' = files
      BY <1>1, <2>1 DEF Lasts, Whole
    <2>2. CASE names[name] # NoDir /\ files' = [files EXCEPT ![names[name]].damaged = TRUE]
      <3>1. names[name] \in Dirs
        BY <1>1, <2>2
      <3>2. [files[names[name]] EXCEPT !.damaged = TRUE] \in Files
        BY <1>1, <3>1 DEF Files
      <3>3. QED
        BY <1>1, <2>2, <3>1, <3>2 DEF Lasts, Whole, Files
    <2>3. QED
      BY <1>5, <2>1, <2>2
  <1>7. names' \in [Names -> Dirs \union {NoDir}] /\ names'["dir"] = names["dir"]
        /\ \A n \in Names : names'[n] \in {names[n], NoDir}
    BY <1>1, <1>4
  <1>8. pc' \in [Procs -> Steps]
    BY <1>1, <1>3
  <1>9. held' \in [Procs -> Dirs \union {NoDir}]
        /\ \A q \in Procs : held'[q] # NoDir => pc'[q] \in Removals
    <2>1. CASE RemoveNothing(p, next)
      BY <1>1, <2>1 DEF RemoveNothing, Goto
    <2>2. CASE RemoveFiles(p, name)
      BY <1>1, <2>2 DEF RemoveFiles
    <2>3. CASE RemoveDir(p, name, next)
      BY <1>1, <2>3 DEF RemoveDir, Removed, Goto
    <2>4. QED
      BY <2>1, <2>2, <2>3 DEF Remove
  <1>10. TypeOK'
    BY <1>2, <1>6, <1>7, <1>8, <1>9 DEF TypeOK, ClaimedInv
  <1>11. NamesDistinct'
    BY <1>1, <1>7 DEF NamesDistinct, ClaimedInv
  <1>12. KeptIsCurrent'
    <2>1. Kept' = Kept \/ Kept' = NoDir
      BY <1>1, <1>7 DEF Kept
    <2>2. QED
      BY <1>2, <1>6, <2>1, CurrentAgain
  <1>13. ClaimedStepInv'
    <2>1. pc'[Holder] \in {"fill", "park", "publish"} => pc[Holder] \in {"fill", "park", "publish"}
      BY <1>1, <1>3
    <2>2. pc'[Holder] \in {"drop", "return"} => pc[Holder] \in {"drop", "return"}
      BY <1>1, <1>3
    <2>3. names'["new"] # NoDir => names'["new"] = names["new"] /\ names["new"] \in Dirs
      BY <1>1, <1>7
    <2>4. names["dir"] # NoDir => names["dir"] \in Dirs
      BY <1>1
    <2>5. QED
      BY <1>2, <1>6, <1>7, <2>1, <2>2, <2>3, <2>4 DEF ClaimedInv, ClaimedStepInv
  <1>14. QED
    BY <1>2, <1>10, <1>11, <1>12, <1>13 DEF ClaimedInv

LEMMA RemovalsKeepCurrent ==
  ASSUME ClaimedInv, Clear \/ Drop \/ \E p \in Procs : Discard(p) \/ Cleanup(p)
  PROVE  ClaimedInv'
  <1>1. Holder \in Procs /\ Removals \subseteq Steps
        /\ {"write", "return", "restore", "recovered"} \subseteq Steps
        /\ Removals = {"clear", "drop", "discard", "cleanup"}
    BY DEF Procs, Steps, Removals
  <1>2. CASE Clear
    BY <1>1, <1>2, RemovalKeepsCurrent DEF Clear
  <1>3. CASE Drop
    BY <1>1, <1>3, RemovalKeepsCurrent DEF Drop
  <1>4. CASE \E p \in Procs : Discard(p)
    BY <1>1, <1>4, RemovalKeepsCurrent DEF Discard
  <1>5. CASE \E p \in Procs : Cleanup(p)
    BY <1>1, <1>5, RemovalKeepsCurrent DEF Cleanup
  <1>6. QED
    BY <1>2, <1>3, <1>4, <1>5

\* A step in which neither names nor contents change.
LEMMA QuietStepsKeepCurrent ==
  ASSUME ClaimedInv,
         \/ BeginSave \/ Return \/ Fail \/ BeginOpen \/ Load \/ Crash
         \/ \E p \in Procs : Check(p)
         \/ \E p \in Claimers : BeginClaim(p) \/ EndClaim(p)
  PROVE  ClaimedInv'
  <1>1. /\ names \in [Names -> Dirs \union {NoDir}] /\ files \in [Dirs -> Files]
        /\ pc \in [Procs -> Steps] /\ held \in [Procs -> Dirs \union {NoDir}]
        /\ opened \in BOOLEAN /\ version \in Nat /\ returned \in Nat /\ loaded \in Nat
        /\ Holder \in Procs /\ Holder \notin Claimers /\ Claimers \subseteq Procs
        /\ \A q \in Procs : held[q] # NoDir => pc[q] \in Removals
        /\ returned <= version
    BY SplayAssumption DEF ClaimedInv, TypeOK, Procs
  <1>2. names' = names /\ files' = files
    BY DEF BeginSave, Return, Fail, BeginOpen, Load, Crash, Check, BeginClaim, EndClaim
  <1>3. /\ pc' \in [Procs -> Steps]
        /\ \A q \in Procs : held'[q] # NoDir => pc'[q] \in Removals
        /\ held' \in [Procs -> Dirs \union {NoDir}]
    <2>1. CASE Crash
      <3>1. pc' = [p \in Procs |-> "idle"] /\ held' = [p \in Procs |-> NoDir] /\ "idle" \in Steps
        BY <2>1 DEF Crash, Steps
      <3>2. QED
        BY <3>1
    <2>2. CASE ~Crash
      <3>1. /\ held' = held
            /\ \E p \in Procs : \E step \in Steps :
                  pc' = [pc EXCEPT ![p] = step] /\ (pc[p] \in Removals => step \in Removals)
        BY <1>1, <2>2 DEF BeginSave, Return, Fail, BeginOpen, Load, Check, BeginClaim, EndClaim, Goto, Steps, Removals
      <3>2. QED
        BY <1>1, <3>1
    <2>3. QED
      BY <2>1, <2>2
  <1>4. names["dir"] # NoDir => names["dir"] \in Dirs /\ files[names["dir"]].version \in Nat
    BY <1>1 DEF Names, Files
  <1>5. /\ opened' \in BOOLEAN /\ version' \in Nat /\ returned' \in Nat /\ loaded' \in Nat
        /\ returned' <= version'
        /\ returned' # returned => Return
        /\ version' # version => BeginSave
    <2>1. loaded' \in Nat
      BY <1>1, <1>4 DEF BeginSave, Return, Fail, BeginOpen, Load, Crash, Check, BeginClaim, EndClaim
    <2>2. /\ opened' \in BOOLEAN
          /\ \/ version' = version /\ returned' = returned
             \/ BeginSave /\ version' = version + 1 /\ returned' = returned
             \/ Return /\ version' = version /\ returned' = version
      BY <1>1 DEF BeginSave, Return, Fail, BeginOpen, Load, Crash, Check, BeginClaim, EndClaim
    <2>3. QED
      BY <1>1, <2>1, <2>2
  <1>6. TypeOK'
    BY <1>1, <1>2, <1>3, <1>5 DEF TypeOK
  <1>7. KeptIsCurrent'
    <2>1. CASE ~Return
      <3>1. Kept' = Kept /\ returned' = returned /\ \A d \in Dirs : Lasts(d)
        BY <1>2, <1>5, <2>1 DEF Kept, Lasts, Whole
      <3>2. QED
        BY <3>1, CurrentAgain
    <2>2. CASE Return
      <3>1. pc[Holder] = "return" /\ returned' = version
        BY <2>2 DEF Return
      <3>2. names["dir"] # NoDir /\ files[names["dir"]].version = version
        BY <3>1 DEF ClaimedInv, ClaimedStepInv
      <3>3. QED
        BY <1>1, <1>2, <3>1, <3>2 DEF KeptIsCurrent, Kept
    <2>3. QED
      BY <2>1, <2>2
  <1>8. ClaimedStepInv'
    <2>1. /\ pc'[Holder] \in {"fill", "park", "publish", "drop", "return"} => pc'[Holder] = pc[Holder]
          /\ version' # version => pc'[Holder] = "clear"
      <3>1. CASE Crash
        BY <1>1, <3>1 DEF Crash
      <3>2. CASE \E p \in Procs : Check(p)
        BY <1>1, <3>2 DEF Check, Goto
      <3>3. CASE \E p \in Claimers : BeginClaim(p) \/ EndClaim(p)
        BY <1>1, <3>3 DEF BeginClaim, EndClaim, Goto
      <3>4. CASE BeginSave \/ Return \/ Fail \/ BeginOpen \/ Load
        BY <1>1, <3>4 DEF BeginSave, Return, Fail, BeginOpen, Load, Goto
      <3>5. QED
        BY <3>1, <3>2, <3>3, <3>4
    <2>2. QED
      BY <1>2, <2>1 DEF ClaimedInv, ClaimedStepInv
  <1>9. NamesDistinct'
    BY <1>2 DEF ClaimedInv, NamesDistinct
  <1>10. QED
    BY <1>5, <1>6, <1>7, <1>8, <1>9 DEF ClaimedInv

\* The steps that move names or write files
LEMMA SwapsKeepCurrent ==
  ASSUME ClaimedInv, Write \/ Fill \/ Park \/ Publish \/ \E p \in Procs : Restore(p)
  PROVE  ClaimedInv'
  <1>1. /\ names \in [Names -> Dirs \union {NoDir}] /\ files \in [Dirs -> Files]
        /\ pc \in [Procs -> Steps] /\ held \in [Procs -> Dirs \union {NoDir}]
        /\ opened \in BOOLEAN /\ version \in Nat /\ returned \in Nat /\ loaded \in Nat
        /\ Holder \in Procs /\ NoDir \notin Dirs
        /\ "dir" \in Names /\ "new" \in Names /\ "old" \in Names
        /\ \A q \in Procs : held[q] # NoDir => pc[q] \in Removals
        /\ returned <= version
        /\ (\A m, n \in Names : m # n /\ names[m] # NoDir => names[m] # names[n])
    BY SplayAssumption DEF ClaimedInv, TypeOK, Procs, Names, NamesDistinct
  <1>2. opened' = opened /\ version' = version /\ returned' = returned /\ loaded' = loaded /\ held' = held
    BY DEF Write, Fill, Park, Publish, Restore
  <1>3. \E p \in Procs : \E step \in Steps : pc' = [pc EXCEPT ![p] = step] /\ pc[p] \notin Removals
    BY <1>1 DEF Write, Fill, Park, Publish, Restore, Goto, Steps, Removals
  <1>4. /\ pc' \in [Procs -> Steps]
        /\ \A q \in Procs : held'[q] # NoDir => pc'[q] \in Removals
    BY <1>1, <1>2, <1>3
  <1>5. ASSUME names' \in [Names -> Dirs \union {NoDir}], files' \in [Dirs -> Files]
        PROVE  TypeOK'
    BY <1>1, <1>2, <1>4, <1>5 DEF TypeOK
  <1>6. CASE Write
    <2>1. PICK d \in Staging :
             /\ names' = [names EXCEPT !["new"] = d]
             /\ files' = [files EXCEPT ![d] =
                  [version |-> version, written |-> FALSE, damaged |-> \E p \in Procs : held[p] = d]]
      BY <1>6 DEF Write
    <2>2. d \in Dirs /\ d # names["dir"] /\ d # names["old"]
      BY <1>1, <2>1 DEF Staging
    <2>3. [version |-> version, written |-> FALSE, damaged |-> \E p \in Procs : held[p] = d] \in Files
      BY <1>1 DEF Files
    <2>4. names' \in [Names -> Dirs \union {NoDir}] /\ files' \in [Dirs -> Files]
          /\ names'["new"] = d /\ names'["dir"] = names["dir"] /\ names'["old"] = names["old"]
          /\ files'[d].version = version /\ \A e \in Dirs : e # d => files'[e] = files[e]
      BY <1>1, <2>1, <2>2, <2>3
    <2>5. NamesDistinct'
      BY <1>1, <2>2, <2>4 DEF NamesDistinct, Names
    <2>6. KeptIsCurrent'
      <3>1. Kept' = Kept /\ Kept # d
        BY <2>2, <2>4 DEF Kept
      <3>2. Kept # NoDir => Kept \in Dirs
        BY <1>1 DEF Kept
      <3>3. Kept # NoDir => files'[Kept] = files[Kept]
        BY <2>4, <3>1, <3>2
      <3>4. QED
        BY <1>2, <3>1, <3>3 DEF KeptIsCurrent, ClaimedInv, Whole
    <2>7. ClaimedStepInv'
      <3>1. pc'[Holder] = "fill"
        BY <1>1, <1>6 DEF Write, Goto
      <3>2. QED
        BY <1>2, <2>4, <3>1 DEF ClaimedStepInv
    <2>8. QED
      BY <1>1, <1>2, <1>5, <2>4, <2>5, <2>6, <2>7 DEF ClaimedInv
  <1>7. CASE Fill
    <2>1. /\ names' = names /\ names["new"] \in Dirs
          /\ files' = [files EXCEPT ![names["new"]].written = TRUE]
          /\ pc[Holder] = "fill" /\ pc' = [pc EXCEPT ![Holder] = "park"]
      BY <1>1, <1>7 DEF Fill, Goto
    <2>2. [files[names["new"]] EXCEPT !.written = TRUE] \in Files
      BY <1>1, <2>1 DEF Files
    <2>3. files' \in [Dirs -> Files] /\ files'[names["new"]].version = files[names["new"]].version
          /\ \A e \in Dirs : e # names["new"] => files'[e] = files[e]
      BY <1>1, <2>1, <2>2 DEF Files
    <2>4. KeptIsCurrent'
      <3>1. Kept' = Kept /\ \A d \in Dirs : d # names["new"] => Lasts(d)
        BY <2>1, <2>3 DEF Kept, Lasts, Whole
      <3>2. QED
        BY <1>2, <3>1, CurrentAgain
    <2>5. ClaimedStepInv'
      <3>1. pc'[Holder] = "park"
        BY <1>1, <2>1
      <3>2. files[names["new"]].version = version
        BY <1>1, <2>1 DEF ClaimedInv, ClaimedStepInv
      <3>3. QED
        BY <1>2, <2>1, <2>3, <3>1, <3>2 DEF ClaimedStepInv
    <2>6. NamesDistinct'
      BY <2>1 DEF ClaimedInv, NamesDistinct
    <2>7. QED
      BY <1>1, <1>2, <1>5, <2>1, <2>3, <2>4, <2>5, <2>6 DEF ClaimedInv
  <1>8. CASE Park
    <2>1. /\ \/ names["dir"] = NoDir /\ names' = names
             \/ names["dir"] # NoDir /\ names' = [names EXCEPT !["old"] = names["dir"], !["dir"] = NoDir]
          /\ files' = files /\ pc[Holder] = "park" /\ pc' = [pc EXCEPT ![Holder] = "publish"]
      BY <1>8 DEF Park, Parked, Goto
    <2>2. names' \in [Names -> Dirs \union {NoDir}] /\ names'["new"] = names["new"]
          /\ (names' = names \/ (names'["old"] = names["dir"] /\ names'["dir"] = NoDir))
      BY <1>1, <2>1
    <2>3. NamesDistinct'
      BY <1>1, <2>2 DEF NamesDistinct, Names
    <2>4. KeptIsCurrent'
      <3>1. Kept' = Kept /\ \A d \in Dirs : d # names["new"] => Lasts(d)
        BY <1>1, <2>1 DEF Kept, Lasts, Whole
      <3>2. QED
        BY <1>2, <3>1, CurrentAgain
    <2>5. ClaimedStepInv'
      <3>1. pc'[Holder] = "publish"
        BY <1>1, <2>1
      <3>2. QED
        BY <1>2, <2>1, <2>2, <3>1 DEF ClaimedInv, ClaimedStepInv
    <2>6. QED
      BY <1>1, <1>2, <1>5, <2>1, <2>2, <2>3, <2>4, <2>5 DEF ClaimedInv
  <1>9. CASE Publish
    <2>1. /\ names' = [names EXCEPT !["dir"] = names["new"], !["new"] = NoDir] /\ names["new"] # NoDir
          /\ files' = files /\ pc[Holder] = "publish" /\ pc' = [pc EXCEPT ![Holder] = "drop"]
      BY <1>9 DEF Publish, Goto
    <2>2. names' \in [Names -> Dirs \union {NoDir}] /\ names'["new"] = NoDir
          /\ names'["dir"] = names["new"] /\ names'["old"] = names["old"]
      BY <1>1, <2>1
    <2>3. NamesDistinct'
      BY <1>1, <2>1, <2>2 DEF NamesDistinct, Names
    <2>4. files[names["new"]].version = version
      BY <2>1 DEF ClaimedInv, ClaimedStepInv
    <2>5. KeptIsCurrent'
      BY <1>1, <1>2, <2>1, <2>2, <2>4 DEF KeptIsCurrent, Kept
    <2>6. ClaimedStepInv'
      <3>1. pc'[Holder] = "drop"
        BY <1>1, <2>1
      <3>2. QED
        BY <1>2, <2>1, <2>2, <2>4, <3>1 DEF ClaimedStepInv
    <2>7. QED
      BY <1>1, <1>2, <1>5, <2>1, <2>2, <2>3, <2>5, <2>6 DEF ClaimedInv
  <1>10. CASE \E p \in Procs : Restore(p)
    <2>1. PICK p \in Procs : Restore(p)
      BY <1>10
    <2>2. /\ files' = files /\ pc[p] = "restore" /\ pc' = [pc EXCEPT ![p] = "check"]
          /\ \/ names' = names
             \/ /\ names["old"] # NoDir /\ names["dir"] = NoDir
                /\ names' = [names EXCEPT !["dir"] = names["old"], !["old"] = NoDir]
      BY <2>1 DEF Restore, RestoreNeeded, Goto
    <2>3. /\ names' \in [Names -> Dirs \union {NoDir}] /\ names'["new"] = names["new"]
          /\ \/ names' = names
             \/ names["dir"] = NoDir /\ names'["dir"] = names["old"] /\ names'["old"] = NoDir
      BY <1>1, <2>2
    <2>4. NamesDistinct'
      BY <1>1, <2>3 DEF NamesDistinct, Names
    <2>5. KeptIsCurrent'
      <3>1. Kept' = Kept \/ Kept' = NoDir
        BY <2>3 DEF Kept
      <3>2. \A d \in Dirs : d # names["new"] => Lasts(d)
        BY <2>2 DEF Lasts, Whole
      <3>3. QED
        BY <1>2, <3>1, <3>2, CurrentAgain
    <2>6. ClaimedStepInv'
      <3>1. pc'[Holder] = pc[Holder] \/ pc'[Holder] = "check"
        BY <1>1, <2>2
      <3>2. QED
        BY <1>2, <2>2, <2>3, <3>1 DEF ClaimedInv, ClaimedStepInv
    <2>7. QED
      BY <1>1, <1>2, <1>5, <2>2, <2>3, <2>4, <2>5, <2>6 DEF ClaimedInv
  <1>11. QED
    BY <1>6, <1>7, <1>8, <1>9, <1>10

LEMMA ClaimedInvariant == Spec => []ClaimedInv
  <1>1. Init => ClaimedInv
    <2> SUFFICES ASSUME Init PROVE ClaimedInv
      OBVIOUS
    <2>1. TypeOK
      BY DEF Init, TypeOK, Files, Steps, Procs
    <2>2. QED
      BY <2>1 DEF Init, ClaimedInv, NamesDistinct, KeptIsCurrent, Kept, ClaimedStepInv, Names, Procs
  <1>2. ClaimedInv /\ [Next]_vars => ClaimedInv'
    <2> SUFFICES ASSUME ClaimedInv, [Next]_vars PROVE ClaimedInv'
      OBVIOUS
    <2>1. CASE UNCHANGED vars
      BY <2>1 DEF vars, ClaimedInv, TypeOK, NamesDistinct, KeptIsCurrent, Kept, ClaimedStepInv, Whole
    <2>2. Claimers \subseteq Procs /\ Holder \in Procs
      BY DEF Procs
    <2>3. QED
      BY <2>1, <2>2, RemovalsKeepCurrent, QuietStepsKeepCurrent, SwapsKeepCurrent DEF Next, Save, Recover
  <1>3. QED
    BY <1>1, <1>2, PTL DEF Spec

\* The directories, the steps of save_table and recover_splay_dirs and what they hold keep their
\* types, with any number of claimers.
THEOREM SplayTyped == Spec => []TypeOK
  <1>1. ClaimedInv => TypeOK
    BY DEF ClaimedInv
  <1>2. QED
    BY <1>1, ClaimedInvariant, PTL

\* save_branches_to_disk runs its recovery without the lock: a save in progress may lose the
\* table to it, but an open never finds a version older than one whose save returned Ok.
THEOREM OpensFindTheCurrent == Spec => LostOrCurrent
  <1>1. ASSUME ClaimedInv, [Next]_vars, loaded' # loaded
        PROVE  loaded' = 0 \/ loaded' >= returned
    <2>1. Load
      BY <1>1 DEF Next, vars, Save, BeginSave, Clear, Write, Fill, Park, Publish, Drop, Return, Fail,
                  BeginOpen, Recover, Discard, Restore, Check, Cleanup, BeginClaim, EndClaim, Crash, Remove
    <2>2. QED
      BY <1>1, <2>1 DEF Load, ClaimedInv, KeptIsCurrent, Kept
  <1>2. ClaimedInv /\ [Next]_vars => (loaded' # loaded => loaded' = 0 \/ loaded' >= returned)
    BY <1>1
  <1>3. QED
    BY <1>2, ClaimedInvariant, PTL DEF Spec, LostOrCurrent

=============================================================================
