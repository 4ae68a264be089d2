------------------------------ MODULE MC_Exoms ------------------------------
(* Users u and v; u has a project p with a fact on each branch of main, and  *)
(* has given v main to write and the folder of sessions to read.             *)
EXTENDS Exoms

main == <<"u", "p", "main">>
sessions == <<"u", "p", "sessions">>

Facts == {Row(1, Main, 0)} \union {Row(2, b, 0) : b \in Branches \ {Main}}

Project ==
    [path \in Above(main) \union {main, sessions} |->
        IF path = main THEN Node("project", [rows |-> Facts, branches |-> Branches], <<0, path>>)
        ELSE Directory(<<0, path>>)]

Given(path, permission) == Share("v", path, permission, <<0, path>>)

MC_Users == {"u", "v"}
MC_Exoms == {<<"u", "q", "main">>}
MC_Folders == {<<"u", "p">>, <<"u", "q">>}
MC_NewNames == {"q"}
MC_Targets == {Default}
MC_Starts == {[tree |-> Project, shares |-> {Given(main, "read-write"), Given(sessions, "read")}]}
=============================================================================
