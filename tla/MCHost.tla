------------------------------- MODULE MCHost -------------------------------
(* The command line's and the MCP server's side.  Sessions, the writing of a *)
(* file, the project's commands and the directories of `panex dev` touch     *)
(* different files, so a behaviour is one of theirs, while the others do     *)
(* nothing.                                                                  *)
EXTENDS DevSession, AtomicFile, Workspace, DevPaths, TLC

CONSTANT Tools   \* those a run looks at
VARIABLE tool    \* the one a behaviour is of

Authored1 == [targets |-> {"chrome"}, capabilities |-> {"tabs", "omnibox"}, entries |-> TRUE]
Authored2 == [targets |-> {"firefox"}, capabilities |-> {"sidebarSurface"}, entries |-> FALSE]
AuthoredTwo == {Authored1, Authored2}
FoundTwo == {[targets |-> {"chrome"}, entries |-> TRUE],
             [targets |-> {"firefox"}, entries |-> FALSE]}

Project == <<"a">>
TreeTwo == {Project, <<"a", "b">>, <<"a", ".h">>, <<"b">>, <<"b", "b">>}
CwdTwo == {<<>>, Project}
OutDefault == <<".h", "d">>
Paths == [abs : {TRUE}, names : {<<"a">>, <<"b">>, <<"a", "b">>, <<"a", ".h">>, <<"b", ".h">>}]
         \cup [abs : {FALSE}, names : {<<>>, <<"b">>, <<".h">>, <<"b", ".h">>}]

lockAndSession == <<vars, svars>>

HostInit ==
    /\ tool \in Tools
    /\ SessionInit
    /\ FileInit
    \* A clone has one config at most; the developer may save the other.  Those with
    \* a policy are of the sources without an entry.
    /\ IF tool = "workspace" THEN /\ WorkspaceInit
                                  /\ NoConfig \in {ts, json}
                                  /\ policy = NoPolicy <=> report.entries
       ELSE WorkspaceInit /\ ts = NoConfig /\ json = NoConfig /\ policy = NoPolicy
                          /\ report = [targets |-> {"chrome"}, entries |-> TRUE]
    /\ IF tool = "dev" THEN DevInit ELSE DevInit /\ declared = Inferred /\ cwd = Project

HostNext ==
    \/ tool = "session" /\ SessionNext /\ UNCHANGED <<wvars, workspaceVars, devVars, tool>>
    \/ tool = "file" /\ FileNext /\ UNCHANGED <<lockAndSession, workspaceVars, devVars, tool>>
    \/ tool = "workspace" /\ WorkspaceNext /\ UNCHANGED <<lockAndSession, wvars, devVars, tool>>
    \/ tool = "dev" /\ DevPathsNext /\ UNCHANGED <<lockAndSession, wvars, workspaceVars, tool>>

HostSpec == HostInit /\ [][HostNext]_<<lockAndSession, wvars, workspaceVars, devVars, tool>>

HostSymmetry == Permutations(Users)
=============================================================================
