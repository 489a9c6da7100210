------------------------------ MODULE Workspace ------------------------------
(***************************************************************************)
(* The files of a project, and the commands that change them: the MCP      *)
(* tools initialize_project and repair_failure, add-target and package.    *)
(* Nothing orders the commands of different processes, and a process may   *)
(* die between any two of its steps.                                       *)
(*                                                                         *)
(* Source: internal/cli/cli.go, internal/mcp/mcp.go, internal/fsmodel,     *)
(* internal/configloader, internal/policy, internal/doctor.                *)
(*                                                                         *)
(* A file that is written through a temporary one (AtomicFile) changes in  *)
(* one step; the policy is truncated and written.  Reading one file is one *)
(* step.  Where a command looks at the error of a write it ends there      *)
(* (Stops); where it goes on in spite of one, that is in the step.         *)
(* plan and apply have a module of their own; here they are what           *)
(* LoadProjectGraph gives them.  Of a policy only the targets are told     *)
(* apart.                                                                  *)
(***************************************************************************)
EXTENDS Naturals, Rules

CONSTANTS
    Users,          \* the processes that run commands
    NoUser,
    NoPolicy,       \* no panex.policy.toml
    CutPolicy,      \* one that does not parse
    NoState,        \* no state.json
    AuthoredConfigs,   \* what the developer writes into a config
    FoundReports,      \* what the inspector finds
    MaxCommands,    \* bound: commands
    MaxSaves        \* bound: saves of a config by the developer

ASSUME WorkspaceAssumption ==
    /\ NoUser \notin Users
    /\ AuthoredConfigs \subseteq Config
    /\ FoundReports \subseteq Report
    /\ NoConfig \notin Config /\ NoGraph \notin Graph
    /\ NoState \notin Nat
    /\ MaxCommands \in Nat /\ MaxSaves \in Nat

VARIABLES
    ts, json,      \* panex.config.ts and panex.config.json
    report,        \* what the inspector finds in the sources
    policy,        \* the targets panex.policy.toml allows
    initialized,   \* .panex is there
    latest,        \* state.json: the latest run, 0 for none
    graph,         \* project.graph.json
    runs,          \* the status in each run's run.json
    job,           \* the command each process is at
    commands,      \* commands so far
    saves,         \* saves so far
    alone          \* who has been the only one to do anything since its command began

files == <<ts, json, policy, initialized, latest, graph, runs>>
bookkeeping == <<report, commands, saves>>
workspaceVars == <<files, report, job, commands, saves, alone>>

NoJob == [at |-> "rest", adds |-> FALSE, target |-> {}, config |-> NoConfig, policy |-> {},
          graph |-> NoGraph, run |-> 0, outcome |-> "none", lost |-> {}]

\* The files a command may fail to write, or to read ("state"), and go on.
Losable == {"policy", "record", "state", "newState"}

Places == {"rest", "added", "packaged", "dirs", "state", "newState", "initGraph", "readConfig",
           "writeConfig", "readPolicy", "truncate", "writePolicy", "rebuild",
           "writeGraph", "record", "readState", "writeState", "repairDirs", "repairState"}

WorkspaceTypeOK ==
    /\ ts \in Config \cup {NoConfig} /\ json \in Config \cup {NoConfig}
    /\ report \in Report
    /\ policy \in (SUBSET KnownTargets) \cup {NoPolicy, CutPolicy}
    /\ initialized \in BOOLEAN
    /\ latest \in Nat \cup {NoState}
    /\ graph \in Graph \cup {NoGraph}
    /\ DOMAIN runs \subseteq 1..MaxCommands
    /\ job \in [Users -> [at : Places, adds : BOOLEAN, target : SUBSET KnownTargets,
                          config : Config \cup {NoConfig}, policy : SUBSET KnownTargets,
                          graph : Graph \cup {NoGraph}, run : Nat,
                          outcome : {"none", "succeeded", "failed"},
                          lost : SUBSET Losable]]
    /\ commands \in Nat /\ saves \in Nat
    /\ alone \in Users \cup {NoUser}

\* A clone: with the files a team commits, and without .panex.
WorkspaceInit ==
    /\ ts \in AuthoredConfigs \cup {NoConfig}
    /\ json \in AuthoredConfigs \cup {NoConfig}
    /\ report \in FoundReports
    /\ policy \in {NoPolicy, Adapters}
    /\ initialized = FALSE
    /\ latest = NoState
    /\ graph = NoGraph
    /\ runs = <<>>
    /\ job = [u \in Users |-> NoJob]
    /\ commands = 0
    /\ saves = 0
    /\ alone = NoUser

JobAt(u, place) == job[u].at = place
Resting(u) == job[u].at \in {"rest", "added", "packaged"}
Proceed(u, j) ==
    /\ job' = [job EXCEPT ![u] = j]
    /\ alone' = IF alone = u THEN u ELSE NoUser
MoveTo(u, place) == Proceed(u, [job[u] EXCEPT !.at = place])
Lose(u, what, place) ==
    Proceed(u, [job[u] EXCEPT !.at = place, !.lost = @ \cup {what}])

Start(u, j) ==
    /\ Resting(u)
    /\ commands < MaxCommands
    /\ commands' = commands + 1
    /\ job' = [job EXCEPT ![u] = j]
    /\ alone' = u
    /\ UNCHANGED <<files, report, saves>>

-----------------------------------------------------------------------------
\* configloader.Load: the TypeScript config first.
Authored == IF ts # NoConfig THEN ts ELSE json

\* LoadProjectGraph: the graph file, and only without one the config.
LoadProjectGraph ==
    IF graph # NoGraph THEN graph
    ELSE IF Authored # NoConfig THEN FromConfig(Authored, report)
    ELSE FromInspection(report)

\* A config made from a graph.
Bootstrapped(g) ==
    [targets |-> IF g.requested # {} THEN g.requested ELSE g.resolved,
     capabilities |-> g.capabilities, entries |-> g.entries]

-----------------------------------------------------------------------------
(* Root.Init, which initialize_project and add-target begin with: the      *)
(* directories, and state.json when there is none.                         *)

\* initialize_project, unless .panex is there.
InitStarts(u) ==
    /\ ~initialized
    /\ \E targets \in SUBSET KnownTargets :
          Start(u, [NoJob EXCEPT !.at = "dirs", !.target = targets])

AddStarts(u) ==
    \E t \in KnownTargets :
        Start(u, [NoJob EXCEPT !.at = "dirs", !.adds = TRUE, !.target = {t}])

AfterState(u) == IF job[u].adds THEN "readConfig" ELSE "initGraph"

MakeDirs(u) ==
    /\ JobAt(u, "dirs")
    /\ initialized' = TRUE
    /\ MoveTo(u, "state")
    /\ UNCHANGED <<ts, json, policy, latest, graph, runs, bookkeeping>>

CheckState(u) ==
    /\ JobAt(u, "state")
    /\ MoveTo(u, IF latest = NoState THEN "newState" ELSE AfterState(u))
    /\ UNCHANGED <<files, bookkeeping>>

NewState(u) ==
    /\ JobAt(u, "newState")
    /\ latest' = 0
    /\ MoveTo(u, AfterState(u))
    /\ UNCHANGED <<ts, json, policy, initialized, graph, runs, bookkeeping>>

\* The graph of an initialization comes from the sources alone.  Targets that the
\* caller names replace the resolved ones, whether or not they have an adapter.
InitGraph(u) ==
    /\ JobAt(u, "initGraph")
    /\ graph' = [FromInspection(report) EXCEPT
                    !.resolved = IF job[u].target = {} THEN @ ELSE job[u].target]
    /\ Proceed(u, NoJob)
    /\ UNCHANGED <<ts, json, policy, initialized, latest, runs, bookkeeping>>

-----------------------------------------------------------------------------
(* add-target: the config, the policy, the graph.                           *)

\* A TypeScript config is refused, after .panex has been made.
ReadConfig(u) ==
    /\ JobAt(u, "readConfig")
    /\ IF ts # NoConfig THEN Proceed(u, NoJob)
       ELSE LET base == IF json # NoConfig THEN json ELSE Bootstrapped(LoadProjectGraph)
            IN  Proceed(u, [job[u] EXCEPT !.at = "writeConfig",
                               !.config = [base EXCEPT !.targets = @ \cup job[u].target]])
    /\ UNCHANGED <<files, bookkeeping>>

WriteConfig(u) ==
    /\ JobAt(u, "writeConfig")
    /\ json' = job[u].config
    /\ Proceed(u, [job[u] EXCEPT !.at = "readPolicy", !.config = NoConfig])
    /\ UNCHANGED <<ts, policy, initialized, latest, graph, runs, bookkeeping>>

\* The default policy allows every known target.
ReadPolicy(u) ==
    /\ JobAt(u, "readPolicy")
    /\ IF policy = CutPolicy THEN Proceed(u, NoJob)
       ELSE LET allowed == IF policy = NoPolicy THEN KnownTargets ELSE policy
            IN  Proceed(u, [job[u] EXCEPT !.at = "truncate",
                                          !.policy = allowed \cup job[u].target])
    /\ UNCHANGED <<files, bookkeeping>>

\* writePolicyFile is no atomic write, and drops its error.  An empty file reads as
\* the default policy, a part of one may not parse.
TruncatePolicy(u) ==
    /\ JobAt(u, "truncate")
    /\ \/ policy' \in {KnownTargets, CutPolicy} /\ MoveTo(u, "writePolicy")
       \/ UNCHANGED policy /\ Lose(u, "policy", "rebuild")
    /\ UNCHANGED <<ts, json, initialized, latest, graph, runs, bookkeeping>>

WritePolicy(u) ==
    /\ JobAt(u, "writePolicy")
    /\ \/ policy' = job[u].policy /\ MoveTo(u, "rebuild")
       \/ UNCHANGED policy /\ Lose(u, "policy", "rebuild")
    /\ UNCHANGED <<ts, json, initialized, latest, graph, runs, bookkeeping>>

\* Wrong variant: LoadProjectGraph gives the graph to rebuild.
RebuildLoaded(u) ==
    /\ JobAt(u, "rebuild")
    /\ Proceed(u, [job[u] EXCEPT !.at = "writeGraph", !.graph = LoadProjectGraph])
    /\ UNCHANGED <<files, bookkeeping>>

RebuildGraph(u) ==
    /\ JobAt(u, "rebuild")
    /\ Proceed(u, [job[u] EXCEPT !.at = "writeGraph",
                                 !.graph = FromConfig(Authored, report)])
    /\ UNCHANGED <<files, bookkeeping>>

WriteGraph(u) ==
    /\ JobAt(u, "writeGraph")
    /\ graph' = job[u].graph
    /\ Proceed(u, [NoJob EXCEPT !.at = "added", !.target = job[u].target,
                                !.lost = job[u].lost])
    /\ UNCHANGED <<ts, json, policy, initialized, latest, runs, bookkeeping>>

-----------------------------------------------------------------------------
(* package: every resolved target, the run's record, the state.             *)

\* The graph file, without which the command ends at once.
PackageStarts(u) ==
    /\ graph # NoGraph
    /\ \E outcome \in {"succeeded", "failed"} :
          /\ ManifestErrors(graph) # {} => outcome = "failed"
          /\ Start(u, [NoJob EXCEPT !.at = "record", !.run = commands + 1,
                                    !.outcome = outcome])

\* An error of WriteToDir is one more in the answer, and the command goes on to the
\* state.
Recorded(u) ==
    /\ runs' = [r \in DOMAIN runs \cup {job[u].run}
                   |-> IF r = job[u].run THEN job[u].outcome ELSE runs[r]]
    /\ MoveTo(u, "readState")

\* Wrong variant: the error is dropped.
RecordQuietly(u) ==
    /\ JobAt(u, "record")
    /\ \/ Recorded(u)
       \/ MoveTo(u, "readState") /\ UNCHANGED runs
    /\ UNCHANGED <<ts, json, policy, initialized, latest, graph, bookkeeping>>

RecordRun(u) ==
    /\ JobAt(u, "record")
    /\ \/ Recorded(u)
       \/ Lose(u, "record", "readState") /\ UNCHANGED runs
    /\ UNCHANGED <<ts, json, policy, initialized, latest, graph, bookkeeping>>

\* The answer: "ok", unless a target failed or one of the two writes.
Answer(u, lost) ==
    Proceed(u, IF job[u].outcome = "succeeded" /\ {"record", "newState"} \cap lost = {}
               THEN [NoJob EXCEPT !.at = "packaged", !.run = job[u].run, !.lost = lost]
               ELSE NoJob)

\* A state that is not there or cannot be read is passed over in silence.
ReadState(u) ==
    /\ JobAt(u, "readState")
    /\ \/ latest # NoState /\ MoveTo(u, "writeState")
       \/ Answer(u, job[u].lost \cup {"state"})
    /\ UNCHANGED <<files, bookkeeping>>

WriteState(u) ==
    /\ JobAt(u, "writeState")
    /\ \/ latest' = job[u].run /\ Answer(u, job[u].lost)
       \/ UNCHANGED latest /\ Answer(u, job[u].lost \cup {"newState"})
    /\ UNCHANGED <<ts, json, policy, initialized, graph, runs, bookkeeping>>

-----------------------------------------------------------------------------
(* repair_failure, when .panex is missing; nothing else is broken here that *)
(* it knows a recipe for.                                                   *)

RepairStarts(u) == ~initialized /\ Start(u, [NoJob EXCEPT !.at = "repairDirs"])

RepairDirs(u) ==
    /\ JobAt(u, "repairDirs")
    /\ initialized' = TRUE
    /\ MoveTo(u, "repairState")
    /\ UNCHANGED <<ts, json, policy, latest, graph, runs, bookkeeping>>

RepairState(u) ==
    /\ JobAt(u, "repairState")
    /\ latest' = 0
    /\ Proceed(u, NoJob)
    /\ UNCHANGED <<ts, json, policy, initialized, graph, runs, bookkeeping>>

-----------------------------------------------------------------------------
\* The process dies, or the command fails on a file it cannot write.
Stops(u) ==
    /\ ~Resting(u)
    /\ Proceed(u, NoJob)
    /\ UNCHANGED <<files, bookkeeping>>

\* The developer saves a config.
Save ==
    /\ saves < MaxSaves
    /\ saves' = saves + 1
    /\ \/ ts' \in AuthoredConfigs /\ UNCHANGED json
       \/ json' \in AuthoredConfigs /\ UNCHANGED ts
    /\ alone' = NoUser
    /\ UNCHANGED <<policy, initialized, latest, graph, runs, report, job, commands>>

CommandStep(u) ==
    \/ InitStarts(u) \/ AddStarts(u) \/ PackageStarts(u) \/ RepairStarts(u)
    \/ MakeDirs(u) \/ CheckState(u) \/ NewState(u) \/ InitGraph(u)
    \/ ReadConfig(u) \/ WriteConfig(u) \/ ReadPolicy(u) \/ TruncatePolicy(u)
    \/ WritePolicy(u) \/ RebuildGraph(u) \/ WriteGraph(u)
    \/ RecordRun(u) \/ ReadState(u) \/ WriteState(u)
    \/ RepairDirs(u) \/ RepairState(u)
    \/ Stops(u)

WorkspaceNext == Save \/ \E u \in Users : CommandStep(u)
WorkspaceSpec == WorkspaceInit /\ [][WorkspaceNext]_workspaceVars

-----------------------------------------------------------------------------
\* A package that answers "ok" has left its run on record, as succeeded, whatever
\* other commands did meanwhile and do later; and if nobody came in its way,
\* state.json names it, from where report and resume take it, unless the file
\* could not be read.
PackageIsOnRecord ==
    \A u \in Users : JobAt(u, "packaged") =>
        /\ job[u].run \in DOMAIN runs /\ runs[job[u].run] = "succeeded"
        /\ alone = u => latest = job[u].run \/ "state" \in job[u].lost

\* An add-target that nobody came in the way of leaves config and graph agreeing,
\* and the policy unless its write failed, which the command does not look at, from
\* whatever state dead and overlapping commands had left them in: the target is
\* enabled and allowed, the graph asks for what the config enables, and what verify
\* then passes can be planned, with just the declared permissions.
AddTargetAgrees ==
    \A u \in Users : JobAt(u, "added") /\ alone = u =>
        /\ job[u].target \subseteq json.targets
        /\ "policy" \in job[u].lost \/ job[u].target \subseteq policy
        /\ graph.config = json
        /\ graph.requested = json.targets
        /\ Passes(graph) =>
              /\ ManifestErrors(graph) = {}
              /\ \A t \in json.targets \cap Adapters :
                    Manifests(graph)[t] = (json.capabilities \cap Native) \ Silent

\* "Project automation reads `panex.config.ts` first, then `panex.config.json`"
\* (README.md:96), and infers a graph "If neither exists": a command that starts
\* with no other under way works from the config there is.
AutomationReadsConfig ==
    (\A u \in Users : Resting(u)) /\ Authored # NoConfig
        => LoadProjectGraph.config = Authored
=============================================================================
