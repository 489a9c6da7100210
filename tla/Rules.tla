-------------------------------- MODULE Rules --------------------------------
(***************************************************************************)
(* What the project commands compute: a graph from the project's config    *)
(* and what the inspector finds, the capabilities resolved against each    *)
(* target's catalog, the manifests, and the verdict of verify.             *)
(*                                                                         *)
(* Source: internal/graph, capability, manifest, target, verify.           *)
(*                                                                         *)
(* Names are abstract.  Every capability that needs a permission has one   *)
(* of its own, which is written as the capability.  All catalogs agree     *)
(* (there is one adapter, Chrome).  The lists of the code are sets here:   *)
(* their order is that of a sort, or of a map.                             *)
(***************************************************************************)
CONSTANTS
    KnownTargets,   \* the targets of the default policy, and the adapters'
    Adapters,       \* those with an adapter
    Capabilities,   \* what a config may name
    Native,         \* the catalog: supported, and
    Silent,         \*   of these the ones without a permission,
    Degraded,       \*   supported in part;
                    \* everything else is blocked, for it is in the catalog as
                    \* such or not at all
    NoConfig, NoGraph

ASSUME RulesAssumption ==
    /\ Adapters \subseteq KnownTargets
    /\ Native \subseteq Capabilities
    /\ Degraded \subseteq Capabilities
    /\ Native \cap Degraded = {}
    /\ Silent \subseteq Native

\* A config file: the targets it enables, the capabilities it declares, and
\* whether it names entries.
Config == [targets : SUBSET KnownTargets, capabilities : SUBSET Capabilities,
           entries : BOOLEAN]

\* What the inspector finds in the sources: targets, and whether there are entries.
Report == [targets : (SUBSET KnownTargets) \ {{}}, entries : BOOLEAN]

Graph == [requested : SUBSET KnownTargets, resolved : SUBSET KnownTargets,
          capabilities : SUBSET Capabilities, entries : BOOLEAN,
          config : Config \cup {NoConfig}]

\* BuildFromInspection.
FromInspection(report) ==
    [requested |-> report.targets, resolved |-> report.targets \cap Adapters,
     capabilities |-> {}, entries |-> report.entries, config |-> NoConfig]

\* BuildFromConfig: the config's hash stands for the config.
FromConfig(config, report) ==
    LET g == FromInspection(report) IN
    [g EXCEPT !.requested = IF config.targets = {} THEN @ ELSE config.targets,
              !.resolved = IF config.targets = {} THEN @ ELSE config.targets \cap Adapters,
              !.capabilities = config.capabilities,
              !.entries = @ \/ config.entries,
              !.config = config]

State(capability) ==
    CASE capability \in Native   -> "native"
      [] capability \in Degraded -> "degraded"
      [] OTHER                   -> "blocked"

\* Compile: a target without an adapter is an error that leaves no resolution.
Resolutions(g) ==
    [capability : g.capabilities, target : g.resolved \cap Adapters]

Permissions(g, target) ==
    {r.capability : r \in {s \in Resolutions(g) :
        s.target = target /\ State(s.capability) = "native" /\ s.capability \notin Silent}}

\* The manifests, and the targets for which none can be compiled.
Manifests(g) == [t \in g.resolved \cap Adapters |-> Permissions(g, t)]
ManifestErrors(g) == g.resolved \ Adapters

\* Verify looks at the resolutions, at the entries, and that there are targets.
Passes(g) ==
    /\ g.resolved # {}
    /\ g.entries
    /\ \A r \in Resolutions(g) : State(r.capability) # "blocked"
=============================================================================
