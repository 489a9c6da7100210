----------------------------- MODULE DevPaths -----------------------------
(* From the paths somebody writes into panex.toml to the directories         *)
(* `panex dev` reads, watches and writes: Load and Infer                     *)
(* (internal/config/config.go), loadDevConfig and startDevServer             *)
(* (cmd/panex/main.go), NewEsbuildBuilder and Build (internal/build), and    *)
(* the walks of the builder and of the watcher.                              *)
(* A directory is the sequence of the names on the way to it; a written path *)
(* is absolute or not.  Every directory of Tree exists and holds one file    *)
(* that a build bundles or copies.  No symbolic links.                       *)
EXTENDS Integers, FiniteSets, Sequences, SequencesExt

CONSTANTS
    Tree,        \* the directories that exist
    Infra,       \* the names walkers skip: node_modules and those with a dot
    ConfigDir,   \* where panex.toml is, or would be: --cwd, or that of --config
    Cwds,        \* where the command may be started
    DefaultOut,  \* .panex/dist
    WrittenPaths,\* paths a configuration may give
    MaxExtensions, \* bound: the extensions it declares
    MaxBuilt     \* bound: a build starts only with fewer files written

ASSUME PathsAssumption ==
    /\ Tree \subseteq Seq(STRING)
    /\ ConfigDir \in Seq(STRING) /\ DefaultOut \in Seq(STRING)
    /\ Cwds \subseteq Seq(STRING)
    /\ WrittenPaths \subseteq [abs : BOOLEAN, names : Seq(STRING)]
    /\ MaxExtensions \in Nat /\ MaxBuilt \in Nat

VARIABLES
    declared,  \* the extensions of the configuration: a sequence of [src, out]
    cwd,      \* the directory the command was started in
    devPhase, \* "written" | "refused" | "loaded" | "running"
    dirs,     \* the extensions' directories, once the configuration is loaded
    built     \* the files builds wrote: [by |-> extension, dir |-> directory]

devVars == <<declared, cwd, devPhase, dirs, built>>

At(dir, p) == IF p.abs THEN p.names ELSE dir \o p.names

IsSameOrNested(parent, child) == IsPrefix(parent, child)
Below(parent, child) == SubSeq(child, Len(parent) + 1, Len(child))

\* isShieldedByInfrastructureDir: it asks for the first name below parent only.
Shielded(parent, child) ==
    LET rel == Below(parent, child) IN rel # <<>> /\ Head(rel) \in Infra

\* pathsOverlap, the same in package config and in package build.
SourceOutOverlap(src, out) ==
    \/ IsSameOrNested(out, src)
    \/ IsSameOrNested(src, out) /\ ~Shielded(src, out)

Overlap(p, q) == IsSameOrNested(p, q) \/ IsSameOrNested(q, p)
\* The comparison that forgets what the other extension reads.
OverlapsOuts(x, y) == Overlap(x.out, y.out)
OverlapsAny(x, y) == \E p \in {x.src, x.out}, q \in {y.src, y.out} : Overlap(p, q)

InDirectories(es, dir) ==
    [i \in DOMAIN es |-> [src |-> At(dir, es[i].src), out |-> At(dir, es[i].out)]]

\* validateExtensions
Valid(ds) ==
    /\ \A i \in DOMAIN ds : ~SourceOutOverlap(ds[i].src, ds[i].out)
    /\ \A i, j \in DOMAIN ds : i < j => ~OverlapsAny(ds[i], ds[j])

\* Infer: no panex.toml, only a manifest.json in the project's directory.
Inferred == <<[src |-> [abs |-> TRUE, names |-> ConfigDir],
               out |-> [abs |-> TRUE, names |-> ConfigDir \o DefaultOut]]>>

WrittenExtensions == [src : WrittenPaths, out : WrittenPaths]

DevInit ==
    /\ \/ declared = Inferred
       \/ \E n \in 1 .. MaxExtensions : declared \in [1 .. n -> WrittenExtensions]
    /\ cwd \in Cwds
    /\ devPhase = "written"
    /\ dirs = <<>>
    /\ built = {}

\* Load and Infer validate with filepath.Abs, which takes the process's directory
\* for a relative path.
Loads == Valid(InDirectories(declared, cwd))

\* loadDevConfig: resolveConfigPaths then takes the file's directory.
LoadDevConfig ==
    /\ devPhase = "written"
    /\ IF Loads
       THEN devPhase' = "loaded" /\ dirs' = InDirectories(declared, ConfigDir)
       ELSE devPhase' = "refused" /\ UNCHANGED dirs
    /\ UNCHANGED <<declared, cwd, built>>

\* startDevServer: each builder looks again, at its own two directories.
StartDevServer ==
    /\ devPhase = "loaded"
    /\ devPhase' = IF \A i \in DOMAIN dirs :
                          /\ dirs[i].src \in Tree
                          /\ ~SourceOutOverlap(dirs[i].src, dirs[i].out)
                   THEN "running" ELSE "refused"
    /\ UNCHANGED <<declared, cwd, dirs, built>>

NoInfra(names) == \A k \in DOMAIN names : names[k] \notin Infra

\* The walks of the builder (discoverEntryPoints, discoverHTMLAssets,
\* discoverStaticAssets) leave out the source directory itself when its own
\* name is one to skip; the watcher's syncTree does not.
Reads(src, dir) ==
    /\ IsSameOrNested(src, dir) /\ NoInfra(Below(src, dir))
    /\ src # <<>> => Last(src) \notin Infra
Watches(src, dir) == IsSameOrNested(src, dir) /\ NoInfra(Below(src, dir))

\* Build: what the walks find is written to the same place below the output.
\* With nothing to bundle the build fails and writes no file.
Build(i) ==
    LET src   == dirs[i].src
        found == {dir \in Tree \cup {f.dir : f \in built} : Reads(src, dir)}
    IN  /\ devPhase = "running" /\ Cardinality(built) < MaxBuilt
        /\ found # {}
        /\ built' = built \cup {[by |-> i, dir |-> dirs[i].out \o Below(src, dir)] : dir \in found}
        /\ UNCHANGED <<declared, cwd, devPhase, dirs>>

DevPathsNext ==
    \/ LoadDevConfig
    \/ StartDevServer
    \/ \E i \in DOMAIN dirs : Build(i)

DevPathsSpec == DevInit /\ [][DevPathsNext]_devVars
---------------------------------------------------------------------------
\* The check of a relative path and its use take it from one directory, or no
\* relative path stands beside an absolute one.
CheckedAsUsed ==
    \/ cwd = ConfigDir
    \/ \A i, j \in DOMAIN declared : {declared[i].src.abs, declared[i].out.abs} = {declared[j].src.abs}
    \/ Len(declared) = 1

\* Where that is so, a build never writes where a watcher looks, which would
\* start a build that starts a build, and two extensions never write into the
\* same directory: what Validate decides about the written paths holds of the
\* directories the walks of builder and watcher then meet (config.go:257 and
\* 284, esbuild_builder.go:107 and 226, file_watcher.go:138).  One extension
\* is safe in any case, for its builder checks the resolved paths again.
BuildsStayApart ==
    CheckedAsUsed =>
        \A f \in built :
            /\ \A i \in DOMAIN dirs : ~Watches(dirs[i].src, f.dir)
            /\ \A g \in built : f.dir = g.dir => f.by = g.by
===========================================================================
