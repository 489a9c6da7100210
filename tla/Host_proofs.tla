----------------------------- MODULE Host_proofs -----------------------------
(* Proofs about what commands, builds and dev leave on the disk: a file that is *)
(* written through a temporary one, what the commands of the project keep    *)
(* agreeing in several files, and the directories dev's builds write in.     *)
EXTENDS AtomicFile, Workspace, DevPaths, TLAPS

-----------------------------------------------------------------------------
(* A file, written through a temporary one.                                  *)

\* Nothing has been written yet.
LEMMA FileInitInv == FileInit => FileInv
<1> SUFFICES ASSUME FileInit PROVE FileInv
  OBVIOUS
<1>1. FileTypeOK
  <2>1. Done \in [at : {"done", "opened", "filled"}, number : Nat, block : Blocks \cup {NoBlock},
                  failed : BOOLEAN]
    BY DEF Done
  <2>2. writing \in [Writers -> [at : {"done", "opened", "filled"}, number : Nat,
                                 block : Blocks \cup {NoBlock}, failed : BOOLEAN]]
    BY <2>1, Zenon DEF FileInit
  <2> QED BY <2>2 DEF FileInit, FileTypeOK
<1>2. \A w \in Writers : writing[w] = Done
  BY Zenon DEF FileInit
<1>3. ReadsLastWrite
  BY DEF FileInit, ReadsLastWrite
<1> QED BY <1>1, <1>2, <1>3 DEF FileInit, FileInv

\* A writer begins alone, or the writes overlap.
LEMMA BeginsAlone ==
    ASSUME FileInv, NEW w \in Writers, NEW write, Begin(w, write), ~overlapped'
    PROVE  /\ ~overlapped /\ writing'[w] = write
           /\ \A v \in Writers : writing'[v] # Done => v = w
<1>1. ~overlapped /\ \A v \in Writers : writing[v] = Done
  BY DEF Begin
<1> QED BY <1>1 DEF Begin, FileInv, FileTypeOK

\* An inode nobody uses is open in no writer's hands.
LEMMA BeginKeepsInv ==
    ASSUME FileInv, NEW w \in Writers, NEW b \in Blocks,
           IF tmp = NoBlock THEN Unused(b) ELSE b = tmp,
           BeginOn(w, b), tmp' = b, UNCHANGED <<file, renamed, blind>>
    PROVE  FileInv'
<1>1. FileTypeOK'
  BY DEF FileInv, FileTypeOK, Begin, BeginOn
<1>2. ASSUME ~overlapped' PROVE FileInv'
  <2>1. /\ ~overlapped
        /\ writing'[w] = [at |-> "opened", number |-> written + 1, block |-> b, failed |-> FALSE]
        /\ \A v \in Writers : writing'[v] # Done => v = w
    BY <1>2, BeginsAlone DEF BeginOn
  <2>2. file # NoBlock => file # b
    BY <2>1 DEF FileInv, Unused
  <2>5. ReadsLastWrite'
    <3>1. file # NoBlock => content'[file] = content[file]
      BY <2>2 DEF BeginOn, FileInv, FileTypeOK
    <3> QED BY <2>1, <3>1 DEF FileInv, ReadsLastWrite
  <2>6. b # NoBlock /\ written + 1 > 0
    BY AtomicFileAssumption DEF FileInv, FileTypeOK
  <2> QED BY <1>1, <2>1, <2>2, <2>5, <2>6 DEF FileInv
<1> QED BY <1>1, <1>2 DEF FileInv

\* A file that cannot be opened is left as it is.
LEMMA OpenFailsKeepsInv ==
    ASSUME FileInv, NEW w \in Writers, OpenFails(w)
    PROVE  FileInv'
<1>1. FileTypeOK'
  BY DEF FileInv, FileTypeOK, Begin, OpenFails
<1>2. ASSUME ~overlapped' PROVE FileInv'
  <2>1. /\ ~overlapped
        /\ writing'[w] = [at |-> "filled", number |-> written + 1, block |-> NoBlock, failed |-> TRUE]
        /\ \A v \in Writers : writing'[v] # Done => v = w
    BY <1>2, BeginsAlone DEF OpenFails
  <2>2. written + 1 > 0
    BY DEF FileInv, FileTypeOK
  <2>3. ReadsLastWrite' /\ (file' # NoBlock => file' # tmp')
    BY <2>1 DEF FileInv, ReadsLastWrite, OpenFails
  <2> QED BY <1>1, <2>1, <2>2, <2>3 DEF FileInv
<1> QED BY <1>1, <1>2 DEF FileInv

\* Filling the temporary file, as far as it goes, leaves the path's inode alone.
LEMMA FillKeepsInv ==
    ASSUME FileInv, NEW w \in Writers, Fill(w)
    PROVE  FileInv'
<1>1. FileTypeOK'
  <2>1. writing[w].number \in Nat /\ writing[w].block \in Blocks \cup {NoBlock}
        /\ writing[w].failed \in BOOLEAN
    BY DEF FileInv, FileTypeOK
  <2>2. writing'[w] = [writing[w] EXCEPT !.at = "filled"]
    BY DEF FileInv, FileTypeOK, Fill
  <2>3. writing' \in [Writers -> [at : {"done", "opened", "filled"}, number : Nat,
                                  block : Blocks \cup {NoBlock}, failed : BOOLEAN]]
    BY <2>1, <2>2 DEF FileInv, FileTypeOK, Fill
  <2>4. content' \in [Blocks -> Nat]
    BY <2>1 DEF FileInv, FileTypeOK, Fill
  <2> QED BY <2>3, <2>4 DEF FileInv, FileTypeOK, Fill
<1>2. ASSUME ~overlapped' PROVE FileInv'
  <2>1. ~overlapped /\ writing[w] # Done
    BY <1>2 DEF Fill, Done
  <2>2. /\ writing[w].block = tmp /\ tmp # NoBlock /\ writing[w].number > 0
        /\ ~writing[w].failed
        /\ \A v \in Writers : writing[v] # Done => v = w
    BY <2>1 DEF FileInv, Fill
  <2>3. \A v \in Writers : v # w => writing'[v] = writing[v]
    BY DEF Fill, FileInv, FileTypeOK
  <2>4. /\ writing'[w].block = tmp /\ writing'[w].number = writing[w].number
        /\ writing'[w].at = "filled" /\ ~writing'[w].failed
    BY <2>2 DEF Fill, FileInv, FileTypeOK
  <2>5. content'[tmp] = writing[w].number
    BY <2>2 DEF Fill, FileInv, FileTypeOK
  <2>6. ReadsLastWrite'
    <3>1. file # NoBlock => content'[file] = content[file]
      BY <2>1, <2>2 DEF Fill, FileInv, FileTypeOK
    <3> QED BY <2>1, <3>1 DEF Fill, FileInv, ReadsLastWrite
  <2>7. tmp' = tmp /\ file' = file
    BY DEF Fill
  <2> QED BY <1>1, <2>1, <2>2, <2>3, <2>4, <2>5, <2>6, <2>7 DEF FileInv
<1> QED BY <1>1, <1>2 DEF FileInv

LEMMA FillFailsKeepsInv ==
    ASSUME FileInv, NEW w \in Writers, FillFails(w)
    PROVE  FileInv'
<1>1. FileTypeOK'
  <2> DEFINE Writes == [at : {"done", "opened", "filled"}, number : Nat,
                        block : Blocks \cup {NoBlock}, failed : BOOLEAN]
  <2>1. writing \in [Writers -> Writes] /\ writing[w] \in Writes
    BY DEF FileInv, FileTypeOK
  <2>2. CASE w \in Careless
    <3>1. writing' = [writing EXCEPT ![w] = [writing[w] EXCEPT !.at = "filled", !.failed = TRUE]]
      BY <2>1, <2>2 DEF FillFails
    <3>2. [writing[w] EXCEPT !.at = "filled", !.failed = TRUE] \in Writes
      BY <2>1
    <3> HIDE DEF Writes
    <3>3. writing' \in [Writers -> Writes]
      BY <2>1, <3>1, <3>2
    <3> QED BY <3>3 DEF FileInv, FileTypeOK, FillFails, Writes
  <2>3. CASE w \notin Careless
    <3>1. writing' = [writing EXCEPT ![w] = Done] /\ Done \in Writes
      BY <2>1, <2>3 DEF FillFails, Done
    <3> HIDE DEF Writes
    <3>2. writing' \in [Writers -> Writes]
      BY <2>1, <3>1
    <3> QED BY <3>2 DEF FileInv, FileTypeOK, FillFails, Writes
  <2> QED BY <2>2, <2>3
<1>2. ASSUME ~overlapped' PROVE FileInv'
  <2>1. ~overlapped /\ writing[w] # Done
    BY <1>2 DEF FillFails, Done
  <2>2. writing[w].number > 0 /\ \A v \in Writers : writing[v] # Done => v = w
    BY <2>1 DEF FileInv
  <2>3. \A v \in Writers : v # w => writing'[v] = writing[v]
    BY DEF FillFails, FileInv, FileTypeOK
  <2>4. \/ writing'[w] = Done
        \/ /\ writing'[w].number = writing[w].number
           /\ writing'[w].at = "filled" /\ writing'[w].failed
    BY DEF FillFails, FileInv, FileTypeOK
  <2>5. ReadsLastWrite' /\ (file' # NoBlock => file' # tmp')
    BY <2>1 DEF FillFails, FileInv, ReadsLastWrite
  <2> QED BY <1>1, <2>2, <2>3, <2>4, <2>5 DEF FileInv
<1> QED BY <1>1, <1>2 DEF FileInv

\* What is renamed is what its writer filled, if it did.
LEMMA RenameKeepsInv ==
    ASSUME FileInv, NEW w \in Writers, Rename(w)
    PROVE  FileInv'
<1>1. FileTypeOK'
  BY DEF FileInv, FileTypeOK, Rename, Done
<1>2. ASSUME ~overlapped' PROVE FileInv'
  <2>1. ~overlapped /\ writing[w] # Done /\ writing[w].at = "filled"
    BY <1>2 DEF Rename, Done
  <2>2. /\ writing[w].number > 0
        /\ ~writing[w].failed => content[tmp] = writing[w].number
        /\ \A v \in Writers : writing[v] # Done => v = w
    BY <2>1 DEF FileInv
  <2>3. \A v \in Writers : writing'[v] = Done
    BY <2>2 DEF Rename, FileInv, FileTypeOK
  <2>4. CASE tmp # NoBlock
    <3>1. /\ file' = tmp /\ tmp' = NoBlock /\ renamed' = writing[w].number
          /\ blind' = writing[w].failed /\ content' = content
      BY <2>4 DEF Rename
    <3> QED BY <1>1, <2>2, <2>3, <2>4, <3>1 DEF FileInv, ReadsLastWrite
  <2>5. CASE tmp = NoBlock
    <3>1. UNCHANGED <<file, tmp, renamed, blind, content, overlapped>>
      BY <2>5 DEF Rename
    <3> QED BY <1>1, <2>1, <2>3, <3>1 DEF FileInv, ReadsLastWrite
  <2> QED BY <2>4, <2>5
<1> QED BY <1>1, <1>2 DEF FileInv

\* A writer that dies leaves everything as it was.
LEMMA WriterDiesKeepsInv ==
    ASSUME FileInv, NEW w \in Writers, WriterDies(w)
    PROVE  FileInv'
<1>1. FileTypeOK'
  BY AtomicFileAssumption DEF FileInv, FileTypeOK, WriterDies, Done
<1>2. \A v \in Writers : writing'[v] = Done \/ writing'[v] = writing[v]
  BY DEF WriterDies, FileInv, FileTypeOK
<1> QED BY <1>1, <1>2 DEF WriterDies, FileInv, ReadsLastWrite

\* Every step keeps the invariant.
LEMMA FileStepInv == FileInv /\ [FileNext]_wvars => FileInv'
<1> SUFFICES ASSUME FileInv, [FileNext]_wvars PROVE FileInv'
  OBVIOUS
<1>1. CASE UNCHANGED wvars
  BY <1>1 DEF wvars, FileInv, FileTypeOK, ReadsLastWrite
<1>2. ASSUME NEW w \in Writers, FileStep(w) PROVE FileInv'
  <2>1. CASE OpenTemp(w)
    BY <2>1, BeginKeepsInv DEF OpenTemp
  <2>5. CASE OpenFails(w)
    BY <2>5, OpenFailsKeepsInv
  <2>6. CASE FillFails(w)
    BY <2>6, FillFailsKeepsInv
  <2>2. CASE Fill(w)
    BY <2>2, FillKeepsInv
  <2>3. CASE Rename(w)
    BY <2>3, RenameKeepsInv
  <2>4. CASE WriterDies(w)
    BY <2>4, WriterDiesKeepsInv
  <2> QED BY <1>2, <2>1, <2>2, <2>3, <2>4, <2>5, <2>6 DEF FileStep
<1> QED BY <1>1, <1>2 DEF FileNext

\* A reader finds what the last completed write put there, whole, for any number
\* of writers, writes and inodes, wherever writers die or fail - as long as no two
\* writes overlapped and no failed write was renamed last (fsmodel.go:231,
\* cli.go:1129).
THEOREM FileIsWhole == FileSpec => []ReadsLastWrite
<1>1. FileInv => ReadsLastWrite
  BY DEF FileInv, ReadsLastWrite
<1> QED BY FileInitInv, FileStepInv, <1>1, PTL DEF FileSpec

-----------------------------------------------------------------------------
(* The directories of `panex dev`.                                           *)

Dir == Seq(STRING)

-----------------------------------------------------------------------------
(* Directories.                                                              *)

\* One directory is another's or above it when the names agree as far as its go.
LEMMA PrefixByNames ==
    ASSUME NEW p \in Dir, NEW q \in Dir
    PROVE  IsPrefix(p, q) <=> Len(p) <= Len(q) /\ \A k \in 1 .. Len(p) : p[k] = q[k]
<1>1. SubSeq(p, 1, Len(p)) = p
  BY DEF Dir
<1>2. ASSUME Len(p) <= Len(q)
      PROVE  p = SubSeq(q, 1, Len(p)) <=> \A k \in 1 .. Len(p) : p[k] = q[k]
  BY <1>2 DEF Dir
<1> QED BY <1>1, <1>2 DEF IsPrefix, Dir

LEMMA PrefixTransitive ==
    ASSUME NEW p \in Dir, NEW q \in Dir, NEW r \in Dir, IsPrefix(p, q), IsPrefix(q, r)
    PROVE  IsPrefix(p, r)
<1>1. /\ Len(p) <= Len(q) /\ \A k \in 1 .. Len(p) : p[k] = q[k]
      /\ Len(q) <= Len(r) /\ \A k \in 1 .. Len(q) : q[k] = r[k]
  BY PrefixByNames
<1>2. Len(p) <= Len(r) /\ \A k \in 1 .. Len(p) : p[k] = r[k]
  BY <1>1 DEF Dir
<1> QED BY <1>2, PrefixByNames

\* Of two directories above a third, one is above the other.
LEMMA PrefixesCompare ==
    ASSUME NEW p \in Dir, NEW q \in Dir, NEW r \in Dir, IsPrefix(p, r), IsPrefix(q, r)
    PROVE  IsPrefix(p, q) \/ IsPrefix(q, p)
<1>1. /\ Len(p) <= Len(r) /\ \A k \in 1 .. Len(p) : p[k] = r[k]
      /\ Len(q) <= Len(r) /\ \A k \in 1 .. Len(q) : q[k] = r[k]
  BY PrefixByNames
<1>2. CASE Len(p) <= Len(q)
  <2>1. \A k \in 1 .. Len(p) : p[k] = q[k]
    BY <1>1, <1>2 DEF Dir
  <2> QED BY <1>2, <2>1, PrefixByNames
<1>3. CASE Len(q) <= Len(p)
  <2>1. \A k \in 1 .. Len(q) : q[k] = p[k]
    BY <1>1, <1>3 DEF Dir
  <2> QED BY <1>3, <2>1, PrefixByNames
<1> QED BY <1>2, <1>3 DEF Dir

\* What is above what, of two relative paths, does not depend on where they are
\* taken from.
LEMMA PrefixFromAnywhere ==
    ASSUME NEW c \in Dir, NEW d \in Dir, NEW p \in Dir, NEW q \in Dir,
           IsPrefix(d \o p, d \o q)
    PROVE  IsPrefix(c \o p, c \o q)
<1>0. /\ d \o p \in Dir /\ d \o q \in Dir /\ c \o p \in Dir /\ c \o q \in Dir
      /\ Len(d \o p) = Len(d) + Len(p) /\ Len(d \o q) = Len(d) + Len(q)
      /\ Len(c \o p) = Len(c) + Len(p) /\ Len(c \o q) = Len(c) + Len(q)
      /\ Len(c) \in Nat /\ Len(d) \in Nat /\ Len(p) \in Nat /\ Len(q) \in Nat
  BY DEF Dir
<1>1. /\ Len(d \o p) <= Len(d \o q)
      /\ \A k \in 1 .. Len(d \o p) : (d \o p)[k] = (d \o q)[k]
  BY <1>0, PrefixByNames
<1>2. Len(p) <= Len(q)
  BY <1>0, <1>1
<1>3. ASSUME NEW k \in 1 .. Len(p) PROVE p[k] = q[k]
  <2>1. Len(d) + k \in 1 .. Len(d \o p)
    BY <1>0
  <2>2. (d \o p)[Len(d) + k] = (d \o q)[Len(d) + k]
    BY <1>1, <2>1
  <2>3. (d \o p)[Len(d) + k] = p[k] /\ (d \o q)[Len(d) + k] = q[k]
    BY <1>0, <1>2 DEF Dir
  <2> QED BY <2>2, <2>3
<1>4. Len(c \o p) <= Len(c \o q)
  BY <1>0, <1>2
<1>5. ASSUME NEW k \in 1 .. Len(c \o p) PROVE (c \o p)[k] = (c \o q)[k]
  <2>1. CASE k <= Len(c)
    <3>1. (c \o p)[k] = c[k] /\ (c \o q)[k] = c[k]
      BY <1>0, <1>2, <2>1 DEF Dir
    <3> QED BY <3>1
  <2>2. CASE k > Len(c)
    <3>1. k - Len(c) \in 1 .. Len(p)
      BY <1>0, <2>2
    <3>2. p[k - Len(c)] = q[k - Len(c)]
      BY <3>1, <1>3
    <3>3. (c \o p)[k] = p[k - Len(c)] /\ (c \o q)[k] = q[k - Len(c)]
      BY <1>0, <1>2, <2>2 DEF Dir
    <3> QED BY <3>2, <3>3
  <2>3. k \in Int
    OBVIOUS
  <2>4. k <= Len(c) \/ k > Len(c)
    BY <1>0, <2>3
  <2> QED BY <2>1, <2>2, <2>4
<1> QED BY <1>0, <1>4, <1>5, PrefixByNames

\* Nothing below a shielded output directory is watched from the source.
LEMMA ShieldedIsNotWatched ==
    ASSUME NEW src \in Dir, NEW out \in Dir, NEW dir \in Dir,
           IsPrefix(src, out), IsPrefix(out, dir), Shielded(src, out)
    PROVE  ~Watches(src, dir)
<1>1. /\ Len(src) <= Len(out)
      /\ Len(out) <= Len(dir) /\ \A k \in 1 .. Len(out) : out[k] = dir[k]
  BY PrefixByNames
<1>2. Below(src, out) # <<>> /\ Head(Below(src, out)) \in Infra
  BY DEF Shielded
<1>3. Len(src) < Len(out)
  BY <1>1, <1>2 DEF Below, Dir
<1>4. Head(Below(src, out)) = out[Len(src) + 1]
  BY <1>3 DEF Below, Dir
<1>5. out[Len(src) + 1] = dir[Len(src) + 1]
  BY <1>1, <1>3 DEF Dir
<1>6. 1 \in DOMAIN Below(src, dir) /\ Below(src, dir)[1] = dir[Len(src) + 1]
  BY <1>1, <1>3 DEF Below, Dir
<1> QED BY <1>2, <1>4, <1>5, <1>6 DEF Watches, NoInfra

-----------------------------------------------------------------------------
(* The configuration and the directories it comes to.                        *)

Ext == [src : [abs : BOOLEAN, names : Dir], out : [abs : BOOLEAN, names : Dir]]
Placed == [src : Dir, out : Dir]

\* Every extension's directories are sequences of names.
LEMMA AtIsDir ==
    ASSUME NEW p \in [abs : BOOLEAN, names : Dir], NEW d \in Dir
    PROVE  At(d, p) \in Dir
<1>1. p.names \in Dir
  OBVIOUS
<1>2. d \o p.names \in Dir
  BY <1>1 DEF Dir
<1> QED BY <1>1, <1>2 DEF At

LEMMA InDirectoriesPlaced ==
    ASSUME NEW es \in Seq(Ext), NEW d \in Dir
    PROVE  /\ InDirectories(es, d) \in [DOMAIN es -> Placed]
           /\ \A i \in DOMAIN es : /\ InDirectories(es, d)[i].src = At(d, es[i].src)
                                   /\ InDirectories(es, d)[i].out = At(d, es[i].out)
<1>1. \A i \in DOMAIN es : es[i] \in Ext
  OBVIOUS
<1>2. \A i \in DOMAIN es : [src |-> At(d, es[i].src), out |-> At(d, es[i].out)] \in Placed
  BY <1>1, AtIsDir DEF Ext, Placed
<1>3. InDirectories(es, d) \in [DOMAIN es -> Placed]
  BY <1>2, Zenon DEF InDirectories
<1>4. ASSUME NEW i \in DOMAIN es
      PROVE  /\ InDirectories(es, d)[i].src = At(d, es[i].src)
             /\ InDirectories(es, d)[i].out = At(d, es[i].out)
  <2>1. InDirectories(es, d)[i] = [src |-> At(d, es[i].src), out |-> At(d, es[i].out)]
    BY Zenon DEF InDirectories
  <2> QED BY <2>1
<1> QED BY <1>3, <1>4

\* Which paths overlap does not depend on where they are taken from, when all
\* are absolute or none is.
LEMMA OverlapFromAnywhere ==
    ASSUME NEW c \in Dir, NEW d \in Dir,
           NEW p \in [abs : BOOLEAN, names : Dir], NEW q \in [abs : BOOLEAN, names : Dir],
           p.abs = q.abs, Overlap(At(d, p), At(d, q))
    PROVE  Overlap(At(c, p), At(c, q))
<1>1. CASE p.abs
  BY <1>1 DEF At, Overlap
<1>2. CASE ~p.abs
  <2>1. IsPrefix(d \o p.names, d \o q.names) \/ IsPrefix(d \o q.names, d \o p.names)
    BY <1>2 DEF At, Overlap, IsSameOrNested
  <2>2. IsPrefix(c \o p.names, c \o q.names) \/ IsPrefix(c \o q.names, c \o p.names)
    BY <2>1, PrefixFromAnywhere
  <2> QED BY <1>2, <2>2 DEF At, Overlap, IsSameOrNested
<1> QED BY <1>1, <1>2

Apart(ds) == \A i, j \in DOMAIN ds : i # j => ~OverlapsAny(ds[i], ds[j])

LEMMA OverlapsAnySymmetric ==
    ASSUME NEW x, NEW y, OverlapsAny(x, y)
    PROVE  OverlapsAny(y, x)
BY DEF OverlapsAny, Overlap

\* What was checked with the paths taken from one directory holds with them
\* taken from another.
LEMMA CheckCarriesOver ==
    ASSUME NEW es \in Seq(Ext), NEW d \in Dir, NEW c \in Dir,
           Valid(InDirectories(es, d)),
           \/ d = c
           \/ \A i, j \in DOMAIN es : {es[i].src.abs, es[i].out.abs} = {es[j].src.abs}
           \/ Len(es) = 1
    PROVE  Apart(InDirectories(es, c))
<1> DEFINE D == InDirectories(es, d)
           C == InDirectories(es, c)
<1>1. \A i \in DOMAIN es : es[i] \in Ext
  OBVIOUS
<1>7. /\ \A k \in DOMAIN es : C[k].src = At(c, es[k].src) /\ C[k].out = At(c, es[k].out)
      /\ \A k \in DOMAIN es : D[k].src = At(d, es[k].src) /\ D[k].out = At(d, es[k].out)
  BY InDirectoriesPlaced, Zenon
<1>2. DOMAIN D = DOMAIN es /\ DOMAIN C = DOMAIN es
  BY Zenon DEF InDirectories
<1>3. Apart(D)
  <2>1. \A i, j \in DOMAIN D : i < j => ~OverlapsAny(D[i], D[j])
    BY DEF Valid
  <2>2. SUFFICES ASSUME NEW i \in DOMAIN D, NEW j \in DOMAIN D, i # j, OverlapsAny(D[i], D[j])
                 PROVE  FALSE
    BY Zenon DEF Apart
  <2>3. i \in Int /\ j \in Int
    BY <1>2
  <2>4. i < j \/ j < i
    BY <2>2, <2>3
  <2> QED BY <2>1, <2>2, <2>4, OverlapsAnySymmetric
<1> HIDE DEF D, C
<1>4. CASE d = c
  BY <1>3, <1>4 DEF C, D
<1>5. CASE \A i, j \in DOMAIN es : {es[i].src.abs, es[i].out.abs} = {es[j].src.abs}
  <2> SUFFICES ASSUME NEW i \in DOMAIN es, NEW j \in DOMAIN es, i # j, OverlapsAny(C[i], C[j])
               PROVE  FALSE
    BY <1>2, Zenon DEF Apart, C
  <2>0. /\ C[i].src = At(c, es[i].src) /\ C[i].out = At(c, es[i].out)
        /\ C[j].src = At(c, es[j].src) /\ C[j].out = At(c, es[j].out)
        /\ D[i].src = At(d, es[i].src) /\ D[i].out = At(d, es[i].out)
        /\ D[j].src = At(d, es[j].src) /\ D[j].out = At(d, es[j].out)
    BY <1>7, Zenon
  <2>1. PICK p \in {es[i].src, es[i].out}, q \in {es[j].src, es[j].out} :
          Overlap(At(c, p), At(c, q))
    <3>1. \E P \in {C[i].src, C[i].out}, Q \in {C[j].src, C[j].out} : Overlap(P, Q)
      BY DEF OverlapsAny
    <3> QED BY <2>0, <3>1, Zenon
  <2>2. /\ p \in [abs : BOOLEAN, names : Dir] /\ q \in [abs : BOOLEAN, names : Dir]
    BY <1>1, <2>1 DEF Ext
  <2>3. p.abs = q.abs
    BY <1>5, <2>1
  <2>4. Overlap(At(d, p), At(d, q))
    BY <2>1, <2>2, <2>3, OverlapFromAnywhere
  <2>5. At(d, p) \in {D[i].src, D[i].out} /\ At(d, q) \in {D[j].src, D[j].out}
    BY <2>0, <2>1
  <2>6. OverlapsAny(D[i], D[j])
    BY <2>4, <2>5 DEF OverlapsAny
  <2> QED BY <1>2, <1>3, <2>6 DEF Apart
<1>6. CASE Len(es) = 1
  <2>1. DOMAIN es = {1}
    BY <1>6
  <2> QED BY <1>2, <2>1 DEF Apart, C
<1> QED BY <1>4, <1>5, <1>6

-----------------------------------------------------------------------------
(* The behaviours.                                                           *)

DevPathsInv ==
    /\ declared \in Seq(Ext) /\ cwd \in Dir
    /\ devPhase \in {"loaded", "running"} =>
          dirs = InDirectories(declared, ConfigDir) /\ Valid(InDirectories(declared, cwd))
    /\ devPhase = "running" =>
          \A i \in DOMAIN dirs : ~SourceOutOverlap(dirs[i].src, dirs[i].out)
    /\ built # {} => devPhase = "running"
    /\ \A f \in built :
          f.by \in DOMAIN dirs /\ f.dir \in Dir /\ IsPrefix(dirs[f.by].out, f.dir)

LEMMA DevInitInv == DevInit => DevPathsInv
<1> SUFFICES ASSUME DevInit PROVE DevPathsInv
  OBVIOUS
<1>1. ConfigDir \in Dir /\ ConfigDir \o DefaultOut \in Dir
  BY PathsAssumption DEF Dir
<1>2. Inferred \in Seq(Ext)
  <2>1. Inferred[1] \in Ext
    BY <1>1 DEF Inferred, Ext
  <2> QED BY <2>1 DEF Inferred
<1>3. WrittenExtensions \subseteq Ext
  BY PathsAssumption DEF WrittenExtensions, Ext, Dir
<1>4. declared \in Seq(Ext)
  <2>1. \/ declared = Inferred
        \/ \E n \in 1 .. MaxExtensions : declared \in [1 .. n -> WrittenExtensions]
    BY DEF DevInit
  <2>2. ASSUME NEW n \in 1 .. MaxExtensions, declared \in [1 .. n -> WrittenExtensions]
        PROVE  declared \in Seq(Ext)
    <3>1. n \in Nat /\ declared \in [1 .. n -> Ext]
      BY <1>3, <2>2, PathsAssumption
    <3> QED BY <3>1
  <2> QED BY <1>2, <2>1, <2>2
<1>5. cwd \in Dir
  BY PathsAssumption DEF DevInit, Dir
<1> QED BY <1>4, <1>5 DEF DevInit, DevPathsInv

\* What a build writes is below its output directory.
LEMMA BuildKeepsInv ==
    ASSUME DevPathsInv, NEW i \in DOMAIN dirs, Build(i)
    PROVE  DevPathsInv'
<1>1. devPhase = "running" /\ UNCHANGED <<declared, cwd, devPhase, dirs>>
  BY DEF Build
<1>2. dirs \in [DOMAIN declared -> Placed]
  BY <1>1, InDirectoriesPlaced, PathsAssumption DEF DevPathsInv, Dir
<1>3. dirs[i].src \in Dir /\ dirs[i].out \in Dir
  BY <1>2 DEF Placed
<1>4. ASSUME NEW f \in built', f \notin built
      PROVE  f.by = i /\ f.dir \in Dir /\ IsPrefix(dirs[i].out, f.dir)
  <2>1. PICK dir \in Tree \cup {g.dir : g \in built} :
            f = [by |-> i, dir |-> dirs[i].out \o Below(dirs[i].src, dir)]
    BY <1>4 DEF Build
  <2>2. dir \in Dir
    BY PathsAssumption DEF DevPathsInv, Dir
  <2>3. Below(dirs[i].src, dir) \in Dir
    BY <1>3, <2>2 DEF Below, Dir
  <2>4. \A r \in Dir : dirs[i].out \o r \in Dir /\ IsPrefix(dirs[i].out, dirs[i].out \o r)
    <3> SUFFICES ASSUME NEW r \in Dir
                 PROVE  dirs[i].out \o r \in Dir /\ IsPrefix(dirs[i].out, dirs[i].out \o r)
      OBVIOUS
    <3>1. dirs[i].out \o r \in Dir
      BY <1>3 DEF Dir
    <3>2. /\ Len(dirs[i].out) <= Len(dirs[i].out \o r)
          /\ \A k \in 1 .. Len(dirs[i].out) : dirs[i].out[k] = (dirs[i].out \o r)[k]
      BY <1>3 DEF Dir
    <3> QED BY <1>3, <3>1, <3>2, PrefixByNames
  <2> QED BY <2>1, <2>3, <2>4
<1>5. \A f \in built' :
          f.by \in DOMAIN dirs /\ f.dir \in Dir /\ IsPrefix(dirs[f.by].out, f.dir)
  BY <1>4 DEF DevPathsInv
<1> QED BY <1>1, <1>5 DEF DevPathsInv

LEMMA DevPathsNextInv == DevPathsInv /\ [DevPathsNext]_devVars => DevPathsInv'
<1> SUFFICES ASSUME DevPathsInv, [DevPathsNext]_devVars PROVE DevPathsInv'
  OBVIOUS
<1>1. CASE LoadDevConfig
  BY <1>1 DEF LoadDevConfig, Loads, DevPathsInv
<1>2. CASE StartDevServer
  BY <1>2 DEF StartDevServer, DevPathsInv
<1>3. ASSUME NEW i \in DOMAIN dirs, Build(i) PROVE DevPathsInv'
  BY <1>3, BuildKeepsInv
<1>4. CASE UNCHANGED devVars
  BY <1>4 DEF devVars, DevPathsInv
<1> QED BY <1>1, <1>2, <1>3, <1>4 DEF DevPathsNext

LEMMA InvKeepsApart == DevPathsInv => BuildsStayApart
<1> SUFFICES ASSUME DevPathsInv, CheckedAsUsed, NEW f \in built
             PROVE  /\ \A i \in DOMAIN dirs : ~Watches(dirs[i].src, f.dir)
                    /\ \A g \in built : f.dir = g.dir => f.by = g.by
  BY DEF BuildsStayApart
<1>1. /\ dirs = InDirectories(declared, ConfigDir) /\ Valid(InDirectories(declared, cwd))
      /\ \A i \in DOMAIN dirs : ~SourceOutOverlap(dirs[i].src, dirs[i].out)
  BY DEF DevPathsInv
<1>2. Apart(dirs)
  BY <1>1, CheckCarriesOver, PathsAssumption DEF DevPathsInv, CheckedAsUsed, Dir
<1>3. \A i \in DOMAIN dirs : dirs[i].src \in Dir /\ dirs[i].out \in Dir
  <2>1. dirs \in [DOMAIN declared -> Placed]
    BY <1>1, InDirectoriesPlaced, PathsAssumption DEF DevPathsInv, Dir
  <2> QED BY <2>1 DEF Placed
<1>4. f.by \in DOMAIN dirs /\ f.dir \in Dir /\ IsPrefix(dirs[f.by].out, f.dir)
  BY DEF DevPathsInv
<1>5. ASSUME NEW i \in DOMAIN dirs, NEW p \in {dirs[i].src, dirs[i].out}, IsPrefix(p, f.dir)
      PROVE  i = f.by
  <2>1. Overlap(p, dirs[f.by].out)
    BY <1>3, <1>4, <1>5, PrefixesCompare DEF Overlap, IsSameOrNested
  <2> QED BY <1>2, <1>4, <2>1 DEF Apart, OverlapsAny
<1>6. ASSUME NEW i \in DOMAIN dirs, Watches(dirs[i].src, f.dir) PROVE FALSE
  <2>1. IsPrefix(dirs[i].src, f.dir)
    BY <1>6 DEF Watches, IsSameOrNested
  <2>2. i = f.by
    BY <1>5, <2>1
  <2>3. IsPrefix(dirs[i].src, dirs[i].out) /\ Shielded(dirs[i].src, dirs[i].out)
    BY <1>1, <1>3, <1>4, <2>1, <2>2, PrefixesCompare DEF SourceOutOverlap, IsSameOrNested
  <2> QED BY <1>3, <1>4, <1>6, <2>2, <2>3, ShieldedIsNotWatched
<1>7. ASSUME NEW g \in built, f.dir = g.dir PROVE f.by = g.by
  <2>1. g.by \in DOMAIN dirs /\ IsPrefix(dirs[g.by].out, f.dir)
    BY <1>7 DEF DevPathsInv
  <2> QED BY <1>5, <2>1
<1> QED BY <1>6, <1>7

\* Whatever the tree, the names and the configuration: where the paths are used
\* as they were checked, no build writes where a watcher looks or where another
\* extension's builds write (config.go:257 and 284, README.md:190).
THEOREM BuildsAreApart == DevPathsSpec => []BuildsStayApart
BY DevInitInv, DevPathsNextInv, InvKeepsApart, PTL DEF DevPathsSpec

-----------------------------------------------------------------------------
(* The project's files.                                                      *)

-----------------------------------------------------------------------------
(* What a graph and a config are made from.                                 *)

\* A report of the inspector makes a graph.
LEMMA InspectionTypes ==
    ASSUME NEW r \in Report
    PROVE  FromInspection(r) \in Graph
BY RulesAssumption DEF FromInspection, Report, Graph

\* The graph a config and a report of the sources make, field by field.
LEMMA ConfigTypes ==
    ASSUME NEW c \in Config, NEW r \in Report
    PROVE  FromConfig(c, r) = [requested |-> IF c.targets = {} THEN r.targets ELSE c.targets,
                               resolved |-> (IF c.targets = {} THEN r.targets ELSE c.targets) \cap Adapters,
                               capabilities |-> c.capabilities,
                               entries |-> r.entries \/ c.entries,
                               config |-> c]
<1>1. FromInspection(r) = [requested |-> r.targets, resolved |-> r.targets \cap Adapters,
                           capabilities |-> {}, entries |-> r.entries, config |-> NoConfig]
  BY DEF FromInspection
<1> DEFINE base == FromInspection(r)
           e == r.entries \/ c.entries
<1>2. FromConfig(c, r) =
        [base EXCEPT !.requested = IF c.targets = {} THEN base.requested ELSE c.targets,
                     !.resolved = IF c.targets = {} THEN base.resolved ELSE c.targets \cap Adapters,
                     !.capabilities = c.capabilities,
                     !.entries = base.entries \/ c.entries,
                     !.config = c]
  BY DEF FromConfig
<1>3. (base.entries \/ c.entries) = e
  BY <1>1
<1>4. FromConfig(c, r) =
        [base EXCEPT !.requested = IF c.targets = {} THEN base.requested ELSE c.targets,
                     !.resolved = IF c.targets = {} THEN base.resolved ELSE c.targets \cap Adapters,
                     !.capabilities = c.capabilities,
                     !.entries = e,
                     !.config = c]
  BY <1>2, <1>3
<1> DEFINE q == IF c.targets = {} THEN r.targets ELSE c.targets
           s == (IF c.targets = {} THEN r.targets ELSE c.targets) \cap Adapters
<1>6. /\ q = IF c.targets = {} THEN base.requested ELSE c.targets
      /\ s = IF c.targets = {} THEN base.resolved ELSE c.targets \cap Adapters
  BY <1>1
<1> HIDE DEF e, q, s
<1>5. FromConfig(c, r) = [requested |-> q, resolved |-> s, capabilities |-> c.capabilities,
                          entries |-> e, config |-> c]
  <2>1. FromConfig(c, r) = [base EXCEPT !.requested = q, !.resolved = s,
                               !.capabilities = c.capabilities, !.entries = e, !.config = c]
    BY <1>4, <1>6
  <2> QED BY <1>1, <2>1
<1> QED BY <1>5 DEF e, q, s

\* It is a graph.
LEMMA ConfigGraphTypes ==
    ASSUME NEW c \in Config, NEW r \in Report
    PROVE  FromConfig(c, r) \in Graph
<1>1. (r.entries \/ c.entries) \in BOOLEAN
  OBVIOUS
<1>2. /\ c.targets \in SUBSET KnownTargets /\ r.targets \in SUBSET KnownTargets
      /\ c.capabilities \in SUBSET Capabilities
  BY DEF Config, Report
<1> DEFINE e == r.entries \/ c.entries
<1>3. e \in BOOLEAN
  BY <1>1
<1>4. FromConfig(c, r) = [requested |-> IF c.targets = {} THEN r.targets ELSE c.targets,
                               resolved |-> (IF c.targets = {} THEN r.targets ELSE c.targets) \cap Adapters,
                               capabilities |-> c.capabilities,
                               entries |-> e,
                               config |-> c]
  BY ConfigTypes
<1> HIDE DEF e
<1> QED BY <1>2, <1>3, <1>4, RulesAssumption DEF Graph

\* A bootstrapped config is one.
LEMMA BootstrapTypes ==
    ASSUME NEW g \in Graph
    PROVE  Bootstrapped(g) \in Config
BY DEF Bootstrapped, Graph, Config

\* The manifests of a graph made from a config have what the config declares and the
\* catalog knows a permission for.
LEMMA PermissionsOfConfig ==
    ASSUME NEW c \in Config, NEW r \in Report, c.targets # {},
           NEW t \in c.targets \cap Adapters
    PROVE  Manifests(FromConfig(c, r))[t] = (c.capabilities \cap Native) \ Silent
<1> DEFINE g == FromConfig(c, r)
<1>1. g.resolved = c.targets \cap Adapters /\ g.capabilities = c.capabilities
  BY ConfigTypes
<1>2. t \in g.resolved \cap Adapters
  BY <1>1
<1>3. Manifests(g)[t] = Permissions(g, t)
  BY <1>2 DEF Manifests
<1>4. \A x : State(x) = "native" <=> x \in Native
  BY RulesAssumption DEF State
<1>5. \A x : x \in Permissions(g, t) <=> \E s \in Resolutions(g) :
                 /\ s.target = t /\ State(s.capability) = "native" /\ s.capability \notin Silent
                 /\ x = s.capability
  BY DEF Permissions
<1>6. \A x \in g.capabilities : [capability |-> x, target |-> t] \in Resolutions(g)
  BY <1>2 DEF Resolutions
<1>7. \A s \in Resolutions(g) : s.capability \in g.capabilities
  BY DEF Resolutions
<1> HIDE DEF g
<1>8. \A x : x \in Permissions(g, t) <=> x \in (c.capabilities \cap Native) \ Silent
  <2>1. ASSUME NEW x, x \in Permissions(g, t) PROVE x \in (c.capabilities \cap Native) \ Silent
    BY <2>1, <1>1, <1>4, <1>5, <1>7
  <2>2. ASSUME NEW x, x \in (c.capabilities \cap Native) \ Silent PROVE x \in Permissions(g, t)
    <3>1. [capability |-> x, target |-> t] \in Resolutions(g)
      BY <1>1, <1>6, <2>2
    <3> QED BY <2>2, <3>1, <1>4, <1>5
  <2> QED BY <2>1, <2>2
<1> QED BY <1>3, <1>8 DEF g

-----------------------------------------------------------------------------
\* Where add-target is once it has read the config, and once it has written one.
AddPlaces == {"readConfig", "writeConfig", "readPolicy", "truncate", "writePolicy",
              "rebuild", "writeGraph", "added"}
ConfigWritten == AddPlaces \ {"readConfig", "writeConfig"}
PolicyWritten == {"rebuild", "writeGraph", "added"}
PackagePlaces == {"record", "readState", "writeState", "packaged"}

\* What a process holds fits its place: an add-target has a target, a config to write,
\* and one behind it; a package has a number, and its record behind it unless the
\* write failed.
Fits(u) ==
    /\ job[u].adds \/ job[u].at \in AddPlaces => job[u].target # {}
    /\ job[u].at = "writeConfig" => job[u].config \in Config
    /\ job[u].at \in ConfigWritten => json \in Config
    /\ job[u].at = "record" => job[u].run \in 1..MaxCommands
    /\ job[u].at \in {"readState", "writeState"} /\ "record" \notin job[u].lost
          => job[u].run \in DOMAIN runs /\ runs[job[u].run] = job[u].outcome
    /\ job[u].at = "packaged" => job[u].run \in DOMAIN runs /\ runs[job[u].run] = "succeeded"

\* What a process has read or written still is so as long as nobody else has done
\* anything since its command began.
Undisturbed(u) ==
    alone = u =>
        /\ job[u].at \in AddPlaces \ {"readConfig"} => ts = NoConfig
        /\ job[u].at = "writeConfig" => job[u].target \subseteq job[u].config.targets
        /\ job[u].at \in ConfigWritten => job[u].target \subseteq json.targets
        /\ job[u].at \in {"truncate", "writePolicy"} => job[u].target \subseteq job[u].policy
        /\ job[u].at \in PolicyWritten => "policy" \in job[u].lost \/ job[u].target \subseteq policy
        /\ job[u].at = "writeGraph" => job[u].graph = FromConfig(json, report)
        /\ job[u].at = "added" => graph = FromConfig(json, report)
        /\ job[u].at = "packaged" => latest = job[u].run \/ "state" \in job[u].lost

\* No two packages have one number.
Numbered ==
    \A u \in Users : /\ job[u].run <= commands
                      /\ \A v \in Users \ {u} : job[u].run = job[v].run => job[u].run = 0

WInv == /\ WorkspaceTypeOK
        /\ Numbered
        /\ \A u \in Users : Fits(u) /\ Undisturbed(u)

USE WorkspaceAssumption

Job == [at : Places, adds : BOOLEAN, target : SUBSET KnownTargets,
        config : Config \cup {NoConfig}, policy : SUBSET KnownTargets,
        graph : Graph \cup {NoGraph}, run : Nat,
        outcome : {"none", "succeeded", "failed"}, lost : SUBSET Losable]

\* A process at rest has a job like any other.
LEMMA NoJobIsJob == NoJob \in Job
BY DEF NoJob, Job, Places

\* A step of a command is a start or goes on, for one process.
LEMMA StartsOrProceeds ==
    ASSUME NEW u \in Users, CommandStep(u)
    PROVE  \E j : Start(u, j) \/ Proceed(u, j)
BY Zenon DEF CommandStep, InitStarts, AddStarts, PackageStarts, RepairStarts, MakeDirs, CheckState,
       NewState, InitGraph, ReadConfig, WriteConfig, ReadPolicy, TruncatePolicy, WritePolicy,
       RebuildGraph, WriteGraph, RecordRun, ReadState, WriteState, RepairDirs, RepairState,
       Stops, MoveTo, Lose, Recorded, Answer

\* A command changes no other process's job.
LEMMA OnlyItsOwnJob ==
    ASSUME WorkspaceTypeOK, NEW u \in Users, CommandStep(u)
    PROVE  /\ \A v \in Users \ {u} : job'[v] = job[v] /\ alone' # v
           /\ alone' \in Users \cup {NoUser}
<1> USE DEF WorkspaceTypeOK
<1> PICK j : Start(u, j) \/ Proceed(u, j)
  BY StartsOrProceeds
<1> QED BY DEF Start, Proceed

\* The files a command leaves alone: it reads the TypeScript config and the sources,
\* replaces the JSON config by another, and adds to the runs.
LEMMA WhatCommandsChange ==
    ASSUME NEW u \in Users, CommandStep(u)
    PROVE  /\ UNCHANGED <<ts, report, saves>>
           /\ UNCHANGED json \/ WriteConfig(u)
           /\ UNCHANGED runs \/ RecordRun(u)
           /\ UNCHANGED commands \/ commands' = commands + 1
<1> USE DEF files, bookkeeping
<1>1. CASE InitStarts(u) \/ AddStarts(u) \/ PackageStarts(u) \/ RepairStarts(u)
  <2> PICK j : Start(u, j)
    BY <1>1, Zenon DEF InitStarts, AddStarts, PackageStarts, RepairStarts
  <2> QED BY DEF Start
<1>2. CASE MakeDirs(u) \/ CheckState(u) \/ NewState(u) \/ InitGraph(u)
  BY <1>2 DEF MakeDirs, CheckState, NewState, InitGraph
<1>3. CASE ReadConfig(u) \/ WriteConfig(u) \/ ReadPolicy(u) \/ TruncatePolicy(u) \/ WritePolicy(u)
  BY <1>3 DEF ReadConfig, WriteConfig, ReadPolicy, TruncatePolicy, WritePolicy
<1>4. CASE RebuildGraph(u) \/ WriteGraph(u) \/ RecordRun(u) \/ ReadState(u) \/ WriteState(u)
  BY <1>4 DEF RebuildGraph, WriteGraph, RecordRun, ReadState, WriteState
<1>5. CASE RepairDirs(u) \/ RepairState(u) \/ Stops(u)
  BY <1>5 DEF RepairDirs, RepairState, Stops
<1> QED BY <1>1, <1>2, <1>3, <1>4, <1>5 DEF CommandStep

\* The job after a step.
LEMMA Proceeding ==
    ASSUME WorkspaceTypeOK, NEW u \in Users, NEW j, Proceed(u, j)
    PROVE  job'[u] = j /\ (alone' = u => alone = u)
BY DEF Proceed, WorkspaceTypeOK

\* The job after a start.
LEMMA Starting ==
    ASSUME WorkspaceTypeOK, NEW u \in Users, NEW j, Start(u, j)
    PROVE  /\ job'[u] = j /\ UNCHANGED <<files, report>>
           /\ commands < MaxCommands
BY DEF Start, WorkspaceTypeOK

\* The fields of a job that moves on to another place.
LEMMA Moving ==
    ASSUME NEW j \in Job, NEW place \in Places, NEW k, k = [j EXCEPT !.at = place]
    PROVE  /\ k \in Job /\ k.at = place /\ k.adds = j.adds /\ k.target = j.target
           /\ k.config = j.config /\ k.policy = j.policy /\ k.graph = j.graph
           /\ k.run = j.run /\ k.outcome = j.outcome /\ k.lost = j.lost
BY DEF Job

\* What the job of a process at rest holds.
LEMMA NoJobFields ==
    /\ NoJob \in Job /\ NoJob.at = "rest" /\ ~NoJob.adds /\ NoJob.run = 0
BY NoJobIsJob DEF NoJob

\* What a step of its own leaves a process with.
Own(u) ==
    /\ job'[u] \in Job
    /\ json' \in Config \cup {NoConfig}
    /\ policy' \in (SUBSET KnownTargets) \cup {NoPolicy, CutPolicy}
    /\ initialized' \in BOOLEAN
    /\ latest' \in Nat \cup {NoState}
    /\ graph' \in Graph \cup {NoGraph}
    /\ DOMAIN runs' \subseteq 1..MaxCommands
    /\ Fits(u)' /\ Undisturbed(u)'

\* A process at rest, or at the beginning of a command, has nothing to keep.
LEMMA NothingHeld ==
    ASSUME WInv, NEW u \in Users, UNCHANGED <<json, policy, latest, graph, runs>>,
           initialized' \in BOOLEAN, job'[u] \in Job,
           job'[u].at \notin AddPlaces \cup PackagePlaces,
           job'[u].adds => job'[u].target # {}
    PROVE  Own(u)
BY DEF WInv, WorkspaceTypeOK, Own, Fits, Undisturbed, PackagePlaces, AddPlaces, ConfigWritten,
       PolicyWritten

\* The acting process keeps what it has to: when a command starts, makes directories or
\* stops.
LEMMA InitOwn ==
    ASSUME WInv, NEW u \in Users,
           InitStarts(u) \/ AddStarts(u) \/ RepairStarts(u) \/ MakeDirs(u)
             \/ RepairDirs(u) \/ Stops(u)
    PROVE  Own(u)
<1> USE DEF AddPlaces, PackagePlaces, Places
<1>0. WorkspaceTypeOK /\ job[u] \in Job /\ (job[u].adds => job[u].target # {})
  BY DEF WInv, WorkspaceTypeOK, Job, Fits
<1>1. CASE InitStarts(u)
  <2> PICK t \in SUBSET KnownTargets : Start(u, [NoJob EXCEPT !.at = "dirs", !.target = t])
    BY <1>1 DEF InitStarts
  <2> DEFINE j == [NoJob EXCEPT !.at = "dirs", !.target = t]
  <2>1. j \in Job /\ j.at = "dirs" /\ ~j.adds
    BY NoJobIsJob DEF NoJob, Job
  <2>2. job'[u] = j /\ UNCHANGED <<files, report>>
    BY <1>0, Starting
  <2> HIDE DEF j
  <2> QED BY <2>1, <2>2, NothingHeld DEF files, WInv, WorkspaceTypeOK
<1>2. CASE AddStarts(u)
  <2> PICK t \in KnownTargets : Start(u, [NoJob EXCEPT !.at = "dirs", !.adds = TRUE, !.target = {t}])
    BY <1>2 DEF AddStarts
  <2> DEFINE j == [NoJob EXCEPT !.at = "dirs", !.adds = TRUE, !.target = {t}]
  <2>1. j \in Job /\ j.at = "dirs" /\ j.target # {}
    BY NoJobIsJob DEF NoJob, Job
  <2>2. job'[u] = j /\ UNCHANGED <<files, report>>
    BY <1>0, Starting
  <2> HIDE DEF j
  <2> QED BY <2>1, <2>2, NothingHeld DEF files, WInv, WorkspaceTypeOK
<1>3. CASE RepairStarts(u)
  <2> DEFINE j == [NoJob EXCEPT !.at = "repairDirs"]
  <2>1. j \in Job /\ j.at = "repairDirs" /\ ~j.adds
    BY NoJobIsJob DEF NoJob, Job
  <2>2. job'[u] = j /\ UNCHANGED <<files, report>>
    BY <1>0, <1>3, Starting DEF RepairStarts
  <2> HIDE DEF j
  <2> QED BY <2>1, <2>2, NothingHeld DEF files, WInv, WorkspaceTypeOK
<1>4. CASE MakeDirs(u)
  <2>1. job'[u] = [job[u] EXCEPT !.at = "state"]
    BY <1>0, <1>4, Proceeding DEF MakeDirs, MoveTo
  <2>2. job'[u] \in Job /\ job'[u].at = "state" /\ (job'[u].adds => job'[u].target # {})
    BY <1>0, <2>1, Moving
  <2> QED BY <1>4, <2>2, NothingHeld DEF MakeDirs
<1>5. CASE RepairDirs(u)
  <2>1. job'[u] = [job[u] EXCEPT !.at = "repairState"]
    BY <1>0, <1>5, Proceeding DEF RepairDirs, MoveTo
  <2>2. job'[u] \in Job /\ job'[u].at = "repairState" /\ (job'[u].adds => job'[u].target # {})
    BY <1>0, <2>1, Moving
  <2> QED BY <1>5, <2>2, NothingHeld DEF RepairDirs
<1>6. CASE Stops(u)
  <2>1. job'[u] = NoJob /\ UNCHANGED files
    BY <1>0, <1>6, Proceeding DEF Stops
  <2> QED BY <2>1, NoJobFields, NothingHeld DEF files, WInv, WorkspaceTypeOK
<1> QED BY <1>1, <1>2, <1>3, <1>4, <1>5, <1>6

\* A process that is about to read the config holds its target and nothing else.
LEMMA TargetHeld ==
    ASSUME WInv, NEW u \in Users, UNCHANGED <<json, policy, initialized, runs>>,
           graph' \in Graph \cup {NoGraph},
           latest' = latest \/ latest' = 0,
           job'[u] \in Job,
           job'[u].at \notin (AddPlaces \ {"readConfig"}) \cup PackagePlaces,
           job'[u].adds \/ job'[u].at = "readConfig" => job'[u].target # {}
    PROVE  Own(u)
BY DEF WInv, WorkspaceTypeOK, Own, Fits, Undisturbed, PackagePlaces, AddPlaces, ConfigWritten,
       PolicyWritten

\* The steps on state.json, and the first graph.
LEMMA StateOwn ==
    ASSUME WInv, NEW u \in Users,
           CheckState(u) \/ NewState(u) \/ InitGraph(u) \/ RepairState(u)
    PROVE  Own(u)
<1> USE DEF AddPlaces, PackagePlaces, Places
<1>0. WorkspaceTypeOK /\ job[u] \in Job /\ (job[u].adds => job[u].target # {})
  BY DEF WInv, WorkspaceTypeOK, Job, Fits
<1>1. AfterState(u) \in {"readConfig", "initGraph"} /\ (AfterState(u) = "readConfig" => job[u].adds)
  BY DEF AfterState
<1>2. CASE CheckState(u)
  <2> DEFINE place == IF latest = NoState THEN "newState" ELSE AfterState(u)
  <2>1. job'[u] = [job[u] EXCEPT !.at = place] /\ UNCHANGED files
    BY <1>0, <1>2, Proceeding DEF CheckState, MoveTo
  <2>2. place \in {"newState", "readConfig", "initGraph"} /\ (place = "readConfig" => job[u].adds)
    BY <1>1
  <2> HIDE DEF place
  <2>3. job'[u] \in Job /\ job'[u].at = place /\ job'[u].adds = job[u].adds /\ job'[u].target = job[u].target
    BY <1>0, <2>1, <2>2, Moving
  <2> QED BY <1>0, <2>1, <2>2, <2>3, TargetHeld DEF files, WInv, WorkspaceTypeOK
<1>3. CASE NewState(u)
  <2> DEFINE place == AfterState(u)
  <2>1. job'[u] = [job[u] EXCEPT !.at = place]
    BY <1>0, <1>3, Proceeding DEF NewState, MoveTo
  <2>2. place \in {"readConfig", "initGraph"} /\ (place = "readConfig" => job[u].adds)
    BY <1>1
  <2> HIDE DEF place
  <2>3. job'[u] \in Job /\ job'[u].at = place /\ job'[u].adds = job[u].adds /\ job'[u].target = job[u].target
    BY <1>0, <2>1, <2>2, Moving
  <2> QED BY <1>0, <1>3, <2>2, <2>3, TargetHeld DEF NewState, WInv, WorkspaceTypeOK
<1>4. CASE InitGraph(u)
  <2>1. job'[u] = NoJob
    BY <1>0, <1>4, Proceeding DEF InitGraph
  <2> DEFINE g == FromInspection(report)
             r == IF job[u].target = {} THEN g.resolved ELSE job[u].target
  <2>2. g \in Graph
    BY <1>0, InspectionTypes DEF WorkspaceTypeOK
  <2>3. graph' = [g EXCEPT !.resolved = r]
    BY <1>4 DEF InitGraph
  <2>4. r \in SUBSET KnownTargets
    BY <1>0, <2>2 DEF Job, Graph
  <2> HIDE DEF g, r
  <2>5. graph' \in Graph
    BY <2>2, <2>3, <2>4 DEF Graph
  <2> QED BY <1>4, <2>1, <2>5, NoJobFields, TargetHeld DEF InitGraph
<1>5. CASE RepairState(u)
  <2>1. job'[u] = NoJob
    BY <1>0, <1>5, Proceeding DEF RepairState
  <2> QED BY <1>0, <1>5, <2>1, NoJobFields, TargetHeld DEF RepairState, WorkspaceTypeOK
<1> QED BY <1>2, <1>3, <1>4, <1>5

\* Who is answered "ok" has a record, and a state that names it or was passed over.
LEMMA AnswerOwn ==
    ASSUME WInv, NEW u \in Users, job[u].at \in {"readState", "writeState"},
           NEW lost \in SUBSET Losable, job[u].lost \subseteq lost,
           Answer(u, lost), UNCHANGED <<json, policy, initialized, graph, runs>>,
           latest' \in Nat \cup {NoState},
           "state" \in lost \/ "newState" \in lost \/ latest' = job[u].run
    PROVE  Own(u)
<1> USE DEF AddPlaces, PackagePlaces, Places
<1>0. WorkspaceTypeOK /\ job[u] \in Job /\ Fits(u)
  BY DEF WInv, WorkspaceTypeOK, Job
<1> DEFINE ok == job[u].outcome = "succeeded" /\ {"record", "newState"} \cap lost = {}
           j == [NoJob EXCEPT !.at = "packaged", !.run = job[u].run, !.lost = lost]
<1>1. CASE ok
  <2>1. job'[u] = j
    BY <1>0, <1>1, Proceeding DEF Answer
  <2>2. job'[u] \in Job /\ job'[u].at = "packaged" /\ job'[u].run = job[u].run
        /\ ~job'[u].adds /\ job'[u].lost = lost
    <3>1. j \in Job
      BY <1>0, NoJobIsJob DEF Job
    <3>2. j.at = "packaged" /\ j.run = job[u].run /\ ~j.adds /\ j.lost = lost
      BY DEF NoJob
    <3> QED BY <2>1, <3>1, <3>2
  <2>3. job[u].run \in DOMAIN runs /\ runs[job[u].run] = "succeeded"
    BY <1>0, <1>1 DEF Fits
  <2> QED BY <1>0, <1>1, <2>2, <2>3 DEF WorkspaceTypeOK, Own, Fits, Undisturbed,
              ConfigWritten, PolicyWritten
<1>2. CASE ~ok
  <2>1. job'[u] = NoJob
    BY <1>0, <1>2, Proceeding DEF Answer
  <2> QED BY <1>0, <2>1, NoJobFields DEF WorkspaceTypeOK, Own, Fits, Undisturbed,
              ConfigWritten, PolicyWritten
<1> QED BY <1>1, <1>2

\* The run package records, and the state that names it.
LEMMA PackageOwn ==
    ASSUME WInv, NEW u \in Users,
           PackageStarts(u) \/ RecordRun(u) \/ ReadState(u) \/ WriteState(u)
    PROVE  Own(u)
<1> USE DEF AddPlaces, PackagePlaces, Places
<1>0. WorkspaceTypeOK /\ job[u] \in Job /\ (job[u].adds => job[u].target # {})
      /\ Fits(u)
  BY DEF WInv, WorkspaceTypeOK, Job, Fits
<1>1. CASE PackageStarts(u)
  <2> PICK outcome \in {"succeeded", "failed"} :
             Start(u, [NoJob EXCEPT !.at = "record", !.run = commands + 1, !.outcome = outcome])
    BY <1>1, Zenon DEF PackageStarts
  <2> DEFINE j == [NoJob EXCEPT !.at = "record", !.run = commands + 1, !.outcome = outcome]
  <2>1. job'[u] = j /\ UNCHANGED <<files, report>> /\ commands < MaxCommands
    BY <1>0, Starting
  <2>2. j \in Job /\ j.at = "record" /\ ~j.adds /\ j.run \in 1..MaxCommands
    <3>1. commands \in Nat /\ commands + 1 \in 1..MaxCommands
      BY <1>0, <2>1 DEF WorkspaceTypeOK
    <3> DEFINE n == commands + 1
    <3> HIDE DEF n
    <3>2. n \in Nat /\ n \in 1..MaxCommands
      BY <3>1 DEF n
    <3>3. j = [NoJob EXCEPT !.at = "record", !.run = n, !.outcome = outcome]
      BY DEF n
    <3> HIDE DEF j
    <3> QED BY <3>2, <3>3, NoJobIsJob DEF NoJob, Job
  <2> HIDE DEF j
  <2> QED BY <1>0, <2>1, <2>2 DEF files, WInv, WorkspaceTypeOK, Own, Fits, Undisturbed,
              ConfigWritten, PolicyWritten
<1>2. CASE RecordRun(u) /\ Recorded(u)
  <2>1. job'[u] = [job[u] EXCEPT !.at = "readState"]
    BY <1>0, <1>2, Proceeding DEF Recorded, MoveTo
  <2>2. job'[u] \in Job /\ job'[u].at = "readState" /\ job'[u].adds = job[u].adds
        /\ job'[u].target = job[u].target /\ job'[u].run = job[u].run
        /\ job'[u].outcome = job[u].outcome
    BY <1>0, <2>1, Moving
  <2>3. /\ DOMAIN runs' = DOMAIN runs \cup {job[u].run} /\ job[u].run \in 1..MaxCommands
        /\ runs'[job[u].run] = job[u].outcome
    BY <1>0, <1>2 DEF RecordRun, Recorded, JobAt, Fits
  <2> QED BY <1>0, <1>2, <2>2, <2>3 DEF RecordRun, WorkspaceTypeOK, Own, Fits, Undisturbed,
              ConfigWritten, PolicyWritten
<1>3. CASE RecordRun(u) /\ Lose(u, "record", "readState") /\ UNCHANGED runs
  <2> DEFINE lost == job[u].lost \cup {"record"}
  <2>1. job'[u] = [job[u] EXCEPT !.at = "readState", !.lost = lost]
    BY <1>0, <1>3, Proceeding DEF Lose
  <2>2. lost \in SUBSET Losable /\ "record" \in lost
    BY <1>0 DEF Job, Losable
  <2> HIDE DEF lost
  <2>3. job'[u] \in Job /\ job'[u].at = "readState" /\ job'[u].adds = job[u].adds
        /\ job'[u].target = job[u].target /\ "record" \in job'[u].lost
    BY <1>0, <2>1, <2>2 DEF Job
  <2> QED BY <1>0, <1>3, <2>3 DEF RecordRun, WorkspaceTypeOK, Own, Fits, Undisturbed,
              ConfigWritten, PolicyWritten
<1>4. CASE ReadState(u) /\ latest # NoState /\ MoveTo(u, "writeState")
  <2>1. job'[u] = [job[u] EXCEPT !.at = "writeState"] /\ UNCHANGED files
    BY <1>0, <1>4, Proceeding DEF ReadState, MoveTo
  <2>2. job'[u] \in Job /\ job'[u].at = "writeState" /\ job'[u].adds = job[u].adds
        /\ job'[u].target = job[u].target /\ job'[u].run = job[u].run
        /\ job'[u].outcome = job[u].outcome /\ job'[u].lost = job[u].lost
    BY <1>0, <2>1, Moving
  <2>3. "record" \notin job[u].lost => job[u].run \in DOMAIN runs /\ runs[job[u].run] = job[u].outcome
    BY <1>0, <1>4 DEF ReadState, JobAt, Fits
  <2> QED BY <1>0, <2>1, <2>2, <2>3 DEF files, WorkspaceTypeOK, Own, Fits, Undisturbed,
              ConfigWritten, PolicyWritten
<1>5. CASE ReadState(u) /\ Answer(u, job[u].lost \cup {"state"})
  <2>1. job[u].lost \cup {"state"} \in SUBSET Losable
    BY <1>0 DEF Job, Losable
  <2>2. /\ job[u].at \in {"readState", "writeState"} /\ job[u].lost \subseteq job[u].lost \cup {"state"}
        /\ UNCHANGED <<json, policy, initialized, graph, runs, latest>>
        /\ latest \in Nat \cup {NoState}
    BY <1>0, <1>5 DEF ReadState, JobAt, files, WorkspaceTypeOK
  <2> QED BY <1>5, <2>1, <2>2, AnswerOwn
<1>6. CASE WriteState(u) /\ latest' = job[u].run /\ Answer(u, job[u].lost)
  <2>1. job[u].lost \in SUBSET Losable /\ job[u].run \in Nat
    BY <1>0 DEF Job
  <2>2. /\ job[u].at \in {"readState", "writeState"} /\ job[u].lost \subseteq job[u].lost
        /\ UNCHANGED <<json, policy, initialized, graph, runs>>
        /\ latest' \in Nat \cup {NoState} /\ latest' = job[u].run
    BY <1>6, <2>1 DEF WriteState, JobAt
  <2> QED BY <1>6, <2>1, <2>2, AnswerOwn
<1>7. CASE WriteState(u) /\ UNCHANGED latest /\ Answer(u, job[u].lost \cup {"newState"})
  <2>1. job[u].lost \cup {"newState"} \in SUBSET Losable
    BY <1>0 DEF Job, Losable
  <2>2. /\ job[u].at \in {"readState", "writeState"} /\ job[u].lost \subseteq job[u].lost \cup {"newState"}
        /\ UNCHANGED <<json, policy, initialized, graph, runs>>
        /\ latest' \in Nat \cup {NoState}
    BY <1>0, <1>7 DEF WriteState, JobAt, WorkspaceTypeOK
  <2> QED BY <1>7, <2>1, <2>2, AnswerOwn
<1> QED BY <1>1, <1>2, <1>3, <1>4, <1>5, <1>6, <1>7 DEF RecordRun, ReadState, WriteState

\* The reading of the config: undisturbed, it is what the files hold.
LEMMA ReadConfigOwn ==
    ASSUME WInv, NEW u \in Users, ReadConfig(u)
    PROVE  Own(u)
<1>0. /\ WorkspaceTypeOK /\ job[u] \in Job /\ Fits(u)
      /\ job[u].target \in SUBSET KnownTargets /\ job[u].target # {}
      /\ UNCHANGED files
  BY DEF WInv, WorkspaceTypeOK, Job, Fits, ReadConfig, JobAt, AddPlaces
<1>1. CASE ts # NoConfig
  <2>1. job'[u] = NoJob
    BY <1>0, <1>1, Proceeding DEF ReadConfig
  <2> QED BY <1>0, <2>1, NoJobFields, NothingHeld DEF files, WorkspaceTypeOK, AddPlaces, PackagePlaces
<1>2. CASE ts = NoConfig
  <2> DEFINE base == IF json # NoConfig THEN json ELSE Bootstrapped(LoadProjectGraph)
             c == [base EXCEPT !.targets = @ \cup job[u].target]
  <2>1. base \in Config
    <3>1. LoadProjectGraph \in Graph
      BY <1>0, InspectionTypes, ConfigGraphTypes DEF LoadProjectGraph, Authored, WorkspaceTypeOK
    <3> QED BY <1>0, <3>1, BootstrapTypes DEF WorkspaceTypeOK
  <2>2. job'[u] = [job[u] EXCEPT !.at = "writeConfig", !.config = c] /\ (alone' = u => alone = u)
    BY <1>0, <1>2, Proceeding DEF ReadConfig
  <2> HIDE DEF base
  <2>3. c \in Config /\ job[u].target \subseteq c.targets
    BY <1>0, <2>1 DEF Config
  <2> HIDE DEF c
  <2>4. /\ job'[u] \in Job /\ job'[u].at = "writeConfig" /\ job'[u].config = c
        /\ job'[u].target = job[u].target
    BY <1>0, <2>2, <2>3 DEF Job, Places
  <2>5. ts' = NoConfig
    BY <1>0, <1>2 DEF files
  <2> QED BY <1>0, <2>3, <2>4, <2>5 DEF files, WorkspaceTypeOK, Own, Fits, Undisturbed,
              ConfigWritten, PolicyWritten
<1> QED BY <1>1, <1>2

\* Once the config is written, its targets are those of the command.
LEMMA WriteConfigOwn ==
    ASSUME WInv, NEW u \in Users, WriteConfig(u)
    PROVE  Own(u)
<1>0. /\ WorkspaceTypeOK /\ job[u] \in Job /\ Fits(u)
      /\ job[u].target # {} /\ job[u].config \in Config
      /\ alone = u => ts = NoConfig /\ job[u].target \subseteq job[u].config.targets
      /\ json' = job[u].config /\ UNCHANGED <<ts, policy, initialized, latest, graph, runs>>
  BY DEF WInv, WorkspaceTypeOK, Job, Fits, Undisturbed, WriteConfig, JobAt, AddPlaces
<1>1. job'[u] = [job[u] EXCEPT !.at = "readPolicy", !.config = NoConfig] /\ (alone' = u => alone = u)
  BY <1>0, Proceeding DEF WriteConfig
<1>2. job'[u] \in Job /\ job'[u].at = "readPolicy" /\ job'[u].target = job[u].target
  BY <1>0, <1>1 DEF Job, Places
<1> QED BY <1>0, <1>1, <1>2 DEF WorkspaceTypeOK, Own, Fits, Undisturbed,
            ConfigWritten, PolicyWritten

\* Once the policy is written, it agrees with the config.
LEMMA PolicyOwn ==
    ASSUME WInv, NEW u \in Users, ReadPolicy(u) \/ TruncatePolicy(u) \/ WritePolicy(u)
    PROVE  Own(u)
<1>0. /\ WorkspaceTypeOK /\ job[u] \in Job /\ Fits(u)
      /\ job[u].target \in SUBSET KnownTargets /\ job[u].target # {}
      /\ job[u].policy \in SUBSET KnownTargets
      /\ json \in Config
      /\ alone = u => ts = NoConfig /\ job[u].target \subseteq json.targets
      /\ UNCHANGED <<ts, json, initialized, latest, graph, runs>>
  BY DEF WInv, WorkspaceTypeOK, Job, Fits, Undisturbed, ReadPolicy, TruncatePolicy, WritePolicy,
         JobAt, AddPlaces, ConfigWritten, files
<1>1. CASE ReadPolicy(u)
  <2>0. UNCHANGED files
    BY <1>1 DEF ReadPolicy
  <2>1. CASE policy = CutPolicy
    <3>1. job'[u] = NoJob
      BY <1>0, <1>1, <2>1, Proceeding DEF ReadPolicy
    <3> QED BY <1>0, <2>0, <3>1, NoJobFields, NothingHeld DEF files, WorkspaceTypeOK, AddPlaces, PackagePlaces
  <2>2. CASE policy # CutPolicy
    <3> DEFINE allowed == IF policy = NoPolicy THEN KnownTargets ELSE policy
               p == allowed \cup job[u].target
    <3>1. p \in SUBSET KnownTargets /\ job[u].target \subseteq p
      BY <1>0, <2>2 DEF WorkspaceTypeOK
    <3>2. job'[u] = [job[u] EXCEPT !.at = "truncate", !.policy = p] /\ (alone' = u => alone = u)
      BY <1>0, <1>1, <2>2, Proceeding DEF ReadPolicy
    <3> HIDE DEF p
    <3>3. /\ job'[u] \in Job /\ job'[u].at = "truncate" /\ job'[u].target = job[u].target
          /\ job'[u].policy = p
      BY <1>0, <3>1, <3>2 DEF Job, Places
    <3> QED BY <1>0, <2>0, <3>1, <3>2, <3>3 DEF files, WorkspaceTypeOK, Own, Fits, Undisturbed,
                ConfigWritten, PolicyWritten
  <2> QED BY <2>1, <2>2
<1>2. CASE TruncatePolicy(u) /\ MoveTo(u, "writePolicy")
  <2>1. job'[u] = [job[u] EXCEPT !.at = "writePolicy"] /\ (alone' = u => alone = u)
    BY <1>0, <1>2, Proceeding DEF MoveTo
  <2>2. /\ job'[u] \in Job /\ job'[u].at = "writePolicy" /\ job'[u].target = job[u].target
        /\ job'[u].policy = job[u].policy
    BY <1>0, <2>1, Moving DEF Places
  <2>3. alone = u => job[u].target \subseteq job[u].policy
    BY <1>2 DEF TruncatePolicy, JobAt, WInv, Undisturbed
  <2>4. policy' \in (SUBSET KnownTargets) \cup {NoPolicy, CutPolicy}
    BY <1>0, <1>2 DEF TruncatePolicy, WorkspaceTypeOK
  <2> QED BY <1>0, <2>1, <2>2, <2>3, <2>4 DEF WorkspaceTypeOK, Own, Fits, Undisturbed,
              ConfigWritten, PolicyWritten
<1>3. CASE WritePolicy(u) /\ policy' = job[u].policy /\ MoveTo(u, "rebuild")
  <2>1. job'[u] = [job[u] EXCEPT !.at = "rebuild"] /\ (alone' = u => alone = u)
    BY <1>0, <1>3, Proceeding DEF MoveTo
  <2>2. job'[u] \in Job /\ job'[u].at = "rebuild" /\ job'[u].target = job[u].target
    BY <1>0, <2>1, Moving DEF Places
  <2>3. alone = u => job[u].target \subseteq job[u].policy
    BY <1>3 DEF WritePolicy, JobAt, WInv, Undisturbed
  <2> QED BY <1>0, <1>3, <2>1, <2>2, <2>3 DEF WorkspaceTypeOK, Own, Fits, Undisturbed,
              ConfigWritten, PolicyWritten
<1>4. CASE UNCHANGED policy /\ Lose(u, "policy", "rebuild")
  <2> DEFINE lost == job[u].lost \cup {"policy"}
  <2>1. job'[u] = [job[u] EXCEPT !.at = "rebuild", !.lost = lost] /\ (alone' = u => alone = u)
    BY <1>0, <1>4, Proceeding DEF Lose
  <2>2. lost \in SUBSET Losable /\ "policy" \in lost
    BY <1>0 DEF Job, Losable
  <2> HIDE DEF lost
  <2>3. /\ job'[u] \in Job /\ job'[u].at = "rebuild" /\ job'[u].target = job[u].target
        /\ "policy" \in job'[u].lost
    BY <1>0, <2>1, <2>2 DEF Job, Places
  <2> QED BY <1>0, <1>4, <2>1, <2>3 DEF WorkspaceTypeOK, Own, Fits, Undisturbed,
              ConfigWritten, PolicyWritten
<1> QED BY <1>1, <1>2, <1>3, <1>4 DEF TruncatePolicy, WritePolicy

\* Once the graph is written, it, policy and config agree.
LEMMA GraphOwn ==
    ASSUME WInv, NEW u \in Users, RebuildGraph(u) \/ WriteGraph(u)
    PROVE  Own(u)
<1>0. /\ WorkspaceTypeOK /\ job[u] \in Job /\ Fits(u)
      /\ job[u].target # {} /\ json \in Config /\ job[u].target \in SUBSET KnownTargets
      /\ job[u].graph \in Graph \cup {NoGraph}
      /\ alone = u => /\ ts = NoConfig /\ job[u].target \subseteq json.targets
                      /\ "policy" \in job[u].lost \/ job[u].target \subseteq policy
      /\ UNCHANGED <<ts, json, report, policy, initialized, latest, runs>>
  BY DEF WInv, WorkspaceTypeOK, Job, Fits, Undisturbed, RebuildGraph, WriteGraph,
         JobAt, AddPlaces, ConfigWritten, PolicyWritten, files, bookkeeping
<1>1. CASE RebuildGraph(u)
  <2> DEFINE g == FromConfig(Authored, report)
  <2>1. g \in Graph
    BY <1>0, ConfigGraphTypes DEF Authored, WorkspaceTypeOK
  <2>2. alone = u => g = FromConfig(json, report)'
    BY <1>0 DEF Authored, FromConfig, FromInspection
  <2>3. job'[u] = [job[u] EXCEPT !.at = "writeGraph", !.graph = g] /\ (alone' = u => alone = u)
    BY <1>0, <1>1, Proceeding DEF RebuildGraph
  <2>4. UNCHANGED graph
    BY <1>1 DEF RebuildGraph, files
  <2> HIDE DEF g
  <2>5. /\ job'[u] \in Job /\ job'[u].at = "writeGraph" /\ job'[u].target = job[u].target
        /\ job'[u].graph = g /\ job'[u].lost = job[u].lost
    BY <1>0, <2>1, <2>3 DEF Job, Places
  <2> QED BY <1>0, <2>2, <2>3, <2>4, <2>5 DEF WorkspaceTypeOK, Own, Fits, Undisturbed,
              ConfigWritten, PolicyWritten
<1>2. CASE WriteGraph(u)
  <2>1. /\ job'[u] = [NoJob EXCEPT !.at = "added", !.target = job[u].target, !.lost = job[u].lost]
        /\ alone' = u => alone = u
    BY <1>0, <1>2, Proceeding DEF WriteGraph
  <2>2. /\ job'[u] \in Job /\ job'[u].at = "added" /\ job'[u].target = job[u].target
        /\ job'[u].lost = job[u].lost
    BY <1>0, <2>1, NoJobIsJob DEF NoJob, Job, Places
  <2>3. alone = u => job[u].graph = FromConfig(json, report)'
    <3>1. alone = u => job[u].graph = FromConfig(json, report)
      BY <1>2 DEF WriteGraph, JobAt, WInv, Undisturbed
    <3> QED BY <1>0, <3>1 DEF FromConfig, FromInspection
  <2>4. graph' = job[u].graph
    BY <1>2 DEF WriteGraph
  <2> QED BY <1>0, <2>1, <2>2, <2>3, <2>4 DEF WorkspaceTypeOK, Own, Fits, Undisturbed,
              ConfigWritten, PolicyWritten
<1> QED BY <1>1, <1>2

-----------------------------------------------------------------------------
\* A process keeps its number, drops it, or gets the next one.
LEMMA NextNumber ==
    ASSUME WorkspaceTypeOK, NEW u \in Users, CommandStep(u)
    PROVE  \/ job'[u].run \in {0, job[u].run} /\ commands <= commands'
           \/ job'[u].run = commands + 1 /\ commands' = commands + 1
<1>0. job[u] \in Job /\ commands \in Nat
  BY DEF WorkspaceTypeOK, Job
<1>1. ASSUME NEW j, Proceed(u, j), UNCHANGED commands, j.run \in {0, job[u].run}
      PROVE  job'[u].run \in {0, job[u].run} /\ commands <= commands'
  BY <1>0, <1>1, Proceeding
<1>2. ASSUME NEW j, Start(u, j)
      PROVE  job'[u] = j /\ commands' = commands + 1
  BY <1>2, Starting DEF Start
<1>3. NoJob.run = 0
  BY DEF NoJob
<1>4. CASE InitStarts(u) \/ AddStarts(u) \/ RepairStarts(u)
  <2>1. \A t : /\ [NoJob EXCEPT !.at = "dirs", !.target = t].run = 0
               /\ [NoJob EXCEPT !.at = "dirs", !.adds = TRUE, !.target = {t}].run = 0
               /\ [NoJob EXCEPT !.at = "repairDirs"].run = 0
    BY DEF NoJob
  <2> PICK j : Start(u, j) /\ j.run = 0
    BY <1>4, <2>1, Zenon DEF InitStarts, AddStarts, RepairStarts
  <2> QED BY <1>0, <1>2
<1>5. CASE PackageStarts(u)
  <2>1. \A o : [NoJob EXCEPT !.at = "record", !.run = commands + 1, !.outcome = o].run = commands + 1
    BY DEF NoJob
  <2> PICK j : Start(u, j) /\ j.run = commands + 1
    BY <1>5, <2>1, Zenon DEF PackageStarts
  <2> QED BY <1>2
<1>6. ASSUME NEW place, MoveTo(u, place), UNCHANGED commands
      PROVE  job'[u].run \in {0, job[u].run} /\ commands <= commands'
  <2>1. [job[u] EXCEPT !.at = place].run = job[u].run
    BY <1>0 DEF Job
  <2> QED BY <1>1, <1>6, <2>1 DEF MoveTo
<1>7. ASSUME NEW what, NEW place, Lose(u, what, place), UNCHANGED commands
      PROVE  job'[u].run \in {0, job[u].run} /\ commands <= commands'
  <2>1. [job[u] EXCEPT !.at = place, !.lost = @ \cup {what}].run = job[u].run
    BY <1>0 DEF Job
  <2> QED BY <1>1, <1>7, <2>1 DEF Lose
<1>8. ASSUME NEW lost, Answer(u, lost), UNCHANGED commands
      PROVE  job'[u].run \in {0, job[u].run} /\ commands <= commands'
  <2>1. [NoJob EXCEPT !.at = "packaged", !.run = job[u].run, !.lost = lost].run = job[u].run
    BY DEF NoJob
  <2> QED BY <1>1, <1>3, <1>8, <2>1 DEF Answer
<1> USE DEF files, bookkeeping
<1>9. CASE MakeDirs(u) \/ CheckState(u) \/ NewState(u) \/ RepairDirs(u)
  BY <1>6, <1>9, Zenon DEF MakeDirs, CheckState, NewState, RepairDirs
<1>10. CASE InitGraph(u) \/ RepairState(u) \/ Stops(u)
  BY <1>1, <1>3, <1>10 DEF InitGraph, RepairState, Stops
<1>11. CASE ReadConfig(u) \/ WriteConfig(u) \/ ReadPolicy(u) \/ RebuildGraph(u) \/ WriteGraph(u)
  <2> PICK j : Proceed(u, j) /\ j.run \in {0, job[u].run} /\ UNCHANGED commands
    BY <1>0, <1>11 DEF ReadConfig, WriteConfig, ReadPolicy, RebuildGraph, WriteGraph, Job, NoJob
  <2> QED BY <1>1
<1>12. CASE TruncatePolicy(u) \/ WritePolicy(u)
  BY <1>6, <1>7, <1>12, Zenon DEF TruncatePolicy, WritePolicy
<1>13. CASE RecordRun(u)
  BY <1>6, <1>7, <1>13, Zenon DEF RecordRun, Recorded
<1>14. CASE ReadState(u) \/ WriteState(u)
  BY <1>6, <1>8, <1>14, Zenon DEF ReadState, WriteState
<1> QED BY <1>4, <1>5, <1>9, <1>10, <1>11, <1>12, <1>13, <1>14 DEF CommandStep

\* So the numbers stay apart.
LEMMA NumbersStayApart ==
    ASSUME WorkspaceTypeOK, Numbered, NEW u \in Users, CommandStep(u)
    PROVE  Numbered'
<1>1. \A v \in Users \ {u} : job'[v] = job[v]
  BY OnlyItsOwnJob
<1>2. \A v \in Users : job[v].run \in Nat
  BY DEF WorkspaceTypeOK
<1>3. commands \in Nat /\ commands' \in Nat
  BY WhatCommandsChange DEF WorkspaceTypeOK
<1> QED BY <1>1, <1>2, <1>3, NextNumber DEF Numbered

-----------------------------------------------------------------------------
\* A project nobody has touched.
LEMMA InitWInv == WorkspaceInit => WInv
<1> SUFFICES ASSUME WorkspaceInit PROVE WInv
  OBVIOUS
<1> USE DEF WorkspaceInit
<1>1. /\ job \in [Users -> Job]
      /\ \A u \in Users : job[u].at = "rest" /\ ~job[u].adds /\ job[u].run = 0
  BY NoJobFields
<1>2. runs = <<>> /\ DOMAIN runs \subseteq 1..MaxCommands
  OBVIOUS
<1>3. policy \in (SUBSET KnownTargets) \cup {NoPolicy, CutPolicy}
  BY RulesAssumption
<1>4. WorkspaceTypeOK
  <2>1. \A u \in Users : job[u] \in Job
    BY <1>1
  <2> QED BY <1>1, <1>2, <1>3 DEF WorkspaceTypeOK, Job
<1> QED BY <1>1, <1>4 DEF WInv, Numbered, Fits, Undisturbed, AddPlaces, ConfigWritten,
            PolicyWritten

\* The user's editor disturbs whoever was alone.
LEMMA SaveKeepsWInv == WInv /\ Save => WInv'
<1> SUFFICES ASSUME WInv, Save PROVE WInv'
  OBVIOUS
<1> USE DEF Save
<1>1. WorkspaceTypeOK'
  BY DEF WInv, WorkspaceTypeOK
<1>2. Numbered'
  BY DEF WInv, Numbered
<1>3. ASSUME NEW u \in Users PROVE Fits(u)' /\ Undisturbed(u)'
  <2>1. json \in Config => json' \in Config
    OBVIOUS
  <2> QED BY <2>1 DEF WInv, Fits, Undisturbed
<1> QED BY <1>1, <1>2, <1>3 DEF WInv

\* A step of a command keeps what it owns and what the others do.
LEMMA CommandKeepsWInv ==
    ASSUME WInv, NEW u \in Users, CommandStep(u)
    PROVE  WInv'
<1>0. WorkspaceTypeOK
  BY DEF WInv
<1>1. Own(u)
  BY InitOwn, StateOwn, PackageOwn, ReadConfigOwn, WriteConfigOwn, PolicyOwn, GraphOwn DEF CommandStep
<1>2. /\ \A v \in Users \ {u} : job'[v] = job[v] /\ alone' # v
      /\ alone' \in Users \cup {NoUser}
  BY <1>0, OnlyItsOwnJob
<1>3. /\ UNCHANGED <<ts, report, saves>>
      /\ UNCHANGED commands \/ commands' = commands + 1
      /\ json \in Config => json' \in Config
      /\ \A r \in DOMAIN runs \ {job[u].run} : r \in DOMAIN runs' /\ runs'[r] = runs[r]
  <2>1. WriteConfig(u) => json' \in Config
    BY DEF WriteConfig, JobAt, WInv, Fits
  <2>2. RecordRun(u) => \A r \in DOMAIN runs \ {job[u].run} : r \in DOMAIN runs' /\ runs'[r] = runs[r]
    BY DEF RecordRun, Recorded
  <2> QED BY <2>1, <2>2, WhatCommandsChange
<1>4. job' \in [Users -> Job]
  <2> PICK j : Start(u, j) \/ Proceed(u, j)
    BY StartsOrProceeds
  <2>1. job' = [job EXCEPT ![u] = j] /\ job \in [Users -> Job]
    BY <1>0 DEF Start, Proceed, WorkspaceTypeOK, Job
  <2>2. j \in Job
    BY <1>1, <2>1 DEF Own
  <2> QED BY <2>1, <2>2
<1>5. WorkspaceTypeOK'
  BY <1>0, <1>1, <1>2, <1>3, <1>4 DEF WorkspaceTypeOK, Own, Job
<1>6. ASSUME NEW v \in Users \ {u} PROVE Fits(v)' /\ Undisturbed(v)'
  <2>1. job'[v] = job[v] /\ alone' # v /\ Fits(v)
    BY <1>2 DEF WInv
  <2>2. job[v].run \in DOMAIN runs => job[v].run # job[u].run
    <3>1. job[v].run \in DOMAIN runs => job[v].run # 0
      BY <1>0 DEF WorkspaceTypeOK
    <3>2. job[v].run = job[u].run => job[v].run = 0
      BY DEF WInv, Numbered
    <3> QED BY <3>1, <3>2
  <2>3. Fits(v)'
    BY <1>3, <2>1, <2>2 DEF Fits
  <2> QED BY <2>1, <2>3 DEF Undisturbed
<1>7. Numbered'
  BY <1>0, NumbersStayApart DEF WInv
<1> QED BY <1>1, <1>5, <1>6, <1>7 DEF WInv, Own

\* The invariant holds throughout.
LEMMA WInvHolds == WorkspaceSpec => []WInv
<1>1. ASSUME WInv, [WorkspaceNext]_workspaceVars PROVE WInv'
  <2>1. CASE UNCHANGED workspaceVars
    <3>1. UNCHANGED <<report, ts, json, policy, initialized, graph, runs, latest, commands, saves,
                    job, alone>>
      BY <2>1 DEF workspaceVars, files
    <3>2. WorkspaceTypeOK' /\ Numbered'
      BY <1>1, <3>1 DEF WInv, WorkspaceTypeOK, Numbered
    <3>3. ASSUME NEW u \in Users PROVE Fits(u)' /\ Undisturbed(u)'
      <4>1. Fits(u) /\ Undisturbed(u)
        BY <1>1 DEF WInv
      <4>2. Fits(u)'
        BY <3>1, <4>1 DEF Fits
      <4>3. FromConfig(json, report)' = FromConfig(json, report)
        BY <3>1 DEF FromConfig
      <4>4. Undisturbed(u)'
        BY <3>1, <4>1, <4>3 DEF Undisturbed
      <4> QED BY <4>2, <4>4
    <3> QED BY <3>2, <3>3 DEF WInv
  <2> QED BY <1>1, <2>1, SaveKeepsWInv, CommandKeepsWInv DEF WorkspaceNext
<1> QED BY InitWInv, <1>1, PTL DEF WorkspaceSpec

\* Type correctness of the files of the project and of the commands that work on them.
THEOREM WorkspaceTypes == WorkspaceSpec => []WorkspaceTypeOK
BY WInvHolds, PTL DEF WInv

\* Whatever commands die, overlap or fail to write, a package that was answered "ok"
\* has its run on record, as succeeded, and undisturbed it is the one state.json names,
\* unless the state could not be read (cli.go:450-461).
THEOREM PackagesAreOnRecord == WorkspaceSpec => []PackageIsOnRecord
<1>1. WInv => PackageIsOnRecord
  BY DEF WInv, Fits, Undisturbed, JobAt, PackageIsOnRecord
<1> QED BY WInvHolds, <1>1, PTL

\* From whatever state dead and overlapping commands had left, an add-target nobody
\* came in the way of leaves config and graph agreeing, and the policy unless its
\* write failed, for any targets, capabilities, catalogs, users and commands.
THEOREM AddTargetsAgree == WorkspaceSpec => []AddTargetAgrees
<1>1. WInv => AddTargetAgrees
  <2> SUFFICES ASSUME WInv, NEW u \in Users, JobAt(u, "added"), alone = u
               PROVE  /\ job[u].target \subseteq json.targets
                      /\ "policy" \in job[u].lost \/ job[u].target \subseteq policy
                      /\ graph.config = json
                      /\ graph.requested = json.targets
                      /\ Passes(graph) =>
                            /\ ManifestErrors(graph) = {}
                            /\ \A t \in json.targets \cap Adapters :
                                  Manifests(graph)[t] = (json.capabilities \cap Native) \ Silent
    BY DEF AddTargetAgrees
  <2>1. /\ json \in Config /\ report \in Report /\ job[u].target # {}
        /\ job[u].target \subseteq json.targets
        /\ "policy" \in job[u].lost \/ job[u].target \subseteq policy
        /\ graph = FromConfig(json, report)
    BY DEF WInv, WorkspaceTypeOK, Fits, Undisturbed, JobAt, AddPlaces, ConfigWritten, PolicyWritten
  <2>2. json.targets # {}
    BY <2>1
  <2>3. graph.config = json /\ graph.requested = json.targets /\ graph.resolved = json.targets \cap Adapters
    BY <2>1, <2>2, ConfigTypes
  <2>4. ManifestErrors(graph) = {}
    BY <2>3 DEF ManifestErrors
  <2>5. \A t \in json.targets \cap Adapters :
           Manifests(graph)[t] = (json.capabilities \cap Native) \ Silent
    BY <2>1, <2>2, PermissionsOfConfig
  <2> QED BY <2>1, <2>3, <2>4, <2>5
<1> QED BY WInvHolds, <1>1, PTL
=============================================================================
