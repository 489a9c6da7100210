----------------------------- MODULE AtomicFile -----------------------------
(***************************************************************************)
(* How the project writes its JSON files: the new content goes into        *)
(* path+".tmp", which is then renamed to the path.  Every writer of a file *)
(* uses the same temporary name, and no lock is taken.                     *)
(*                                                                         *)
(* Source: internal/fsmodel writeJSON, and writeJSONFile of internal/cli,  *)
(* which ignores the errors.  internal/graph, configloader, manifest,      *)
(* ledger and plan hold copies of the former.                              *)
(*                                                                         *)
(* A name is a reference to an inode, and a writer keeps the inode it has  *)
(* open: a rename under way does not stop its write.  What one write call  *)
(* puts into a file is there all at once, or not at all when the writer    *)
(* dies before or the write fails; the truncation that comes first is a    *)
(* step of its own.                                                        *)
(* Every write has a number, which is the content it writes.               *)
(***************************************************************************)
EXTENDS Naturals

CONSTANTS
    Writers,
    Careless,    \* the writers that use writeJSONFile
    Blocks,      \* bound: inodes; as many as writers and one more suffice
    NoBlock,     \* no file
    MaxWrites    \* bound: writes

ASSUME AtomicFileAssumption ==
    /\ Careless \subseteq Writers
    /\ NoBlock \notin Blocks
    /\ MaxWrites \in Nat

VARIABLES
    file,        \* the inode the path names
    tmp,         \* the inode path+".tmp" names
    content,     \* the number of the write an inode holds, 0 while it is empty
    writing,     \* the write each writer is at: its number, its place, its inode,
                 \*   and whether it failed and the writer went on
    written,     \* writes so far
    renamed,     \* the write that was renamed last
    blind,       \* and that it had failed
    overlapped   \* two writers have been at it together

wvars == <<file, tmp, content, writing, written, renamed, blind, overlapped>>

Done == [at |-> "done", number |-> 0, block |-> NoBlock, failed |-> FALSE]

FileTypeOK ==
    /\ file \in Blocks \cup {NoBlock}
    /\ tmp \in Blocks \cup {NoBlock}
    /\ content \in [Blocks -> Nat]
    /\ writing \in [Writers -> [at : {"done", "opened", "filled"}, number : Nat,
                                block : Blocks \cup {NoBlock}, failed : BOOLEAN]]
    /\ written \in Nat
    /\ renamed \in Nat
    /\ blind \in BOOLEAN
    /\ overlapped \in BOOLEAN

FileInit ==
    /\ file = NoBlock
    /\ tmp = NoBlock
    /\ content = [b \in Blocks |-> 0]
    /\ writing = [w \in Writers |-> Done]
    /\ written = 0
    /\ renamed = 0
    /\ blind = FALSE
    /\ overlapped = FALSE

Unused(b) == b \notin {file, tmp} /\ \A w \in Writers : writing[w].block # b

\* overlapped is bookkeeping.  A writer that died has left the file behind, and
\* is no longer at it.
Begin(w, write) ==
    /\ written < MaxWrites
    /\ writing[w] = Done
    /\ written' = written + 1
    /\ writing' = [writing EXCEPT ![w] = write]
    /\ overlapped' = (overlapped \/ \E v \in Writers : writing[v] # Done)

BeginOn(w, b) ==
    /\ Begin(w, [at |-> "opened", number |-> written + 1, block |-> b, failed |-> FALSE])
    /\ content' = [content EXCEPT ![b] = 0]

\* Wrong variant: the file itself is truncated and written.
OpenInPlace(w) ==
    \E b \in Blocks :
        /\ IF file = NoBlock THEN Unused(b) ELSE b = file
        /\ BeginOn(w, b)
        /\ tmp' = b
        /\ UNCHANGED <<file, renamed, blind>>

\* os.WriteFile: open with O_CREATE and O_TRUNC ...
OpenTemp(w) ==
    \E b \in Blocks :
        /\ IF tmp = NoBlock THEN Unused(b) ELSE b = tmp
        /\ BeginOn(w, b)
        /\ tmp' = b
        /\ UNCHANGED <<file, renamed, blind>>

\* It cannot be opened.  writeJSON returns; writeJSONFile goes on to rename what
\* an earlier writer may have left.
OpenFails(w) ==
    /\ w \in Careless
    /\ Begin(w, [at |-> "filled", number |-> written + 1, block |-> NoBlock, failed |-> TRUE])
    /\ UNCHANGED <<file, tmp, content, renamed, blind>>

\* ... and write.
Fill(w) ==
    /\ writing[w].at = "opened"
    /\ content' = [content EXCEPT ![writing[w].block] = writing[w].number]
    /\ writing' = [writing EXCEPT ![w].at = "filled"]
    /\ UNCHANGED <<file, tmp, written, renamed, blind, overlapped>>

\* The write fails, on a full disk: what there is of the temporary file stays.
FillFails(w) ==
    /\ writing[w].at = "opened"
    /\ writing' = [writing EXCEPT ![w] =
                      IF w \in Careless THEN [@ EXCEPT !.at = "filled", !.failed = TRUE]
                                        ELSE Done]
    /\ UNCHANGED <<file, tmp, content, written, renamed, blind, overlapped>>

\* os.Rename of what the temporary name stands for by now; it fails when there
\* is nothing any more.
Rename(w) ==
    /\ writing[w].at = "filled"
    /\ writing' = [writing EXCEPT ![w] = Done]
    /\ IF tmp # NoBlock
       THEN /\ file' = tmp /\ tmp' = NoBlock
            /\ renamed' = writing[w].number /\ blind' = writing[w].failed
       ELSE UNCHANGED <<file, tmp, renamed, blind>>
    /\ UNCHANGED <<content, written, overlapped>>

\* The process dies, and leaves its temporary file.
WriterDies(w) ==
    /\ writing[w] # Done
    /\ writing' = [writing EXCEPT ![w] = Done]
    /\ UNCHANGED <<file, tmp, content, written, renamed, blind, overlapped>>

FileStep(w) ==
    \/ OpenTemp(w) \/ OpenFails(w) \/ Fill(w) \/ FillFails(w) \/ Rename(w) \/ WriterDies(w)

FileNext == \E w \in Writers : FileStep(w)
FileSpec == FileInit /\ [][FileNext]_wvars

-----------------------------------------------------------------------------
\* A reader finds what the last completed write put there, whole, and nothing of
\* a write that did not complete, whichever writers died or failed half-way - as
\* long as no two writes overlapped, and the last to rename was not a writer
\* that did not look whether its write had failed (cli.go:1129).
ReadsLastWrite ==
    ~overlapped /\ ~blind => IF file = NoBlock THEN renamed = 0
                                               ELSE content[file] = renamed /\ renamed > 0

\* Why: the path's inode is no writer's and not the temporary file's, a writer's
\* inode is the temporary file, and nobody else is at it.
FileInv ==
    /\ FileTypeOK
    /\ ~overlapped =>
        /\ ReadsLastWrite
        /\ file # NoBlock => file # tmp
        /\ \A w \in Writers : writing[w] # Done =>
              /\ writing[w].number > 0
              /\ ~writing[w].failed => writing[w].block = tmp /\ tmp # NoBlock
              /\ writing[w].failed => writing[w].at = "filled"
              /\ writing[w].at = "filled" /\ ~writing[w].failed
                    => content[tmp] = writing[w].number
              /\ \A v \in Writers : writing[v] # Done => v = w
=============================================================================
