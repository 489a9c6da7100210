----------------------------- MODULE EventStore -----------------------------
(***************************************************************************)
(* The SQLite store of the daemon: the table protocol_events (an append-   *)
(* only log, its row id is the position in the sequence) and the table     *)
(* storage_items (the simulated chrome.storage of every extension).        *)
(*                                                                         *)
(* Source: internal/store/sqlite_event_store.go, sqlite_storage_state.go.  *)
(*                                                                         *)
(* Every statement of the code runs alone or inside one SQLite             *)
(* transaction, so an operation here is one step that either happens       *)
(* entirely or, on any database error, not at all.  Storage areas are      *)
(* folded into keys: the model follows one area, whose keys are Keys.      *)
(* Stored values are abstract, and None is "no row for this key".          *)
(***************************************************************************)
EXTENDS Naturals, Sequences, FiniteSets

CONSTANTS
    Exts,          \* extension ids
    DefaultExt,    \* "default", the id a row gets when no extension is named
    NoExt,         \* "", no extension named
    Keys,          \* the keys of the storage area
    Values,        \* the values a key may hold
    None,          \* no value
    DefaultLimit,  \* defaultRecentLimit
    MaxLimit       \* maxRecentLimit

ASSUME StoreAssumption ==
    /\ DefaultExt \in Exts
    /\ NoExt \notin Exts
    /\ None \notin Values
    /\ DefaultLimit \in Nat \ {0}
    /\ MaxLimit \in Nat \ {0}

VARIABLES
    events,   \* protocol_events, in row-id order
    items     \* storage_items

storeVars == <<events, items>>

(***************************************************************************)
(* The names of the envelopes the daemon persists.  A storage.diff names   *)
(* the keys it changes and the one new value they all take (None: they     *)
(* were deleted); a build event names the build it belongs to.             *)
(***************************************************************************)
EventNames == {"hello", "hello.ack", "storage.diff", "build.complete",
               "command.reload", "chrome.api.event"}

Event == [name : EventNames, ext : Exts, keys : SUBSET Keys,
          to : Values \cup {None}, build : Nat]

StoreTypeOK ==
    /\ events \in Seq(Event)
    /\ items \in [Exts -> [Keys -> Values \cup {None}]]

NormalizeExt(x) == IF x = NoExt THEN DefaultExt ELSE x

\* Wrong variants, for the runs to reject: no default for an unnamed extension.
UnnamedPlainEvent(name, x, build) ==
    [name |-> name, ext |-> x, keys |-> {}, to |-> None, build |-> build]
UnnamedDiffEvent(x, ks, v) ==
    [name |-> "storage.diff", ext |-> x, keys |-> ks, to |-> v, build |-> 0]

PlainEvent(name, x, build) ==
    [name |-> name, ext |-> NormalizeExt(x), keys |-> {}, to |-> None,
     build |-> build]

DiffEvent(x, ks, v) ==
    [name |-> "storage.diff", ext |-> NormalizeExt(x), keys |-> ks, to |-> v,
     build |-> 0]

-----------------------------------------------------------------------------
\* Append: one row, no change to the storage.
AppendEvent(name, x, build) ==
    /\ events' = Append(events, PlainEvent(name, x, build))
    /\ UNCHANGED items

\* Wrong variant: the event is committed without the row change.
CommitEventOnly(x, ks, v) ==
    events' = Append(events, DiffEvent(x, ks, v)) /\ UNCHANGED items

\* The row change and the storage.diff event of one mutation, in one transaction.
CommitDiff(x, ks, v) ==
    /\ events' = Append(events, DiffEvent(x, ks, v))
    /\ items' = [items EXCEPT ![NormalizeExt(x)] =
                    [k \in Keys |-> IF k \in ks THEN v ELSE @[k]]]

Held(x) == {k \in Keys : items[NormalizeExt(x)][k] # None}

\* Wrong variant: a deletion that does not look whether there is a row.
RemoveBlindly(x, k) == CommitDiff(x, {k}, None)

\* The three mutations; Remove and Clear are guarded by "there is a row".
SetStorageItem(x, k, v) == CommitDiff(x, {k}, v)
RemoveStorageItem(x, k) == k \in Held(x) /\ CommitDiff(x, {k}, None)
ClearStorageArea(x)     == Held(x) # {} /\ CommitDiff(x, Held(x), None)

-----------------------------------------------------------------------------
BoundLimit(l) == IF l <= 0 THEN DefaultLimit
                 ELSE IF l > MaxLimit THEN MaxLimit ELSE l

Matching(before, x) ==
    {i \in DOMAIN events : /\ before = 0 \/ i < before
                           /\ x = NoExt \/ events[i].ext = x}

\* The newest n members of a set of row ids.
Newest(S, n) == {i \in S : Cardinality({j \in S : j > i}) < n}

\* Wrong variant: the query asks for no row beyond the page.
RecentExactly(limit, before, x) ==
    LET rows == Newest(Matching(before, x), BoundLimit(limit))
    IN  [ids |-> rows, more |-> Cardinality(rows) > BoundLimit(limit)]

\* Recent: a page of row ids (their order is the chronological one) and has_more.
\* The query asks for one row more than the page holds.
Recent(limit, before, x) ==
    LET n    == BoundLimit(limit)
        rows == Newest(Matching(before, x), n + 1)
    IN  [ids |-> Newest(rows, n), more |-> Cardinality(rows) > n]

-----------------------------------------------------------------------------
StoreInit == /\ events = <<>>
             /\ items = [x \in Exts |-> [k \in Keys |-> None]]

\* What the daemon can have written; the row of a build event names its build.
StoreWrites(builds) ==
    \/ \E name \in EventNames \ {"storage.diff"}, x \in Exts \cup {NoExt}, build \in builds :
            AppendEvent(name, x, build)
    \/ \E x \in Exts \cup {NoExt}, k \in Keys, v \in Values : SetStorageItem(x, k, v)
    \/ \E x \in Exts \cup {NoExt}, k \in Keys : RemoveStorageItem(x, k)
    \/ \E x \in Exts \cup {NoExt} : ClearStorageArea(x)

StoreNext == StoreWrites(Nat)
StoreSpec == StoreInit /\ [][StoreNext]_storeVars

-----------------------------------------------------------------------------
(***************************************************************************)
(* What the two tables owe each other.                                     *)
(***************************************************************************)

\* The events that say something about key k of extension x.
DiffsOf(x, k) == {i \in DOMAIN events : /\ events[i].name = "storage.diff"
                                        /\ events[i].ext = x
                                        /\ k \in events[i].keys}

\* The storage an observer rebuilds by replaying the persisted storage.diff
\* events is the storage the daemon answers queries from, also after a restart:
\* each row holds what the last diff about it says, and no row exists that no
\* diff speaks of (the two are written in one transaction, build-log PR 87).
ReplayMatchesItems ==
    \A x \in Exts, k \in Keys :
        \/ DiffsOf(x, k) = {} /\ items[x][k] = None
        \/ \E i \in DiffsOf(x, k) :
               /\ \A j \in DiffsOf(x, k) : j <= i
               /\ items[x][k] = events[i].to

\* A diff is never empty and a deletion deletes something: Remove and Clear
\* answer "not changed", and persist nothing, when there is no row to delete.
NoIdleDiff ==
    [][\A i \in DOMAIN events' \ DOMAIN events :
          events'[i].name = "storage.diff" =>
             /\ events'[i].keys # {}
             /\ events'[i].to = None =>
                   \A k \in events'[i].keys : items[events'[i].ext][k] # None
      ]_storeVars

\* Paging backwards with before_id = the oldest id of the page just read loses
\* nothing: a page says has_more exactly when the page before it is not empty,
\* and no matching row lies between two consecutive pages.
PagesAreContiguous(limits) ==
    \A l \in limits, b \in 0..Len(events), x \in Exts \cup {NoExt} :
        LET page   == Recent(l, b, x)
            oldest == CHOOSE i \in page.ids : \A j \in page.ids : i <= j
            older  == Recent(l, oldest, x)
        IN  page.ids # {} =>
              /\ page.more <=> older.ids # {}
              /\ \A i \in Matching(b, x) : i \in page.ids \cup Matching(oldest, x)
              /\ Cardinality(page.ids) <= BoundLimit(l)

\* The limits on both sides of the bounds of boundLimit: those above MaxLimit are
\* all cut off the same way.
PagesContiguous == PagesAreContiguous(0..MaxLimit + 1)
=============================================================================
