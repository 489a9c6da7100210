-------------------------- MODULE EventStore_proofs --------------------------
(* The two tables of the store, for any extensions, keys and values.        *)
EXTENDS EventStore, FiniteSetTheorems, WellFoundedInduction, TLAPS

USE StoreAssumption

LEMMA NormalizeExtType == ASSUME NEW x \in Exts \cup {NoExt} PROVE NormalizeExt(x) \in Exts
  BY DEF NormalizeExt

LEMMA PlainEventType ==
  ASSUME NEW name \in EventNames, NEW x \in Exts \cup {NoExt}, NEW b \in Nat
  PROVE  PlainEvent(name, x, b) \in Event
  BY NormalizeExtType DEF PlainEvent, Event

LEMMA DiffEventType ==
  ASSUME NEW x \in Exts \cup {NoExt}, NEW ks \in SUBSET Keys, NEW v \in Values \cup {None}
  PROVE  DiffEvent(x, ks, v) \in Event
  BY NormalizeExtType DEF DiffEvent, Event, EventNames

\* The three mutations are commits of a diff about at least one key, and a
\* deletion is about keys that hold something.
LEMMA MutationsCommit ==
  ASSUME NEW x \in Exts \cup {NoExt},
         \/ \E k \in Keys, v \in Values : SetStorageItem(x, k, v)
         \/ \E k \in Keys : RemoveStorageItem(x, k)
         \/ ClearStorageArea(x)
  PROVE  \E ks \in SUBSET Keys, v \in Values \cup {None} :
            /\ CommitDiff(x, ks, v)
            /\ ks # {}
            /\ v = None => ks \subseteq Held(x)
<1>1. CASE \E k \in Keys, v \in Values : SetStorageItem(x, k, v)
  <2> PICK k \in Keys, v \in Values : SetStorageItem(x, k, v)
    BY <1>1
  <2> WITNESS {k} \in SUBSET Keys, v \in Values \cup {None}
  <2> QED BY DEF SetStorageItem
<1>2. CASE \E k \in Keys : RemoveStorageItem(x, k)
  <2> PICK k \in Keys : RemoveStorageItem(x, k)
    BY <1>2
  <2> WITNESS {k} \in SUBSET Keys, None \in Values \cup {None}
  <2> QED BY DEF RemoveStorageItem
<1>3. CASE ClearStorageArea(x)
  <2> Held(x) \in SUBSET Keys
    BY DEF Held
  <2> WITNESS Held(x) \in SUBSET Keys, None \in Values \cup {None}
  <2> QED BY <1>3 DEF ClearStorageArea
<1> QED BY <1>1, <1>2, <1>3

\* What a row at the end of the log does to the diffs about one key.
LEMMA DiffsAfterAppend ==
  ASSUME StoreTypeOK, NEW e \in Event, events' = Append(events, e),
         NEW x \in Exts, NEW k \in Keys
  PROVE  DiffsOf(x, k)' = IF e.name = "storage.diff" /\ e.ext = x /\ k \in e.keys
                          THEN DiffsOf(x, k) \cup {Len(events) + 1}
                          ELSE DiffsOf(x, k)
  BY DEF StoreTypeOK, DiffsOf

LEMMA AppendKeepsReplay ==
  ASSUME StoreTypeOK, ReplayMatchesItems,
         NEW name \in EventNames \ {"storage.diff"}, NEW x \in Exts \cup {NoExt},
         NEW b \in Nat, AppendEvent(name, x, b)
  PROVE  StoreTypeOK' /\ ReplayMatchesItems'
<1> DEFINE e == PlainEvent(name, x, b)
<1>1. e \in Event
  BY PlainEventType
<1>2. StoreTypeOK'
  BY <1>1 DEF AppendEvent, StoreTypeOK
<1>3. ASSUME NEW y \in Exts, NEW k \in Keys
      PROVE  DiffsOf(y, k)' = DiffsOf(y, k)
  BY <1>1, DiffsAfterAppend DEF AppendEvent, PlainEvent
<1>4. ASSUME NEW y \in Exts, NEW k \in Keys, NEW i \in DiffsOf(y, k)
      PROVE  events'[i] = events[i]
  BY DEF AppendEvent, DiffsOf, StoreTypeOK
<1>5. items' = items
  BY DEF AppendEvent
<1>6. ASSUME NEW y \in Exts, NEW k \in Keys
      PROVE  \/ DiffsOf(y, k)' = {} /\ items'[y][k] = None
             \/ \E i \in DiffsOf(y, k)' :
                   /\ \A j \in DiffsOf(y, k)' : j <= i
                   /\ items'[y][k] = events'[i].to
  BY <1>3, <1>4, <1>5 DEF ReplayMatchesItems
<1>7. ReplayMatchesItems'
  BY <1>6 DEF ReplayMatchesItems
<1> QED BY <1>2, <1>7

LEMMA CommitKeepsReplay ==
  ASSUME StoreTypeOK, ReplayMatchesItems,
         NEW x \in Exts \cup {NoExt}, NEW ks \in SUBSET Keys,
         NEW v \in Values \cup {None}, CommitDiff(x, ks, v)
  PROVE  StoreTypeOK' /\ ReplayMatchesItems'
<1> DEFINE e == DiffEvent(x, ks, v)
           n == NormalizeExt(x)
<1>1. e \in Event /\ n \in Exts
  BY DiffEventType, NormalizeExtType
<1>2. StoreTypeOK'
  BY <1>1 DEF CommitDiff, StoreTypeOK
<1>3. ASSUME NEW y \in Exts, NEW k \in Keys
      PROVE  \/ DiffsOf(y, k)' = {} /\ items'[y][k] = None
             \/ \E i \in DiffsOf(y, k)' :
                   /\ \A j \in DiffsOf(y, k)' : j <= i
                   /\ items'[y][k] = events'[i].to
  <2>1. CASE y = n /\ k \in ks
    <3> DEFINE new == Len(events) + 1
    <3>1. DiffsOf(y, k)' = DiffsOf(y, k) \cup {new}
      BY <1>1, <2>1, DiffsAfterAppend DEF CommitDiff, DiffEvent
    <3>2. \A j \in DiffsOf(y, k)' : j <= new
      BY <3>1 DEF DiffsOf, StoreTypeOK
    <3>3. items'[y][k] = v /\ events'[new].to = v
      BY <1>1, <2>1 DEF CommitDiff, DiffEvent, StoreTypeOK
    <3> QED BY <3>1, <3>2, <3>3
  <2>2. CASE ~(y = n /\ k \in ks)
    <3>1. DiffsOf(y, k)' = DiffsOf(y, k)
      BY <1>1, <2>2, DiffsAfterAppend DEF CommitDiff, DiffEvent
    <3>2. items'[y][k] = items[y][k]
      BY <1>1, <2>2 DEF CommitDiff, StoreTypeOK
    <3>3. \A i \in DiffsOf(y, k) : events'[i] = events[i]
      BY <1>1 DEF CommitDiff, DiffsOf, StoreTypeOK
    <3> QED BY <3>1, <3>2, <3>3 DEF ReplayMatchesItems
  <2> QED BY <2>1, <2>2
<1>4. ReplayMatchesItems'
  BY <1>3 DEF ReplayMatchesItems
<1> QED BY <1>2, <1>4

-----------------------------------------------------------------------------
LEMMA StoreStep ==
  ASSUME StoreTypeOK, ReplayMatchesItems, [StoreNext]_storeVars
  PROVE  StoreTypeOK' /\ ReplayMatchesItems'
<1>1. ASSUME NEW name \in EventNames \ {"storage.diff"}, NEW x \in Exts \cup {NoExt},
             NEW build \in Nat, AppendEvent(name, x, build)
      PROVE  StoreTypeOK' /\ ReplayMatchesItems'
  BY <1>1, AppendKeepsReplay
<1>2. ASSUME NEW x \in Exts \cup {NoExt},
             \/ \E k \in Keys, v \in Values : SetStorageItem(x, k, v)
             \/ \E k \in Keys : RemoveStorageItem(x, k)
             \/ ClearStorageArea(x)
      PROVE  StoreTypeOK' /\ ReplayMatchesItems'
  BY <1>2, MutationsCommit, CommitKeepsReplay
<1>3. CASE UNCHANGED storeVars
  BY <1>3 DEF storeVars, StoreTypeOK, ReplayMatchesItems, DiffsOf
<1> QED BY <1>1, <1>2, <1>3 DEF StoreNext, StoreWrites

LEMMA StoreInitOK == StoreInit => StoreTypeOK /\ ReplayMatchesItems
  BY DEF StoreInit, StoreTypeOK, ReplayMatchesItems, DiffsOf

LEMMA StoreInvariant == StoreSpec => [](StoreTypeOK /\ ReplayMatchesItems)
  BY StoreInitOK, StoreStep, PTL DEF StoreSpec

\* The log is a sequence of well-formed events and every row belongs to a named
\* extension, also when the request named none.
THEOREM StoreTypes == StoreSpec => []StoreTypeOK
  BY StoreInvariant, PTL

\* Replaying the log gives the storage, for every history of operations.
THEOREM ReplayIsStorage == StoreSpec => []ReplayMatchesItems
  BY StoreInvariant, PTL

\* The store never persists a diff that changes nothing.
THEOREM DiffsChangeSomething == StoreSpec => NoIdleDiff
<1> DEFINE A == \A i \in DOMAIN events' \ DOMAIN events :
                  events'[i].name = "storage.diff" =>
                    /\ events'[i].keys # {}
                    /\ events'[i].to = None =>
                         \A k \in events'[i].keys : items[events'[i].ext][k] # None
<1>1. ASSUME StoreTypeOK, StoreNext PROVE A
  <2>1. ASSUME NEW name \in EventNames \ {"storage.diff"}, NEW x \in Exts \cup {NoExt},
               NEW build \in Nat, AppendEvent(name, x, build)
        PROVE  A
    BY <1>1, <2>1, PlainEventType DEF AppendEvent, PlainEvent, StoreTypeOK
  <2>2. ASSUME NEW x \in Exts \cup {NoExt},
               \/ \E k \in Keys, v \in Values : SetStorageItem(x, k, v)
               \/ \E k \in Keys : RemoveStorageItem(x, k)
               \/ ClearStorageArea(x)
        PROVE  A
    <3>1. PICK ks \in SUBSET Keys, v \in Values \cup {None} :
                 CommitDiff(x, ks, v) /\ ks # {} /\ (v = None => ks \subseteq Held(x))
      BY <2>2, MutationsCommit
    <3>2. ASSUME NEW i \in DOMAIN events' \ DOMAIN events
          PROVE  events'[i] = DiffEvent(x, ks, v)
      BY <1>1, <3>1, DiffEventType DEF CommitDiff, StoreTypeOK
    <3> QED BY <3>1, <3>2 DEF DiffEvent, Held
  <2> QED BY <1>1, <2>1, <2>2 DEF StoreNext, StoreWrites
<1>2. StoreTypeOK /\ [StoreNext]_storeVars => [A]_storeVars
  BY <1>1
<1> QED BY StoreTypes, <1>2, PTL DEF StoreSpec, NoIdleDiff

-----------------------------------------------------------------------------
(* Pages of the log.                                                        *)

\* Every set of row ids has a least member: the order of the naturals is well
\* founded, which the library proves.
LEMMA HasOldest ==
  ASSUME NEW S \in SUBSET Nat, S # {}
  PROVE  \E x \in S : \A y \in S : x <= y
<1> DEFINE R == {ss \in Nat \X Nat : ss[1] < ss[2]}
<1>1. IsWellFoundedOn(R, Nat)
  BY NatLessThanWellFounded DEF OpToRel
<1> HIDE DEF R
<1>2. PICK x \in S : \A y \in S : ~(<<y, x>> \in R)
  BY <1>1, WFMin
<1>3. ASSUME NEW y \in S PROVE x <= y
  <2>1. <<y, x>> \in Nat \X Nat /\ x \in Nat /\ y \in Nat
    OBVIOUS
  <2>2. ~(y < x)
    BY <1>2, <2>1 DEF R
  <2> QED BY <2>1, <2>2
<1> QED BY <1>3

\* And a bounded one has a greatest member.
LEMMA HasNewest ==
  ASSUME NEW N \in Nat, NEW S \in SUBSET (0..N), S # {}
  PROVE  \E x \in S : \A y \in S : y <= x
<1> DEFINE T == {k \in 0..N : N - k \in S}
<1>1. T \in SUBSET Nat /\ T # {}
  <2> PICK s \in S : TRUE
    OBVIOUS
  <2>1. s \in 0..N
    OBVIOUS
  <2>2. N - s \in 0..N /\ N - (N - s) = s
    BY <2>1
  <2>3. N - s \in T
    BY <2>2
  <2>4. T \in SUBSET Nat
    OBVIOUS
  <2> QED BY <2>3, <2>4
<1>2. PICK k \in T : \A j \in T : k <= j
  BY <1>1, HasOldest
<1>3. N - k \in S
  BY DEF T
<1>4. ASSUME NEW y \in S PROVE y <= N - k
  <2>1. N - y \in T
    <3> N - y \in 0..N /\ N - (N - y) = y
      OBVIOUS
    <3> QED OBVIOUS
  <2> QED BY <1>2, <2>1
<1> QED BY <1>3, <1>4

Above(S, i) == {j \in S : j > i}

LEMMA AboveIsFinite ==
  ASSUME NEW S \in SUBSET Nat, IsFiniteSet(S), NEW i
  PROVE  /\ Above(S, i) \in SUBSET S /\ IsFiniteSet(Above(S, i))
         /\ Cardinality(Above(S, i)) \in Nat
<1>1. Above(S, i) \in SUBSET S
  BY DEF Above
<1> QED BY <1>1, FS_Subset, FS_CardinalityType

LEMMA NewestIsFinite ==
  ASSUME NEW S \in SUBSET Nat, IsFiniteSet(S), NEW n
  PROVE  /\ Newest(S, n) \in SUBSET S /\ Newest(S, n) \in SUBSET Nat
         /\ IsFiniteSet(Newest(S, n)) /\ Cardinality(Newest(S, n)) \in Nat
<1>1. Newest(S, n) \in SUBSET S
  BY DEF Newest
<1> QED BY <1>1, FS_Subset, FS_CardinalityType

\* The newest rows are the end of the log.
LEMMA NewestIsSuffix ==
  ASSUME NEW S \in SUBSET Nat, IsFiniteSet(S), NEW n \in Nat,
         NEW h \in Newest(S, n), NEW i \in S, h <= i
  PROVE  i \in Newest(S, n)
<1>1. h \in Nat /\ i \in Nat /\ Cardinality(Above(S, h)) < n
  BY DEF Newest, Above
<1>2. Above(S, i) \in SUBSET Above(S, h)
  <2> SUFFICES ASSUME NEW j \in S, j > i PROVE j > h
    BY DEF Above
  <2>1. j \in Nat
    OBVIOUS
  <2> QED BY <1>1, <2>1
<1>3. Cardinality(Above(S, i)) <= Cardinality(Above(S, h))
  BY <1>2, AboveIsFinite, FS_Subset
<1>4. Cardinality(Above(S, i)) < n
  BY <1>1, <1>3, AboveIsFinite
<1> QED BY <1>4 DEF Newest, Above

\* There are no more than were asked for.
LEMMA NewestFits ==
  ASSUME NEW S \in SUBSET Nat, IsFiniteSet(S), NEW n \in Nat
  PROVE  Cardinality(Newest(S, n)) <= n
<1>1. CASE Newest(S, n) = {}
  BY <1>1, FS_EmptySet
<1>2. CASE Newest(S, n) # {}
  <2>1. PICK o \in Newest(S, n) : \A i \in Newest(S, n) : o <= i
    BY <1>2, NewestIsFinite, HasOldest
  <2>2. o \in S /\ Cardinality(Above(S, o)) < n
    BY DEF Newest, Above
  <2>3. Newest(S, n) \in SUBSET (Above(S, o) \cup {o})
    BY <2>1, <2>2, NewestIsFinite DEF Above
  <2>4. /\ IsFiniteSet(Above(S, o) \cup {o})
        /\ Cardinality(Above(S, o) \cup {o}) <= Cardinality(Above(S, o)) + 1
        /\ Cardinality(Above(S, o)) \in Nat
    <3>1. IsFiniteSet(Above(S, o)) /\ Cardinality(Above(S, o)) \in Nat
      BY AboveIsFinite
    <3>2. /\ IsFiniteSet(Above(S, o) \cup {o})
          /\ Cardinality(Above(S, o) \cup {o}) =
                IF o \in Above(S, o) THEN Cardinality(Above(S, o))
                ELSE Cardinality(Above(S, o)) + 1
      BY <3>1, FS_AddElement
    <3> HIDE DEF Above
    <3> QED BY <3>1, <3>2
  <2>5. /\ Cardinality(Newest(S, n)) <= Cardinality(Above(S, o) \cup {o})
        /\ Cardinality(Above(S, o) \cup {o}) \in Nat
    BY <2>3, <2>4, FS_Subset, FS_CardinalityType
  <2> QED BY <2>2, <2>4, <2>5, NewestIsFinite
<1> QED BY <1>1, <1>2

\* To ask for one row more and leave it out is to ask for the page.
LEMMA NewestOfNewest ==
  ASSUME NEW S \in SUBSET Nat, IsFiniteSet(S), NEW n \in Nat
  PROVE  Newest(Newest(S, n + 1), n) = Newest(S, n)
<1> DEFINE T == Newest(S, n + 1)
<1>1. T \in SUBSET S /\ T \in SUBSET Nat /\ IsFiniteSet(T)
  BY NewestIsFinite
<1>2. ASSUME NEW i \in T PROVE Above(T, i) = Above(S, i)
  <2>1. \A j \in S : j > i => j \in T
    <3> SUFFICES ASSUME NEW j \in S, j > i PROVE j \in T
      OBVIOUS
    <3>1. i <= j
      BY <1>1
    <3> QED BY <3>1, NewestIsSuffix
  <2> HIDE DEF T
  <2> QED BY <1>1, <2>1 DEF Above
<1>3. Newest(S, n) \in SUBSET T
  <2> SUFFICES ASSUME NEW i \in S, Cardinality(Above(S, i)) < n PROVE i \in T
    BY DEF Newest, Above
  <2>1. Cardinality(Above(S, i)) < n + 1
    BY AboveIsFinite
  <2> QED BY <2>1 DEF Newest, Above
<1>4. \A i : i \in Newest(T, n) <=> i \in T /\ Cardinality(Above(T, i)) < n
  BY DEF Newest, Above
<1>5. \A i : i \in Newest(S, n) <=> i \in S /\ Cardinality(Above(S, i)) < n
  BY DEF Newest, Above
<1> HIDE DEF T
<1>6. \A i : i \in Newest(T, n) <=> i \in Newest(S, n)
  BY <1>1, <1>2, <1>3, <1>4, <1>5
<1>7. Newest(T, n) = Newest(S, n)
  BY <1>6
<1> QED BY <1>7 DEF T

\* If there is a row, there is a newest row.
LEMMA NewestIsThere ==
  ASSUME NEW N \in Nat, NEW S \in SUBSET (0..N), S # {}, NEW n \in Nat \ {0}
  PROVE  Newest(S, n) # {}
<1>1. PICK x \in S : \A y \in S : y <= x
  BY HasNewest
<1>2. {j \in S : j > x} = {}
  <2> SUFFICES ASSUME NEW j \in S PROVE ~(j > x)
    OBVIOUS
  <2>1. j \in 0..N /\ x \in 0..N /\ j <= x
    BY <1>1
  <2> QED BY <2>1
<1>3. x \in Newest(S, n)
  BY <1>2, FS_EmptySet DEF Newest
<1> QED BY <1>3

\* What is not on the page is older than the page, and there is such a row if and
\* only if the query returns one more than the page holds.
LEMMA OlderThanPage ==
  ASSUME NEW N \in Nat, NEW S \in SUBSET (0..N), NEW n \in Nat \ {0},
         NEW o \in Newest(S, n), \A i \in Newest(S, n) : o <= i
  PROVE  /\ \A i \in S : i \in Newest(S, n) \/ i < o
         /\ Cardinality(Newest(S, n + 1)) > n <=> {i \in S : i < o} # {}
<1>1. S \in SUBSET Nat /\ IsFiniteSet(S) /\ o \in S /\ o \in Nat
  <2>1. IsFiniteSet(0..N)
    BY FS_Interval
  <2>2. IsFiniteSet(S)
    BY <2>1, FS_Subset
  <2>3. S \in SUBSET Nat /\ o \in S
    BY DEF Newest
  <2> QED BY <2>2, <2>3
<1>2. ASSUME NEW i \in S PROVE i \in Newest(S, n) \/ i < o
  <2>1. ~(i < o) => o <= i
    BY <1>1
  <2> QED BY <1>1, <2>1, NewestIsSuffix
<1>3. ASSUME Cardinality(Newest(S, n + 1)) > n PROVE {i \in S : i < o} # {}
  <2>1. ~(Newest(S, n + 1) \in SUBSET Newest(S, n))
    <3>1. Cardinality(Newest(S, n)) <= n
      BY <1>1, NewestFits
    <3>2. Newest(S, n + 1) \in SUBSET Newest(S, n)
          => Cardinality(Newest(S, n + 1)) <= Cardinality(Newest(S, n))
      BY <1>1, NewestIsFinite, FS_Subset
    <3> QED BY <1>1, <1>3, <3>1, <3>2, NewestIsFinite
  <2>2. PICK r \in Newest(S, n + 1) : r \notin Newest(S, n)
    BY <2>1
  <2>3. r \in S
    BY DEF Newest
  <2> QED BY <1>2, <2>2, <2>3
<1>4. ASSUME {i \in S : i < o} # {} PROVE Cardinality(Newest(S, n + 1)) > n
  <2>1. PICK r \in {i \in S : i < o} : \A i \in {j \in S : j < o} : i <= r
    BY <1>4, HasNewest
  <2>2. r \in S /\ r \in Nat /\ r < o
    BY <2>1
  <2>3. r \notin Newest(S, n)
    BY <1>1, <2>2
  <2>4. Cardinality(Above(S, r)) >= n
    BY <1>1, <2>2, <2>3, AboveIsFinite DEF Newest, Above
  <2>5. Above(S, r) \in SUBSET Newest(S, n)
    <3> SUFFICES ASSUME NEW j \in S, j > r PROVE j \in Newest(S, n)
      BY DEF Above
    <3>1. ~(j < o)
      BY <1>1, <2>1, <2>2
    <3> QED BY <1>2, <3>1
  <2>6. Cardinality(Above(S, r)) <= n
    <3>1. Cardinality(Newest(S, n)) <= n
      BY <1>1, NewestFits
    <3>2. Cardinality(Above(S, r)) <= Cardinality(Newest(S, n))
      BY <1>1, <2>5, NewestIsFinite, FS_Subset
    <3> QED BY <1>1, <3>1, <3>2, NewestIsFinite, AboveIsFinite
  <2>7. r \in Newest(S, n + 1)
    <3> Cardinality(Above(S, r)) < n + 1
      BY <1>1, <2>6, AboveIsFinite
    <3> QED BY <2>2 DEF Newest, Above
  <2>8. (Above(S, r) \cup {r}) \in SUBSET Newest(S, n + 1)
    <3> SUFFICES ASSUME NEW j \in S, j > r PROVE j \in Newest(S, n + 1)
      BY <2>7 DEF Above
    <3>1. r <= j
      BY <1>1, <2>2
    <3> QED BY <1>1, <2>7, <3>1, NewestIsSuffix
  <2>9. /\ Cardinality(Above(S, r) \cup {r}) = Cardinality(Above(S, r)) + 1
        /\ IsFiniteSet(Above(S, r) \cup {r})
    <3> r \notin Above(S, r)
      BY <2>2 DEF Above
    <3> QED BY <1>1, AboveIsFinite, FS_AddElement
  <2>10. Cardinality(Above(S, r) \cup {r}) <= Cardinality(Newest(S, n + 1))
    BY <1>1, <2>8, NewestIsFinite, FS_Subset
  <2> QED BY <1>1, <2>4, <2>9, <2>10, NewestIsFinite, AboveIsFinite
<1> QED BY <1>2, <1>3, <1>4

LEMMA MatchingIsFinite ==
  ASSUME StoreTypeOK, NEW b \in Nat, NEW x
  PROVE  /\ Len(events) \in Nat /\ Matching(b, x) \in SUBSET (0..Len(events))
         /\ Matching(b, x) \in SUBSET Nat /\ IsFiniteSet(Matching(b, x))
         /\ 0 \notin Matching(b, x)
<1>1. DOMAIN events = 1..Len(events) /\ Len(events) \in Nat
  BY DEF StoreTypeOK
<1>2. Matching(b, x) \in SUBSET (1..Len(events))
  BY <1>1 DEF Matching
<1>3. IsFiniteSet(1..Len(events))
  BY <1>1, FS_Interval
<1> QED BY <1>1, <1>2, <1>3, FS_Subset

\* What Recent returns.
LEMMA PageIsNewest ==
  ASSUME StoreTypeOK, NEW l \in Nat, NEW b \in Nat, NEW x
  PROVE  /\ BoundLimit(l) \in Nat \ {0}
         /\ Recent(l, b, x).ids = Newest(Matching(b, x), BoundLimit(l))
         /\ Recent(l, b, x).more <=>
               Cardinality(Newest(Matching(b, x), BoundLimit(l) + 1)) > BoundLimit(l)
<1>1. BoundLimit(l) \in Nat \ {0}
  BY DEF BoundLimit
<1>2. Newest(Newest(Matching(b, x), BoundLimit(l) + 1), BoundLimit(l))
        = Newest(Matching(b, x), BoundLimit(l))
  BY <1>1, MatchingIsFinite, NewestOfNewest
<1> QED BY <1>1, <1>2 DEF Recent

LEMMA PagesMeet ==
  ASSUME StoreTypeOK, NEW l \in Nat, NEW b \in 0..Len(events), NEW x
  PROVE  LET page   == Recent(l, b, x)
             oldest == CHOOSE i \in page.ids : \A j \in page.ids : i <= j
             older  == Recent(l, oldest, x)
         IN  page.ids # {} =>
               /\ page.more <=> older.ids # {}
               /\ \A i \in Matching(b, x) : i \in page.ids \cup Matching(oldest, x)
               /\ Cardinality(page.ids) <= BoundLimit(l)
<1> DEFINE page   == Recent(l, b, x)
           oldest == CHOOSE i \in page.ids : \A j \in page.ids : i <= j
           older  == Recent(l, oldest, x)
           M == Matching(b, x)
           n == BoundLimit(l)
<1> SUFFICES ASSUME page.ids # {}
             PROVE  /\ page.more <=> older.ids # {}
                    /\ \A i \in M : i \in page.ids \cup Matching(oldest, x)
                    /\ Cardinality(page.ids) <= n
  OBVIOUS
<1>0. Len(events) \in Nat /\ b \in Nat
  BY DEF StoreTypeOK
<1>1. /\ M \in SUBSET (0..Len(events)) /\ M \in SUBSET Nat /\ IsFiniteSet(M)
      /\ 0 \notin M
  BY <1>0, MatchingIsFinite
<1>2. /\ n \in Nat \ {0} /\ page.ids = Newest(M, n)
      /\ page.more <=> Cardinality(Newest(M, n + 1)) > n
  BY <1>0, PageIsNewest
<1>3. page.ids \in SUBSET M
  BY <1>2 DEF Newest
<1>4. oldest \in page.ids /\ \A j \in page.ids : oldest <= j
  <2>1. \E i \in page.ids : \A j \in page.ids : i <= j
    BY <1>1, <1>3, HasOldest
  <2> QED BY <2>1
<1>5. oldest \in M /\ oldest \in Nat /\ oldest # 0
  BY <1>1, <1>3, <1>4
<1>6. Matching(oldest, x) = {i \in M : i < oldest}
  <2> HIDE DEF oldest, page, older, n
  <2>1. DOMAIN events \in SUBSET Nat
    BY DEF StoreTypeOK
  <2> QED BY <1>0, <1>5, <2>1 DEF Matching
<1>7. older.ids = Newest(Matching(oldest, x), n)
  BY <1>5, PageIsNewest
<1> HIDE DEF page, oldest, older, M, n
<1>8. /\ \A i \in M : i \in Newest(M, n) \/ i < oldest
      /\ Cardinality(Newest(M, n + 1)) > n <=> {i \in M : i < oldest} # {}
  <2>1. oldest \in Newest(M, n) /\ \A i \in Newest(M, n) : oldest <= i
    BY <1>2, <1>4
  <2> QED BY <1>0, <1>1, <1>2, <2>1, OlderThanPage
<1>9. older.ids # {} <=> {i \in M : i < oldest} # {}
  <2>1. {i \in M : i < oldest} # {} => Newest({i \in M : i < oldest}, n) # {}
    BY <1>0, <1>1, <1>2, NewestIsThere
  <2>2. Newest({i \in M : i < oldest}, n) # {} => {i \in M : i < oldest} # {}
    BY DEF Newest
  <2> QED BY <1>6, <1>7, <2>1, <2>2
<1>10. Cardinality(page.ids) <= n
  BY <1>1, <1>2, NewestFits
<1> QED BY <1>2, <1>6, <1>8, <1>9, <1>10

\* Paging loses nothing, for every limit, log and filter.
THEOREM PagesLoseNothing == StoreSpec => []PagesContiguous /\ []PagesAreContiguous(Nat)
<1>1. StoreTypeOK => PagesAreContiguous(Nat)
  BY PagesMeet DEF PagesAreContiguous
<1>2. StoreTypeOK => PagesContiguous
  <2> \A l \in 0..MaxLimit + 1 : l \in Nat
    OBVIOUS
  <2> QED BY PagesMeet DEF PagesContiguous, PagesAreContiguous
<1> QED BY StoreTypes, <1>1, <1>2, PTL
=============================================================================
