--------------------------- MODULE SchedulerProofs ---------------------------
(***************************************************************************)
(* What the campaign board guarantees for any number of questions, Teacher *)
(* threads, slots and workers, and any order of operations, expiries and   *)
(* run movements; and, in the second half, what the dispatch workers add   *)
(* to it, who may race, fail, time out, die and come back.                 *)
(***************************************************************************)
EXTENDS Dispatch, FiniteSetTheorems, TLAPS

\* A board that SchedulerSnapshot.validate accepts, counts aside.
Good(b) == b \in [Question -> Item] /\ \A q \in Question : ItemOK(b[q])

Unique(b) == \A q, r \in Occupied(b) : b[q].lease.owner = b[r].lease.owner => q = r

Leased(b) == {q \in Question : b[q].state = "LEASED"}
Running(b) == {q \in Leased(b) : b[q].lease.ttl # 0}

\* How _sync_and_fill may change one item.
Keeps(item, next) ==
  /\ next.generation = item.generation /\ next.lease = item.lease
  /\ next.state \in Held => item.state \in Held
  /\ next.state = "LEASED" => item.state = "LEASED"
Releases(item, next) == next.generation = item.generation /\ next.lease = None
Grants(item, next) ==
  /\ next.generation = item.generation + 1 /\ next.state = "LEASED"
  /\ next.lease.dispatch = "PENDING"

Follows(b, next) ==
  \A q \in Question : \/ Keeps(b[q], next[q]) \/ Releases(b[q], next[q]) \/ Grants(b[q], next[q])

IInv == TypeOK /\ BoardValid /\ OneLeasePerOwner /\ SlotsBounded

-----------------------------------------------------------------------------
\* Following the run of an item keeps it valid; a lease is kept or dropped.
LEMMA SyncedItem ==
  ASSUME NEW item \in Item, ItemOK(item), NEW r \in RunClass
  PROVE  /\ Synced(item, r) \in Item /\ ItemOK(Synced(item, r))
         /\ Synced(item, r).generation = item.generation
         /\ Synced(item, r).thread = item.thread
         /\ Synced(item, r).state \in Held =>
              item.state \in Held /\ Synced(item, r).lease = item.lease
         /\ Synced(item, r).state \notin Held => Synced(item, r).lease = None
         /\ Synced(item, r).state = "LEASED" => item.state = "LEASED" /\ item.lease.ttl # 0
         /\ Synced(item, r) = item \/ item.state = "LEASED"
<1> USE NameAssumption
<1>1. CASE item.state # "LEASED"
  BY <1>1 DEF Synced, ItemOK
<1>2. CASE item.state = "LEASED" /\ (item.lease.ttl = 0 \/ r = "ABSENT")
  BY <1>2 DEF Synced, ItemOK, Item, Released, Held, QueueState
<1>3. CASE item.state = "LEASED" /\ item.lease.ttl # 0 /\ r = "FINISHED"
  BY <1>3 DEF Synced, ItemOK, Item, Held, QueueState
<1>4. CASE item.state = "LEASED" /\ item.lease.ttl # 0 /\ r = "DEFERRED"
  BY <1>4 DEF Synced, ItemOK, Item, Held, QueueState, Waiting
<1>5. CASE item.state = "LEASED" /\ item.lease.ttl # 0 /\ r \in {"BLOCKED", "ABANDONED"}
  BY <1>5 DEF Synced, ItemOK, Item, Held, QueueState, Released
<1>6. CASE item.state = "LEASED" /\ item.lease.ttl # 0 /\ r \in {"WORKING", "UNREADABLE"}
  BY <1>6 DEF Synced, ItemOK, Item, Held, QueueState
<1> QED
  BY <1>1, <1>2, <1>3, <1>4, <1>5, <1>6 DEF RunClass

\* Granting a lease to an eligible item keeps it valid.
LEMMA GrantedItem ==
  ASSUME NEW item \in Item, ItemOK(item), Eligible(item)
  PROVE  /\ Granted(item) \in Item /\ ItemOK(Granted(item))
         /\ Grants(item, Granted(item))
         /\ Granted(item).lease.owner = item.thread
<1> DEFINE l == [owner |-> item.thread, ttl |-> TTL, dispatch |-> "PENDING", worker |-> None]
<1>1. item.thread \in Thread
  BY DEF Eligible, Item
<1>2. l \in Lease /\ l # None
  BY <1>1, NumberAssumption, NameAssumption DEF Lease
<1>3. item.lease = None /\ item.wait = None
  BY DEF ItemOK, Eligible, Held
<1>4. Granted(item) = [item EXCEPT !.state = "LEASED", !.generation = item.generation + 1, !.lease = l]
  BY DEF Granted
<1>5. l.owner = item.thread /\ l.dispatch = "PENDING"
  OBVIOUS
<1> HIDE DEF l
<1>6. Granted(item) \in Item
  <2>1. Granted(item) = [state |-> "LEASED", generation |-> item.generation + 1,
                         thread |-> item.thread, enrolled |-> item.enrolled,
                         lease |-> l, wait |-> item.wait]
    BY <1>4 DEF Item
  <2>2. item.generation + 1 \in Nat
    BY DEF Item
  <2> QED
    BY <1>2, <2>1, <2>2 DEF Item, QueueState
<1>7. /\ Granted(item).state = "LEASED" /\ Granted(item).generation = item.generation + 1
      /\ Granted(item).lease = l /\ Granted(item).wait = item.wait
      /\ Granted(item).thread = item.thread /\ Granted(item).enrolled = item.enrolled
  BY <1>4 DEF Item
<1>8. ItemOK(Granted(item))
  BY <1>2, <1>3, <1>5, <1>7 DEF ItemOK, Eligible, Held
<1> QED
  BY <1>3, <1>5, <1>6, <1>7, <1>8 DEF Grants

\* A non-empty set of questions has a last one.
LEMMA LastQuestion ==
  ASSUME NEW A \in SUBSET Question, A # {}
  PROVE  \E q \in A : \A r \in A : r <= q
<1> DEFINE After(q) == {r \in A : r > q}
           T == {After(q) : q \in A}
<1>1. T \subseteq FiniteSubsetsOf(Question) /\ T # {}
  <2>1. FiniteSubsetsOf(Question) = SUBSET Question
    BY QuestionAssumption, FS_FiniteSubsetsOfFinite
  <2>2. \A q \in A : After(q) \in SUBSET Question
    OBVIOUS
  <2> HIDE DEF After
  <2>3. T # {} /\ T \subseteq SUBSET Question
    BY <2>2
  <2> QED
    BY <2>1, <2>3
<1>1a. IsWellFoundedOn(StrictSubsetOrdering(Question), FiniteSubsetsOf(Question))
  BY FS_StrictSubsetOrderingWellFounded
<1> HIDE DEF T
<1>2. \E x \in T : \A y \in T : ~(<<y, x>> \in StrictSubsetOrdering(Question))
  BY <1>1, <1>1a, WFMin, Zenon
<1> USE DEF T
<1>2a. PICK x \in T : \A y \in T : ~(<<y, x>> \in StrictSubsetOrdering(Question))
  BY <1>2
<1>3. PICK q \in A : x = After(q)
  OBVIOUS
<1>4. SUFFICES ASSUME NEW r \in A, ~(r <= q) PROVE FALSE
  BY <1>3
<1>5. q \in Nat /\ r \in Nat /\ \A s \in A : s \in Nat
  BY QuestionAssumption
<1>6. After(r) \subseteq After(q) /\ r \in After(q) /\ r \notin After(r)
  <2>1. r > q /\ ~(r > r) /\ \A s \in A : s > r => s > q
    BY <1>4, <1>5
  <2> QED
    BY <2>1
<1>7. <<After(r), After(q)>> \in StrictSubsetOrdering(Question)
  BY <1>6 DEF StrictSubsetOrdering
<1> QED
  BY <1>2a, <1>3, <1>7

-----------------------------------------------------------------------------
Sync(b) == [q \in Question |-> Synced(b[q], run[q])]

\* _sync_run on the whole board: items stay valid, and a lease, an owner or a
\* slot is kept or given up, never gained.
LEMMA SyncedBoard ==
  ASSUME run \in [Question -> RunClass], NEW b, Good(b), Unique(b)
  PROVE  /\ Good(Sync(b)) /\ Unique(Sync(b))
         /\ \A q \in Question : Keeps(b[q], Sync(b)[q]) \/ Releases(b[q], Sync(b)[q])
         /\ Occupied(Sync(b)) \subseteq Occupied(b)
         /\ Leased(Sync(b)) \subseteq Running(b)
<1>1. \A q \in Question :
        /\ Sync(b)[q] = Synced(b[q], run[q])
        /\ b[q] \in Item /\ ItemOK(b[q]) /\ run[q] \in RunClass
  BY DEF Sync, Good
<1>2. \A q \in Question : Sync(b)[q] \in Item /\ ItemOK(Sync(b)[q])
  BY <1>1, SyncedItem
<1>3. \A q \in Question :
        /\ Sync(b)[q].generation = b[q].generation
        /\ Sync(b)[q].state \in Held => b[q].state \in Held /\ Sync(b)[q].lease = b[q].lease
        /\ Sync(b)[q].state \notin Held => Sync(b)[q].lease = None
        /\ Sync(b)[q].state = "LEASED" => b[q].state = "LEASED" /\ b[q].lease.ttl # 0
  BY <1>1, SyncedItem
<1>4. Good(Sync(b))
  BY <1>2 DEF Good, Sync
<1>5. Occupied(Sync(b)) \subseteq Occupied(b) /\ Leased(Sync(b)) \subseteq Running(b)
  BY <1>3 DEF Occupied, Leased, Running
<1>6. Unique(Sync(b))
  BY <1>3, <1>5 DEF Unique, Occupied
<1>7. \A q \in Question : Keeps(b[q], Sync(b)[q]) \/ Releases(b[q], Sync(b)[q])
  BY <1>3 DEF Keeps, Releases
<1> QED
  BY <1>4, <1>5, <1>6, <1>7

\* What the loop of _sync_and_fill grants on a synchronised board s.
LEMMA FilledBoard ==
  ASSUME NEW s, Good(s), Unique(s), NEW slots \in 1..SlotLimit,
         NEW A \in SUBSET Question, Fills(A, s, slots),
         NEW n, n = [q \in Question |-> IF q \in A THEN Granted(s[q]) ELSE s[q]]
  PROVE  /\ Good(n) /\ Unique(n)
         /\ \A q \in Question : n[q] = s[q] \/ Grants(s[q], n[q])
         /\ Occupied(n) = Occupied(s) \cup A /\ Leased(n) = Leased(s) \cup A
         /\ A # {} => Cardinality(Occupied(n)) <= slots
<1>1. \A q \in A : /\ n[q] = Granted(s[q]) /\ Eligible(s[q])
                  /\ s[q] \in Item /\ ItemOK(s[q]) /\ s[q].thread \notin Owners(s)
                  /\ \A r \in A : r < q => s[q].thread # s[r].thread
  BY DEF Fills, Good
<1>2. \A q \in A : /\ n[q] \in Item /\ ItemOK(n[q]) /\ Grants(s[q], n[q])
                  /\ n[q].lease.owner = s[q].thread /\ n[q].state = "LEASED"
  BY <1>1, GrantedItem DEF Grants
<1>3. \A q \in Question \ A : n[q] = s[q]
  OBVIOUS
<1>4. Good(n)
  BY <1>2, <1>3 DEF Good
<1>5. Occupied(n) = Occupied(s) \cup A /\ Leased(n) = Leased(s) \cup A
  BY <1>2, <1>3 DEF Occupied, Leased, Held
<1>6. Unique(n)
  <2> SUFFICES ASSUME NEW q \in Occupied(n), NEW r \in Occupied(n),
                      n[q].lease.owner = n[r].lease.owner
               PROVE  q = r
    BY DEF Unique
  <2>1. \A x \in Occupied(s) \ A : n[x].lease.owner \in Owners(s) /\ n[x] = s[x]
    BY <1>3 DEF Owners, Occupied
  <2>2. CASE q \in A /\ r \in A
    <3>1. q \in Nat /\ r \in Nat /\ s[q].thread = s[r].thread
      BY <2>2, <1>2, QuestionAssumption
    <3> QED
      BY <3>1, <2>2, <1>1
  <2>3. CASE q \notin A /\ r \notin A
    BY <2>1, <2>3, <1>5 DEF Unique
  <2>4. CASE q \in A /\ r \notin A
    BY <2>1, <2>4, <1>1, <1>2, <1>5
  <2>5. CASE q \notin A /\ r \in A
    BY <2>1, <2>5, <1>1, <1>2, <1>5
  <2> QED
    BY <2>2, <2>3, <2>4, <2>5
<1>7. ASSUME A # {} PROVE Cardinality(Occupied(n)) <= slots
  <2>1. PICK q \in A : \A r \in A : r <= q
    BY <1>7, LastQuestion
  <2> DEFINE E == {r \in A : r < q}
  <2>2. Cardinality(Occupied(s)) + Cardinality(E) < slots
    BY DEF Fills
  <2>3. \A r \in A : r \in Nat
    BY QuestionAssumption
  <2>4. A = E \cup {q}
    BY <2>1, <2>3
  <2>5. IsFiniteSet(E) /\ IsFiniteSet(Occupied(s)) /\ IsFiniteSet(A)
    <3>1. E \in SUBSET Question /\ Occupied(s) \in SUBSET Question
      BY DEF Occupied
    <3> HIDE DEF E
    <3> QED
      BY <3>1, QuestionAssumption, FS_Subset
  <2> HIDE DEF E
  <2>6. Cardinality(A) <= Cardinality(E) + 1 /\ Cardinality(E) \in Nat
    BY <2>4, <2>5, FS_AddElement, FS_CardinalityType
  <2>7. Cardinality(Occupied(s) \cup A) <= Cardinality(Occupied(s)) + Cardinality(A)
    <3>1. IsFiniteSet(Occupied(s) \cap A)
      BY <2>5, FS_Subset
    <3>2. /\ Cardinality(Occupied(s)) \in Nat /\ Cardinality(A) \in Nat
          /\ Cardinality(Occupied(s) \cap A) \in Nat
      BY <2>5, <3>1, FS_CardinalityType
    <3>3. Cardinality(Occupied(s) \cup A)
            = Cardinality(Occupied(s)) + Cardinality(A) - Cardinality(Occupied(s) \cap A)
      BY <2>5, FS_Union
    <3> QED
      BY <3>2, <3>3
  <2>8. /\ Cardinality(Occupied(s)) \in Nat /\ Cardinality(A) \in Nat
        /\ Cardinality(Occupied(s) \cup A) \in Nat
    BY <2>5, FS_CardinalityType, FS_Union
  <2>9. slots \in Nat
    BY NumberAssumption
  <2>10. Cardinality(Occupied(s) \cup A) <= slots
    BY <2>2, <2>6, <2>7, <2>8, <2>9
  <2> QED
    BY <2>10, <1>5
<1> QED
  BY <1>2, <1>3, <1>4, <1>5, <1>6, <1>7

\* The counts of the invariant, for a board and a number of slots.
Counts(b, slots) == /\ Cardinality(Leased(b)) <= slots
                    /\ Cardinality(Occupied(b)) <= SlotLimit

LEMMA SubsetCount ==
  ASSUME NEW S \in SUBSET Question, NEW T \in SUBSET S
  PROVE  /\ Cardinality(T) <= Cardinality(S)
         /\ Cardinality(T) \in Nat /\ Cardinality(S) \in Nat
<1>1. IsFiniteSet(S)
  BY QuestionAssumption, FS_Subset
<1> QED
  BY <1>1, FS_Subset, FS_CardinalityType

\* _sync_and_fill on a valid board: it stays valid, within its slots, and no
\* item changes but by keeping, releasing or being granted its lease.
LEMMA SyncAndFillStep ==
  ASSUME run \in [Question -> RunClass], NEW b, Good(b), Unique(b),
         NEW slots \in 1..SlotLimit,
         Cardinality(Running(b)) <= slots, Cardinality(Occupied(b)) <= SlotLimit,
         SyncAndFill(b, slots)
  PROVE  /\ Good(board') /\ Unique(board') /\ Counts(board', slots)
         /\ Follows(b, board')
<1> DEFINE s == Sync(b)
<1>1. /\ Good(s) /\ Unique(s)
      /\ \A q \in Question : Keeps(b[q], s[q]) \/ Releases(b[q], s[q])
      /\ Occupied(s) \subseteq Occupied(b) /\ Leased(s) \subseteq Running(b)
  BY SyncedBoard
<1>2. PICK A \in SUBSET Question :
        /\ Fills(A, s, slots)
        /\ board' = [q \in Question |-> IF q \in A THEN Granted(s[q]) ELSE s[q]]
  BY DEF SyncAndFill, Sync
<1> HIDE DEF s
<1> DEFINE n == board'
<1>3. /\ Good(n) /\ Unique(n)
      /\ \A q \in Question : n[q] = s[q] \/ Grants(s[q], n[q])
      /\ Occupied(n) = Occupied(s) \cup A /\ Leased(n) = Leased(s) \cup A
      /\ A # {} => Cardinality(Occupied(n)) <= slots
  BY <1>1, <1>2, FilledBoard
<1> HIDE DEF n
<1>4. Follows(b, n)
  <2> SUFFICES ASSUME NEW q \in Question
               PROVE  Keeps(b[q], n[q]) \/ Releases(b[q], n[q]) \/ Grants(b[q], n[q])
    BY DEF Follows
  <2>1. CASE n[q] = s[q]
    BY <2>1, <1>1
  <2>2. CASE Grants(s[q], n[q])
    BY <2>2, <1>1 DEF Grants, Keeps, Releases
  <2> QED
    BY <1>3, <2>1, <2>2
<1>5. Counts(n, slots)
  <2>1. slots \in Nat /\ slots <= SlotLimit /\ SlotLimit \in Nat
    BY NumberAssumption
  <2>2. CASE A = {}
    <3>1. /\ Occupied(b) \in SUBSET Question /\ Running(b) \in SUBSET Question
          /\ Leased(n) \in SUBSET Running(b) /\ Occupied(n) \in SUBSET Occupied(b)
      BY <2>2, <1>1, <1>3 DEF Occupied, Running, Leased
    <3>2. /\ Cardinality(Leased(n)) <= Cardinality(Running(b))
          /\ Cardinality(Leased(n)) \in Nat /\ Cardinality(Running(b)) \in Nat
      BY <3>1, SubsetCount
    <3>3. /\ Cardinality(Occupied(n)) <= Cardinality(Occupied(b))
          /\ Cardinality(Occupied(n)) \in Nat /\ Cardinality(Occupied(b)) \in Nat
      BY <3>1, SubsetCount
    <3> QED
      BY <2>1, <3>2, <3>3 DEF Counts
  <2>3. CASE A # {}
    <3>1. Occupied(n) \in SUBSET Question /\ Leased(n) \in SUBSET Occupied(n)
      BY DEF Occupied, Leased, Held
    <3>2. /\ Cardinality(Leased(n)) <= Cardinality(Occupied(n))
          /\ Cardinality(Leased(n)) \in Nat /\ Cardinality(Occupied(n)) \in Nat
      BY <3>1, SubsetCount
    <3> QED
      BY <2>1, <2>3, <3>2, <1>3 DEF Counts
  <2> QED
    BY <2>2, <2>3
<1> QED
  BY <1>3, <1>4, <1>5 DEF n

-----------------------------------------------------------------------------
\* The invariant in terms of boards.
LEMMA InvariantParts ==
  IInv <=> /\ Good(board) /\ Unique(board) /\ Counts(board, maxActive)
           /\ maxActive \in 1..SlotLimit /\ run \in [Question -> RunClass]
           /\ sealed \subseteq Question /\ reconciled \subseteq SUBSET Question
BY DEF IInv, TypeOK, BoardValid, Good, OneLeasePerOwner, Unique, SlotsBounded, Counts, Leased

LEMMA AssembledInvariant ==
  ASSUME Good(board'), Unique(board'), Counts(board', maxActive'),
         maxActive' \in 1..SlotLimit, run' \in [Question -> RunClass],
         sealed' \subseteq Question, reconciled' \subseteq SUBSET Question
  PROVE  IInv'
BY DEF IInv, TypeOK, BoardValid, Good, OneLeasePerOwner, Unique, SlotsBounded, Counts, Leased,
       Occupied

\* Replacing the item of q by one without a lease, or by one that keeps its
\* state and owner, leaves the board valid and within its counts.
LEMMA ReplacedItem ==
  ASSUME IInv, NEW q \in Question, NEW item \in Item, ItemOK(item),
         \/ item.state \notin Held
         \/ item.state = board[q].state /\ item.lease.owner = board[q].lease.owner
  PROVE  /\ Good(With(q, item)) /\ Unique(With(q, item))
         /\ Counts(With(q, item), maxActive)
         /\ Cardinality(Running(With(q, item))) <= maxActive
         /\ With(q, item)[q] = item
         /\ \A r \in Question \ {q} : With(q, item)[r] = board[r]
<1> DEFINE b == With(q, item)
<1>1. /\ Good(board) /\ Unique(board) /\ Counts(board, maxActive)
      /\ maxActive \in Nat /\ SlotLimit \in Nat
  BY InvariantParts, NumberAssumption
<1>2. b[q] = item /\ \A r \in Question \ {q} : b[r] = board[r]
  BY <1>1 DEF Good, With
<1>3. Good(b)
  BY <1>1, <1>2 DEF Good, With
<1> HIDE DEF b
<1>4. Occupied(b) \subseteq Occupied(board) /\ Leased(b) \subseteq Leased(board)
  BY <1>2 DEF Occupied, Leased, Held
<1>5. Unique(b)
  <2>1. \A r \in Occupied(b) : b[r].lease.owner = board[r].lease.owner
    BY <1>2 DEF Occupied
  <2> QED
    BY <2>1, <1>1, <1>4 DEF Unique
<1>6. Occupied(board) \in SUBSET Question /\ Leased(board) \in SUBSET Question
      /\ Running(b) \in SUBSET Leased(b) /\ Leased(b) \in SUBSET Leased(board)
      /\ Occupied(b) \in SUBSET Occupied(board) /\ Running(b) \in SUBSET Leased(board)
  BY <1>4 DEF Occupied, Leased, Running
<1>7. /\ Cardinality(Leased(b)) <= Cardinality(Leased(board))
      /\ Cardinality(Occupied(b)) <= Cardinality(Occupied(board))
      /\ Cardinality(Running(b)) <= Cardinality(Leased(board))
      /\ Cardinality(Leased(b)) \in Nat /\ Cardinality(Occupied(b)) \in Nat
      /\ Cardinality(Running(b)) \in Nat
      /\ Cardinality(Leased(board)) \in Nat /\ Cardinality(Occupied(board)) \in Nat
  BY <1>6, SubsetCount
<1>8. Counts(b, maxActive) /\ Cardinality(Running(b)) <= maxActive
  BY <1>1, <1>7 DEF Counts
<1> QED
  BY <1>2, <1>3, <1>5, <1>8 DEF b

-----------------------------------------------------------------------------
\* What a step may do to the lease of an item: drop it, grant the next one, or
\* keep its owner and its dispatch while it grows older; only its owner renews it.
Dropped(item, next) == next.generation = item.generation /\ next.lease = None
Granting(item, next) ==
  next.generation = item.generation + 1 /\ next.lease.dispatch = "PENDING"
Kept(item, next) ==
  /\ next.generation = item.generation /\ item.lease # None /\ item.state \in Held
  /\ next.lease.owner = item.lease.owner /\ next.lease.dispatch = item.lease.dispatch
  /\ \/ next.lease.ttl = item.lease.ttl
     \/ item.lease.ttl # 0 /\ next.lease.ttl = item.lease.ttl - 1
Renewed(item, next) ==
  /\ next.generation = item.generation /\ item.lease # None /\ item.state \in Held
  /\ next.lease.owner = item.lease.owner /\ next.lease.dispatch = item.lease.dispatch
  /\ item.lease.ttl # 0
Quiet(item, next) == Dropped(item, next) \/ Granting(item, next) \/ Kept(item, next)

AllQuiet == \A q \in Question : Quiet(board[q], board'[q])
AllCalm == \A q \in Question : Quiet(board[q], board'[q]) \/ Renewed(board[q], board'[q])

\* Only valid leases stay valid.
Fenced == \A q \in Question, o \in Thread : \A g \in 1..board[q].generation :
            HoldsLease(q, o, g)' => HoldsLease(q, o, g)

LEMMA QuietIsCalm == AllQuiet => AllCalm
BY DEF AllQuiet, AllCalm

LEMMA CalmIsFenced ==
  ASSUME IInv, IInv', AllCalm
  PROVE  Fenced
<1> SUFFICES ASSUME NEW q \in Question, NEW o \in Thread, NEW g \in 1..board[q].generation,
                    HoldsLease(q, o, g)'
             PROVE  HoldsLease(q, o, g)
  BY DEF Fenced
<1>1. board'[q].lease # None /\ board'[q].generation = g /\ board'[q].lease.owner = o
      /\ board'[q].lease.ttl # 0
  BY InvariantParts DEF HoldsLease, IInv, BoardValid, ItemOK
<1>2. board[q].generation \in Nat /\ g <= board[q].generation
  BY InvariantParts DEF Good, Item
<1>3. Kept(board[q], board'[q]) \/ Renewed(board[q], board'[q])
  BY <1>1, <1>2 DEF AllCalm, Quiet, Dropped, Granting
<1> QED
  BY <1>1, <1>3 DEF Kept, Renewed, HoldsLease

\* An item that follows another, on a valid board, is quiet.
LEMMA FollowsIsQuiet ==
  ASSUME NEW b, NEW n, Good(b), Good(n), Follows(b, n), NEW q \in Question
  PROVE  Quiet(b[q], n[q])
<1>1. ItemOK(b[q]) /\ ItemOK(n[q])
  BY DEF Good
<1>2. CASE Keeps(b[q], n[q])
  BY <1>1, <1>2 DEF Keeps, Quiet, Dropped, Kept, ItemOK
<1>3. CASE Releases(b[q], n[q])
  BY <1>3 DEF Releases, Quiet, Dropped
<1>4. CASE Grants(b[q], n[q])
  BY <1>4 DEF Grants, Quiet, Granting
<1> QED
  BY <1>2, <1>3, <1>4 DEF Follows

\* An operation that takes the lease from one item, or leaves a free item
\* free, and then fills the slots.
LEMMA ReleaseAndFill ==
  ASSUME IInv, NEW q \in Question, NEW item \in Item, ItemOK(item), item.state \notin Held,
         item.generation = board[q].generation,
         SyncAndFill(With(q, item), maxActive), UNCHANGED <<maxActive, run>>,
         sealed' \subseteq Question, reconciled' \subseteq SUBSET Question
  PROVE  IInv' /\ AllQuiet
<1> DEFINE b == With(q, item)
<1>1. /\ Good(b) /\ Unique(b) /\ Counts(b, maxActive)
      /\ Cardinality(Running(b)) <= maxActive
      /\ b[q] = item /\ \A r \in Question \ {q} : b[r] = board[r]
  BY ReplacedItem
<1>2. run \in [Question -> RunClass] /\ maxActive \in 1..SlotLimit
  BY InvariantParts
<1> HIDE DEF b
<1>3. /\ Good(board') /\ Unique(board') /\ Counts(board', maxActive) /\ Follows(b, board')
  BY <1>1, <1>2, SyncAndFillStep DEF Counts, b
<1>4. IInv'
  BY <1>2, <1>3, AssembledInvariant
<1>5. ASSUME NEW r \in Question PROVE Quiet(board[r], board'[r])
  <2>1. Quiet(b[r], board'[r])
    BY <1>1, <1>3, FollowsIsQuiet
  <2>2. CASE r # q
    BY <2>1, <2>2, <1>1
  <2>3. CASE r = q
    <3>1. b[r].generation = board[r].generation /\ b[r].lease = None
      BY <2>3, <1>1 DEF ItemOK
    <3> QED
      BY <2>1, <3>1 DEF Quiet, Dropped, Granting, Kept
  <2> QED
    BY <2>2, <2>3
<1> QED
  BY <1>4, <1>5 DEF AllQuiet

\* An operation that changes the lease of one held item in place.
LEMMA ChangedLease ==
  ASSUME IInv, NEW q \in Question, NEW l \in Lease, board[q].state \in Held,
         l.owner = board[q].lease.owner,
         board' = With(q, [board[q] EXCEPT !.lease = l]),
         UNCHANGED <<maxActive, run, sealed, reconciled>>
  PROVE  IInv'
<1> DEFINE item == [board[q] EXCEPT !.lease = l]
<1>1. board[q] \in Item /\ ItemOK(board[q]) /\ maxActive \in 1..SlotLimit
      /\ run \in [Question -> RunClass]
      /\ sealed \subseteq Question /\ reconciled \subseteq SUBSET Question
  BY InvariantParts DEF Good
<1>2. item \in Item
  BY <1>1 DEF Item
<1>3. item.state = board[q].state /\ item.lease = l /\ item.thread = board[q].thread
      /\ item.wait = board[q].wait /\ item.enrolled = board[q].enrolled
  BY <1>1 DEF Item
<1>4. ItemOK(item)
  BY <1>1, <1>3, NameAssumption DEF ItemOK
<1> HIDE DEF item
<1>5. Good(With(q, item)) /\ Unique(With(q, item)) /\ Counts(With(q, item), maxActive)
  BY <1>2, <1>3, <1>4, ReplacedItem
<1> QED
  BY <1>1, <1>5, AssembledInvariant DEF item

-----------------------------------------------------------------------------
(* One lemma for each operation: it keeps the invariant and is quiet.      *)

LEMMA InvInit == Init => IInv
<1> SUFFICES ASSUME Init PROVE IInv
  OBVIOUS
<1>1. board \in [Question -> Item]
  BY NameAssumption DEF Init, Item, QueueState
<1>2. \A q \in Question : ItemOK(board[q])
  BY DEF Init, ItemOK, Held
<1>3. Occupied(board) = {} /\ Leased(board) = {}
  BY DEF Init, Occupied, Leased, Held
<1>4. maxActive \in Nat /\ 0 <= maxActive /\ 0 <= SlotLimit
  BY NumberAssumption DEF Init
<1>5. Counts(board, maxActive) /\ Unique(board)
  BY <1>3, <1>4, FS_EmptySet DEF Counts, Unique
<1>6. run \in [Question -> RunClass]
  BY DEF Init, RunClass
<1> QED
  BY <1>1, <1>2, <1>5, <1>6, InvariantParts DEF Good, Init

LEMMA EnqueueStep ==
  ASSUME IInv, NEW q \in Question, NEW t \in Thread \cup {None}, Enqueue(q, t)
  PROVE  IInv' /\ AllQuiet
<1> DEFINE item == [board[q] EXCEPT !.state = "READY", !.enrolled = TRUE,
                                    !.thread = IF t = None THEN @ ELSE t]
<1>1. board[q] \in Item /\ ItemOK(board[q])
      /\ sealed \subseteq Question /\ reconciled \subseteq SUBSET Question
  BY InvariantParts DEF Good
<1>2. item \in Item
  BY <1>1 DEF Item, QueueState
<1>3. /\ item.state = "READY" /\ item.enrolled = TRUE /\ item.lease = board[q].lease
      /\ item.wait = board[q].wait /\ item.generation = board[q].generation
  BY <1>1 DEF Item
<1>4. ItemOK(item) /\ item.state \notin Held
  BY <1>1, <1>3 DEF ItemOK, Enqueue, Held
<1>5. SyncAndFill(With(q, item), maxActive) /\ UNCHANGED <<maxActive, run, sealed, reconciled>>
  BY DEF Enqueue
<1> HIDE DEF item
<1> QED
  BY <1>1, <1>2, <1>3, <1>4, <1>5, ReleaseAndFill

\* Tick and Configure fill the slots of the board as it is.
LEMMA FillOnly ==
  ASSUME IInv, NEW slots \in 1..SlotLimit, Cardinality(Running(board)) <= slots,
         SyncAndFill(board, slots), maxActive' = slots, UNCHANGED <<run, sealed, reconciled>>
  PROVE  IInv' /\ AllQuiet
<1>1. /\ Good(board) /\ Unique(board) /\ Counts(board, maxActive)
      /\ run \in [Question -> RunClass]
      /\ sealed \subseteq Question /\ reconciled \subseteq SUBSET Question
  BY InvariantParts
<1>2. Good(board') /\ Unique(board') /\ Counts(board', slots) /\ Follows(board, board')
  BY <1>1, SyncAndFillStep DEF Counts
<1>3. IInv'
  BY <1>1, <1>2, AssembledInvariant
<1>4. AllQuiet
  BY <1>1, <1>2, FollowsIsQuiet DEF AllQuiet
<1> QED
  BY <1>3, <1>4

LEMMA TickStep == IInv /\ Tick => IInv' /\ AllQuiet
<1> SUFFICES ASSUME IInv, Tick PROVE IInv' /\ AllQuiet
  OBVIOUS
<1>1. Counts(board, maxActive) /\ maxActive \in 1..SlotLimit /\ maxActive \in Nat
  BY InvariantParts, NumberAssumption
<1>2. Leased(board) \in SUBSET Question /\ Running(board) \in SUBSET Leased(board)
  BY DEF Leased, Running
<1>3. Cardinality(Running(board)) <= maxActive
  BY <1>1, <1>2, SubsetCount DEF Counts
<1> QED
  BY <1>1, <1>3, FillOnly DEF Tick

LEMMA ConfigureStep ==
  ASSUME IInv, NEW slots \in 1..SlotLimit, Configure(slots)
  PROVE  IInv' /\ AllQuiet
<1>1. Running(board) = {q \in Question : board[q].state = "LEASED" /\ board[q].lease.ttl # 0}
  BY DEF Running, Leased
<1> QED
  BY <1>1, FillOnly DEF Configure

\* A released item is valid, whatever it was.
LEMMA ReleasedItem ==
  ASSUME NEW item \in Item, ItemOK(item), item.enrolled,
         NEW state \in QueueState \ (Held \cup {"WAITING_EXTERNAL", "BACKLOG"})
  PROVE  /\ Released(item, state) \in Item /\ ItemOK(Released(item, state))
         /\ Released(item, state).state \notin Held
         /\ Released(item, state).generation = item.generation
<1>1. Released(item, state) \in Item
  BY DEF Released, Item
<1>2. /\ Released(item, state).state = state /\ Released(item, state).lease = None
      /\ Released(item, state).wait = None /\ Released(item, state).enrolled = item.enrolled
      /\ Released(item, state).generation = item.generation
  BY DEF Released, Item
<1> QED
  BY <1>1, <1>2 DEF ItemOK, Held

\* Operations that release one enrolled item to a free state.
LEMMA ReleaseStep ==
  ASSUME IInv, NEW q \in Question, board[q].state # "BACKLOG",
         NEW state \in QueueState \ (Held \cup {"WAITING_EXTERNAL", "BACKLOG"}),
         SyncAndFill(With(q, Released(board[q], state)), maxActive),
         UNCHANGED <<maxActive, run>>,
         sealed' \subseteq Question, reconciled' \subseteq SUBSET Question
  PROVE  IInv' /\ AllQuiet
<1>1. board[q] \in Item /\ ItemOK(board[q]) /\ board[q].enrolled
  BY InvariantParts DEF Good, ItemOK
<1> QED
  BY <1>1, ReleasedItem, ReleaseAndFill

LEMMA RequeueStep ==
  ASSUME IInv, NEW q \in Question, Requeue(q)
  PROVE  IInv' /\ AllQuiet
<1>1. "READY" \in QueueState \ (Held \cup {"WAITING_EXTERNAL", "BACKLOG"})
  BY DEF QueueState, Held
<1>2. sealed' \subseteq Question /\ reconciled' \subseteq SUBSET Question
      /\ UNCHANGED <<maxActive, run>> /\ board[q].state # "BACKLOG"
  BY InvariantParts DEF Requeue
<1> QED
  BY <1>1, <1>2, ReleaseStep DEF Requeue

LEMMA ResumeExternalStep ==
  ASSUME IInv, NEW q \in Question, NEW id, ResumeExternal(q, id)
  PROVE  IInv' /\ AllQuiet
<1>1. "READY" \in QueueState \ (Held \cup {"WAITING_EXTERNAL", "BACKLOG"})
  BY DEF QueueState, Held
<1>2. sealed' \subseteq Question /\ reconciled' \subseteq SUBSET Question
      /\ UNCHANGED <<maxActive, run>> /\ board[q].state # "BACKLOG"
  BY InvariantParts DEF ResumeExternal
<1> QED
  BY <1>1, <1>2, ReleaseStep DEF ResumeExternal

\* What a lease owner may rely on when its lease is accepted.
LEMMA HeldLease ==
  ASSUME IInv, NEW q \in Question, NEW o, NEW g, HoldsLease(q, o, g)
  PROVE  /\ board[q] \in Item /\ ItemOK(board[q]) /\ board[q].state \in Held
         /\ board[q].lease \in Lease /\ board[q].lease # None /\ board[q].enrolled
         /\ board[q].state # "BACKLOG" /\ board[q].lease.ttl # 0
BY InvariantParts DEF Good, HoldsLease, ItemOK, Item, Held

\* Replacing a valid lease by one of the same owner and dispatch.
LEMMA ChangedLeaseCalm ==
  ASSUME IInv, NEW q \in Question, NEW l \in Lease, board[q].state \in Held,
         l.owner = board[q].lease.owner, l.dispatch = board[q].lease.dispatch,
         board[q].lease.ttl # 0,
         board' = With(q, [board[q] EXCEPT !.lease = l])
  PROVE  AllCalm
<1>1. Good(board)
  BY InvariantParts
<1>2. \A r \in Question : board[r].state \in Held => board[r].lease # None
  BY <1>1 DEF Good, ItemOK
<1>3. \A r \in Question : board[r].state \notin Held => board[r].lease = None
  BY <1>1 DEF Good, ItemOK
<1>4. board' = [board EXCEPT ![q] = [board[q] EXCEPT !.lease = l]]
      /\ board \in [Question -> Item]
  BY <1>1 DEF With, Good
<1>5. /\ board'[q].lease = l /\ board'[q].generation = board[q].generation
      /\ \A r \in Question \ {q} : board'[r] = board[r]
  BY <1>4 DEF Item
<1>6. Renewed(board[q], board'[q])
  BY <1>2, <1>5 DEF Renewed
<1>7. \A r \in Question \ {q} : Kept(board[r], board'[r]) \/ Dropped(board[r], board'[r])
  BY <1>2, <1>3, <1>5 DEF Kept, Dropped
<1> QED
  BY <1>6, <1>7 DEF AllCalm, Quiet

LEMMA HeartbeatStep ==
  ASSUME IInv, NEW q \in Question, NEW o, NEW g, Heartbeat(q, o, g)
  PROVE  IInv' /\ AllCalm
<1>1. /\ board[q] \in Item /\ board[q].state \in Held /\ board[q].lease \in Lease
      /\ board[q].lease.ttl # 0
  BY HeldLease DEF Heartbeat
<1> DEFINE l == [board[q].lease EXCEPT !.ttl = TTL]
<1>2. l \in Lease /\ l.owner = board[q].lease.owner /\ l.dispatch = board[q].lease.dispatch
  BY <1>1, NumberAssumption DEF Lease
<1>3. board' = With(q, [board[q] EXCEPT !.lease = l])
  BY <1>1 DEF Heartbeat
<1>4. UNCHANGED <<maxActive, run, sealed, reconciled>>
  BY DEF Heartbeat
<1> HIDE DEF l
<1> QED
  BY <1>1, <1>2, <1>3, <1>4, ChangedLease, ChangedLeaseCalm

LEMMA SetWaitingExternalStep ==
  ASSUME IInv, NEW q \in Question, NEW o, NEW g, NEW id \in External,
         SetWaitingExternal(q, o, g, id)
  PROVE  IInv' /\ AllQuiet
<1>1. /\ board[q] \in Item /\ ItemOK(board[q]) /\ board[q].enrolled
  BY HeldLease DEF SetWaitingExternal
<1> DEFINE item == Waiting(board[q], id)
<1>2. item \in Item
  BY <1>1 DEF Item, Waiting, QueueState
<1>3. /\ item.state = "WAITING_EXTERNAL" /\ item.lease = None /\ item.wait = id
      /\ item.enrolled = board[q].enrolled /\ item.generation = board[q].generation
  BY <1>1 DEF Item, Waiting
<1>4. ItemOK(item) /\ item.state \notin Held
  BY <1>1, <1>3, NameAssumption DEF ItemOK, Held
<1>5. SyncAndFill(With(q, item), maxActive) /\ UNCHANGED <<maxActive, run, sealed, reconciled>>
  BY DEF SetWaitingExternal
<1>6. sealed' \subseteq Question /\ reconciled' \subseteq SUBSET Question
  BY <1>5, InvariantParts
<1> HIDE DEF item
<1> QED
  BY <1>2, <1>3, <1>4, <1>5, <1>6, ReleaseAndFill

LEMMA AbandonTopicStep ==
  ASSUME IInv, NEW q \in Question, NEW o, NEW g, AbandonTopic(q, o, g)
  PROVE  IInv' /\ AllQuiet
<1>1. "ABANDONED" \in QueueState \ (Held \cup {"WAITING_EXTERNAL", "BACKLOG"})
  BY DEF QueueState, Held
<1>2. board[q].state # "BACKLOG"
  BY HeldLease DEF AbandonTopic
<1>3. sealed' \subseteq Question /\ reconciled' \subseteq SUBSET Question
      /\ UNCHANGED <<maxActive, run>>
  BY InvariantParts DEF AbandonTopic
<1> QED
  BY <1>1, <1>2, <1>3, ReleaseStep DEF AbandonTopic

LEMMA BindPublishedFamilyStep ==
  ASSUME IInv, NEW q \in Question, NEW o, NEW g, BindPublishedFamily(q, o, g)
  PROVE  IInv' /\ AllQuiet
<1>1. "COMPLETED" \in QueueState \ (Held \cup {"WAITING_EXTERNAL", "BACKLOG"})
  BY DEF QueueState, Held
<1>2. board[q].state # "BACKLOG"
  BY HeldLease DEF BindPublishedFamily, MayBind
<1>3. Roster(q) \subseteq Question
  BY NameAssumption DEF Roster
<1>4. sealed' \subseteq Question /\ reconciled' \subseteq SUBSET Question
      /\ UNCHANGED <<maxActive, run>>
  BY <1>3, InvariantParts DEF BindPublishedFamily
<1> QED
  BY <1>1, <1>2, <1>4, ReleaseStep DEF BindPublishedFamily

\* Steps that leave the board alone.
LEMMA BoardUnchanged ==
  ASSUME IInv, board' = board
  PROVE  AllQuiet
<1>1. \A q \in Question : ItemOK(board[q])
  BY InvariantParts DEF Good
<1>2. \A q \in Question : Kept(board[q], board'[q]) \/ Dropped(board[q], board'[q])
  BY <1>1 DEF ItemOK, Kept, Dropped
<1> QED
  BY <1>2 DEF AllQuiet, Quiet

LEMMA BindInterruptedStep ==
  ASSUME IInv, NEW q \in Question, NEW o, NEW g, BindInterrupted(q, o, g)
  PROVE  IInv' /\ AllQuiet
<1>1. Roster(q) \subseteq Question
  BY NameAssumption DEF Roster
<1>2. UNCHANGED <<board, maxActive, run>>
      /\ sealed' \subseteq Question /\ reconciled' \subseteq SUBSET Question
  BY <1>1, InvariantParts DEF BindInterrupted
<1>3. IInv'
  BY <1>2, InvariantParts, AssembledInvariant
<1> QED
  BY <1>2, <1>3, BoardUnchanged

LEMMA ClaimDispatchStep ==
  ASSUME IInv, NEW q \in Question, NEW w \in Worker, ClaimDispatch(q, w)
  PROVE  IInv'
<1>1. board[q] \in Item /\ board[q].state \in Held /\ board[q].lease \in Lease
  BY InvariantParts DEF Good, ItemOK, Item, ClaimDispatch, Held
<1> DEFINE l == [board[q].lease EXCEPT !.dispatch = "SENDING", !.worker = w]
<1>2. l \in Lease /\ l.owner = board[q].lease.owner
  BY <1>1 DEF Lease
<1>3. board' = With(q, [board[q] EXCEPT !.lease = l])
  BY <1>1 DEF ClaimDispatch, Item
<1>4. UNCHANGED <<maxActive, run, sealed, reconciled>>
  BY DEF ClaimDispatch
<1> HIDE DEF l
<1> QED
  BY <1>1, <1>2, <1>3, <1>4, ChangedLease

LEMMA RecordDispatchStep ==
  ASSUME IInv, NEW q \in Question, NEW w \in Worker, NEW o, NEW g, RecordDispatch(q, w, o, g)
  PROVE  IInv'
<1>1. board[q] \in Item /\ board[q].state \in Held /\ board[q].lease \in Lease
  BY HeldLease DEF RecordDispatch
<1> DEFINE l == [board[q].lease EXCEPT !.dispatch = "SENT"]
<1>2. l \in Lease /\ l.owner = board[q].lease.owner
  BY <1>1 DEF Lease
<1>3. board' = With(q, [board[q] EXCEPT !.lease = l])
  BY <1>1 DEF RecordDispatch
<1>4. UNCHANGED <<maxActive, run, sealed, reconciled>>
  BY DEF RecordDispatch
<1> HIDE DEF l
<1> QED
  BY <1>1, <1>2, <1>3, <1>4, ChangedLease

LEMMA RequireRecoveryStep ==
  ASSUME IInv, NEW q \in Question, NEW w, NEW o, NEW g, RequireRecovery(q, w, o, g)
  PROVE  IInv' /\ AllQuiet
<1>1. "RECOVERY_REQUIRED" \in QueueState \ (Held \cup {"WAITING_EXTERNAL", "BACKLOG"})
  BY DEF QueueState, Held
<1>2. board[q].state # "BACKLOG"
  BY HeldLease DEF RequireRecovery
<1>3. sealed' \subseteq Question /\ reconciled' \subseteq SUBSET Question
      /\ UNCHANGED <<maxActive, run>>
  BY InvariantParts DEF RequireRecovery
<1> QED
  BY <1>1, <1>2, <1>3, ReleaseStep DEF RequireRecovery

LEMMA RunMovesStep ==
  ASSUME IInv, NEW q \in Question, NEW r \in RunClass, RunMoves(q, r)
  PROVE  IInv' /\ AllQuiet
<1>1. run' \in [Question -> RunClass] /\ UNCHANGED <<board, maxActive, sealed, reconciled>>
  BY InvariantParts DEF RunMoves
<1>2. IInv'
  BY <1>1, InvariantParts, AssembledInvariant
<1> QED
  BY <1>1, <1>2, BoardUnchanged

LEMMA TimePassesStep ==
  ASSUME IInv, TimePasses
  PROVE  IInv' /\ AllQuiet
<1> DEFINE Aged(item) == IF item.lease = None \/ item.lease.ttl = 0 THEN item
                         ELSE [item EXCEPT !.lease.ttl = @ - 1]
<1>1. board' = [q \in Question |-> Aged(board[q])] /\ UNCHANGED <<maxActive, run, sealed, reconciled>>
  BY DEF TimePasses
<1>2. /\ Good(board) /\ Unique(board) /\ Counts(board, maxActive)
      /\ maxActive \in 1..SlotLimit /\ run \in [Question -> RunClass]
      /\ sealed \subseteq Question /\ reconciled \subseteq SUBSET Question
  BY InvariantParts
<1>3. ASSUME NEW item \in Item, ItemOK(item)
      PROVE  /\ Aged(item) \in Item /\ ItemOK(Aged(item))
             /\ Aged(item).state = item.state /\ Aged(item).generation = item.generation
             /\ item.lease = None => Aged(item).lease = None
             /\ item.lease # None => /\ Aged(item).lease.owner = item.lease.owner
                                     /\ Aged(item).lease.dispatch = item.lease.dispatch
                                     /\ \/ Aged(item).lease.ttl = item.lease.ttl
                                        \/ /\ item.lease.ttl # 0
                                           /\ Aged(item).lease.ttl = item.lease.ttl - 1
  <2>1. CASE item.lease = None \/ item.lease.ttl = 0
    BY <1>3, <2>1
  <2>2. CASE ~(item.lease = None \/ item.lease.ttl = 0)
    <3> DEFINE l == [item.lease EXCEPT !.ttl = item.lease.ttl - 1]
    <3>1. item.lease \in Lease /\ item.lease.ttl \in 1..TTL
      <4>1. item.lease \in Lease /\ item.lease.ttl # 0
        BY <2>2 DEF Item
      <4> QED
        BY <4>1, NumberAssumption DEF Lease
    <3>2. item.lease.ttl - 1 \in 0..TTL
      BY <3>1, NumberAssumption
    <3>3. /\ l \in Lease /\ l.owner = item.lease.owner /\ l.dispatch = item.lease.dispatch
          /\ l.ttl = item.lease.ttl - 1
      BY <3>1, <3>2 DEF Lease
    <3>4. Aged(item) = [item EXCEPT !.lease = l]
      BY <2>2, <3>1 DEF Item
    <3> HIDE DEF l, Aged
    <3>5. Aged(item) \in Item
      BY <3>3, <3>4 DEF Item
    <3>6. /\ Aged(item).state = item.state /\ Aged(item).generation = item.generation
          /\ Aged(item).lease = l /\ Aged(item).thread = item.thread
          /\ Aged(item).wait = item.wait /\ Aged(item).enrolled = item.enrolled
      BY <3>4 DEF Item
    <3>7. l # None
      BY <3>3, NameAssumption
    <3>8. ItemOK(Aged(item))
      BY <1>3, <2>2, <3>3, <3>6, <3>7 DEF ItemOK
    <3> QED
      BY <2>2, <3>3, <3>5, <3>6, <3>8
  <2> QED
    BY <2>1, <2>2
<1>4. \A q \in Question : board[q] \in Item /\ ItemOK(board[q])
  BY <1>2 DEF Good
<1> HIDE DEF Aged
<1>5. Good(board')
  BY <1>1, <1>3, <1>4 DEF Good
<1>6. Occupied(board') = Occupied(board) /\ Leased(board') = Leased(board)
  BY <1>1, <1>3, <1>4 DEF Occupied, Leased
<1>7. Counts(board', maxActive)
  BY <1>2, <1>6 DEF Counts
<1>8. Unique(board')
  <2>1. \A q \in Occupied(board) : board'[q].lease.owner = board[q].lease.owner
    BY <1>1, <1>3, <1>4 DEF Occupied, ItemOK
  <2> QED
    BY <1>2, <1>6, <2>1 DEF Unique
<1>9. IInv'
  BY <1>1, <1>2, <1>5, <1>7, <1>8, AssembledInvariant
<1>10. AllQuiet
  <2> SUFFICES ASSUME NEW q \in Question PROVE Quiet(board[q], board'[q])
    BY DEF AllQuiet
  <2>1. CASE board[q].lease = None
    BY <2>1, <1>1, <1>3, <1>4 DEF Quiet, Dropped
  <2>2. CASE board[q].lease # None
    BY <2>2, <1>1, <1>3, <1>4 DEF Quiet, Kept, ItemOK
  <2> QED
    BY <2>1, <2>2
<1> QED
  BY <1>9, <1>10

\* Claiming and recording a dispatch revive no lease.
LEMMA DispatchFenced ==
  ASSUME IInv, NEW q \in Question, NEW l, board[q].state \in Held,
         l.owner = board[q].lease.owner, l.ttl = board[q].lease.ttl,
         board' = With(q, [board[q] EXCEPT !.lease = l])
  PROVE  Fenced
<1>1. board \in [Question -> Item]
  BY InvariantParts DEF Good
<1>2. /\ board'[q].lease = l /\ board'[q].generation = board[q].generation
      /\ board'[q].state = board[q].state
      /\ \A r \in Question \ {q} : board'[r] = board[r]
  BY <1>1 DEF With, Item
<1> QED
  BY <1>2 DEF Fenced, HoldsLease

-----------------------------------------------------------------------------
\* Every step of the board keeps the invariant and revives no lease; every
\* step but claiming and recording a dispatch is quiet.
LEMMA NextStep ==
  ASSUME IInv, [Next]_vars
  PROVE  IInv' /\ Fenced
<1>1. CASE UNCHANGED vars
  <2>1. IInv' /\ AllQuiet
    BY <1>1, BoardUnchanged, InvariantParts, AssembledInvariant DEF vars
  <2> QED
    BY <2>1, QuietIsCalm, CalmIsFenced
<1>2. CASE Control
  BY <1>2, QuietIsCalm, CalmIsFenced, TickStep, ConfigureStep, EnqueueStep, RequeueStep, ResumeExternalStep
     DEF Control
<1>3. CASE OwnerStep
  BY <1>3, QuietIsCalm, CalmIsFenced, HeartbeatStep, AbandonTopicStep, BindPublishedFamilyStep,
     BindInterruptedStep, SetWaitingExternalStep
     DEF OwnerStep
<1>4. CASE DispatchStep
  <2>1. ASSUME NEW q \in Question, NEW w \in Worker, ClaimDispatch(q, w) PROVE Fenced
    <3> DEFINE l == [board[q].lease EXCEPT !.dispatch = "SENDING", !.worker = w]
    <3>1. board[q] \in Item /\ board[q].state \in Held /\ board[q].lease \in Lease
      BY <2>1, InvariantParts DEF Good, ItemOK, Item, ClaimDispatch, Held
    <3>2. l.owner = board[q].lease.owner /\ l.ttl = board[q].lease.ttl
      BY <3>1 DEF Lease
    <3>3. board' = With(q, [board[q] EXCEPT !.lease = l])
      BY <3>1, <2>1 DEF ClaimDispatch, Item
    <3> HIDE DEF l
    <3> QED
      BY <3>1, <3>2, <3>3, DispatchFenced
  <2>2. ASSUME NEW q \in Question, NEW w \in Worker, NEW o \in Thread,
               NEW g \in 0..board[q].generation, RecordDispatch(q, w, o, g)
        PROVE  Fenced
    <3> DEFINE l == [board[q].lease EXCEPT !.dispatch = "SENT"]
    <3>1. board[q] \in Item /\ board[q].state \in Held /\ board[q].lease \in Lease
      BY <2>2, HeldLease DEF RecordDispatch
    <3>2. l.owner = board[q].lease.owner /\ l.ttl = board[q].lease.ttl
      BY <3>1 DEF Lease
    <3>3. board' = With(q, [board[q] EXCEPT !.lease = l])
      BY <3>1, <2>2 DEF RecordDispatch, Item
    <3> HIDE DEF l
    <3> QED
      BY <3>1, <3>2, <3>3, DispatchFenced
  <2> QED
    BY <1>4, <2>1, <2>2, QuietIsCalm, CalmIsFenced, ClaimDispatchStep, RecordDispatchStep, RequireRecoveryStep
       DEF DispatchStep
<1>5. CASE Environment
  <2>1. ExploredRuns \subseteq RunClass
    BY NameAssumption
  <2> QED
    BY <1>5, <2>1, QuietIsCalm, CalmIsFenced, TimePassesStep, RunMovesStep DEF Environment
<1> QED
  BY <1>1, <1>2, <1>3, <1>4, <1>5 DEF Next

\* The inductive invariant holds of every reachable board.
THEOREM Invariance == Spec => []IInv
<1>1. Init => IInv
  BY InvInit
<1>2. IInv /\ [Next]_vars => IInv'
  BY NextStep
<1> QED
  BY <1>1, <1>2, PTL DEF Spec

\* Every board the operations build has the types and the shape that
\* SchedulerSnapshot.validate asks for (scheduler_state.py:167-263).
THEOREM TypeCorrect == Spec => []TypeOK
<1>1. IInv => TypeOK
  BY DEF IInv
<1> QED
  BY <1>1, Invariance, PTL

THEOREM BoardAlwaysValid == Spec => []BoardValid
<1>1. IInv => BoardValid
  BY DEF IInv
<1> QED
  BY <1>1, Invariance, PTL

\* No Teacher ever holds two leases, for any number of Teachers, questions
\* and slots (scheduler.py:454-480).
THEOREM OneLeaseEach == Spec => []OneLeasePerOwner
<1>1. IInv => OneLeasePerOwner
  BY DEF IInv
<1> QED
  BY <1>1, Invariance, PTL

\* The configured slots bound the leases, and the campaign limit everything
\* that occupies a slot (scheduler.py:138-156, 454-480).
THEOREM SlotsRespected == Spec => []SlotsBounded
<1>1. IInv => SlotsBounded
  BY DEF IInv
<1> QED
  BY <1>1, Invariance, PTL

\* Fencing: no step makes an identity valid that is stale (scheduler.py:542-561).
THEOREM StaleStaysStale == Spec => LeaseNeverRevives
<1>1. IInv /\ [Next]_vars => Fenced
  BY NextStep
<1>2. Fenced => \A q \in Question, o \in Thread : \A g \in 1..board[q].generation :
                   ~HoldsLease(q, o, g) => ~HoldsLease(q, o, g)'
  BY DEF Fenced
<1> QED
  BY <1>1, <1>2, Invariance, PTL DEF Spec, LeaseNeverRevives

-----------------------------------------------------------------------------
(* No slot stays idle.                                                     *)

\* The loop passes over an eligible question only when its Teacher holds a lease or
\* all the slots are taken.
LEMMA FilledUp ==
  ASSUME NEW s, Good(s), Unique(s), NEW slots \in 1..SlotLimit,
         NEW A \in SUBSET Question, Fills(A, s, slots),
         NEW n, n = [q \in Question |-> IF q \in A THEN Granted(s[q]) ELSE s[q]],
         Cardinality(Occupied(n)) < slots,
         NEW q \in Question, Eligible(n[q])
  PROVE  n[q].thread \in Owners(n)
<1> DEFINE earlier == {r \in A : r < q}
<1>1. /\ Occupied(n) = Occupied(s) \cup A
      /\ \A r \in Question : n[r] = s[r] \/ Grants(s[r], n[r])
  BY FilledBoard
<1>2. \A r \in A : /\ r \in Occupied(n) /\ n[r].lease.owner = s[r].thread
                  /\ s[r].thread \notin Owners(s)
  <2>1. \A r \in A : Eligible(s[r]) /\ s[r] \in Item /\ ItemOK(s[r]) /\ n[r] = Granted(s[r])
                    /\ s[r].thread \notin Owners(s)
    BY DEF Fills, Good
  <2> QED
    BY <1>1, <2>1, GrantedItem
<1>3. q \notin A /\ n[q] = s[q]
  <2>1. \A r \in A : n[r].state = "LEASED"
    <3>1. \A r \in A : Eligible(s[r]) /\ s[r] \in Item /\ ItemOK(s[r]) /\ n[r] = Granted(s[r])
      BY DEF Fills, Good
    <3> QED
      BY <3>1, GrantedItem DEF Grants
  <2>2. n[q].state = "READY"
    BY DEF Eligible
  <2>3. q \notin A
    BY <2>1, <2>2
  <2> QED
    BY <2>3
<1>4. Owners(s) \subseteq Owners(n)
  <2>1. \A r \in Occupied(s) : r \notin A /\ n[r] = s[r] /\ r \in Occupied(n)
    <3>1. \A r \in A : s[r].state = "READY"
      BY DEF Fills, Eligible
    <3> QED
      BY <1>1, <3>1 DEF Occupied, Held
  <2> QED
    BY <2>1 DEF Owners
<1>5. s[q].thread \in Owners(s) \cup {s[r].thread : r \in earlier}
  <2>1. SUFFICES ASSUME s[q].thread \notin Owners(s) \cup {s[r].thread : r \in earlier}
                 PROVE  FALSE
    OBVIOUS
  <2>2. ~(Cardinality(Occupied(s)) + Cardinality(earlier) < slots)
    BY <1>3, <2>1 DEF Fills
  <2>3. /\ Occupied(s) \cap earlier = {}
        /\ Occupied(s) \cup earlier \in SUBSET Occupied(n)
        /\ Occupied(n) \in SUBSET Question
        /\ Occupied(s) \in SUBSET Question /\ earlier \in SUBSET Question
    <3>1. \A r \in A : s[r].state = "READY"
      BY DEF Fills, Eligible
    <3> QED
      BY <1>1, <3>1 DEF Occupied, Held
  <2> HIDE DEF earlier
  <2>4. /\ IsFiniteSet(Occupied(s)) /\ IsFiniteSet(earlier)
        /\ Cardinality(Occupied(s)) \in Nat /\ Cardinality(earlier) \in Nat
    BY <2>3, QuestionAssumption, FS_Subset, FS_CardinalityType
  <2>5. Cardinality(Occupied(s) \cup earlier) = Cardinality(Occupied(s)) + Cardinality(earlier)
    <3>1. Cardinality(Occupied(s) \cup earlier) = Cardinality(Occupied(s)) + Cardinality(earlier)
                                                  - Cardinality(Occupied(s) \cap earlier)
      BY <2>4, FS_Union
    <3>2. Cardinality(Occupied(s) \cap earlier) = 0
      BY <2>3, FS_EmptySet
    <3> QED
      BY <2>4, <3>1, <3>2
  <2>6. /\ Cardinality(Occupied(s) \cup earlier) <= Cardinality(Occupied(n))
        /\ Cardinality(Occupied(n)) \in Nat
    BY <2>3, SubsetCount
  <2> QED
    BY <2>2, <2>4, <2>5, <2>6, NumberAssumption
<1>6. CASE s[q].thread \in Owners(s)
  BY <1>3, <1>4, <1>6
<1>7. CASE s[q].thread \in {s[r].thread : r \in earlier}
  <2>1. PICK r \in A : s[q].thread = s[r].thread
    BY <1>7
  <2> QED
    BY <1>2, <1>3, <2>1 DEF Owners
<1> QED
  BY <1>5, <1>6, <1>7

FillsSlots ==
  Tick /\ Cardinality(Occupied(board')) < maxActive =>
    \A q \in Question : Eligible(board'[q]) => board'[q].thread \in Owners(board')

\* A tick leaves no slot idle while an eligible question has a free Teacher, however
\* many questions share one (scheduler.py:454-480).
THEOREM NoSlotIdle == Spec => TickFillsSlots
<1>1. IInv => FillsSlots
  <2> SUFFICES ASSUME IInv, Tick, Cardinality(Occupied(board')) < maxActive,
                      NEW q \in Question, Eligible(board'[q])
               PROVE  board'[q].thread \in Owners(board')
    BY DEF FillsSlots
  <2>1. /\ Good(board) /\ Unique(board) /\ maxActive \in 1..SlotLimit
        /\ run \in [Question -> RunClass]
    BY InvariantParts
  <2>2. Good(Sync(board)) /\ Unique(Sync(board))
    BY <2>1, SyncedBoard
  <2>3. PICK A \in SUBSET Question :
          /\ Fills(A, Sync(board), maxActive)
          /\ board' = [r \in Question |-> IF r \in A THEN Granted(Sync(board)[r])
                                         ELSE Sync(board)[r]]
    BY DEF Tick, SyncAndFill, Sync
  <2> QED
    BY <2>1, <2>2, <2>3, FilledUp
<1>2. FillsSlots => (Tick /\ Cardinality(Occupied(board')) < maxActive =>
                       \A q \in Question : Eligible(board'[q]) => board'[q].thread \in Owners(board'))
  BY DEF FillsSlots
<1> QED
  BY <1>1, <1>2, Invariance, PTL DEF Spec, TickFillsSlots

-----------------------------------------------------------------------------
(* The set a tick activates is a result the loop has, and its only one.      *)

\* Whether the loop activates q when it has already activated earlier.
Activates(q, earlier, s, slots) ==
  /\ Eligible(s[q])
  /\ s[q].thread \notin Owners(s) \cup {s[r].thread : r \in earlier}
  /\ Cardinality(Occupied(s)) + Cardinality(earlier) < slots

Earlier(A, q) == {r \in A : r < q}

LEMMA FillsByActivation ==
  ASSUME NEW s, NEW slots, NEW A
  PROVE  Fills(A, s, slots) <=>
           \A q \in Question : q \in A <=> Activates(q, Earlier(A, q), s, slots)
BY Zenon DEF Fills, Activates, Earlier

\* A non-empty set of questions has a first one: the last question before which
\* there is nothing of the set.
LEMMA FirstQuestion ==
  ASSUME NEW A \in SUBSET Question, A # {}
  PROVE  \E q \in A : \A r \in A : q <= r
<1>1. SUFFICES ASSUME \A q \in A : \E r \in A : ~(q <= r) PROVE FALSE
  OBVIOUS
<1>2. \A q \in A : q \in Nat
  BY QuestionAssumption
<1> DEFINE Below(q) == {r \in A : r < q}
           T == {Below(q) : q \in A}
<1>3. T # {} /\ T \subseteq FiniteSubsetsOf(Question)
  <2>1. FiniteSubsetsOf(Question) = SUBSET Question
    BY QuestionAssumption, FS_FiniteSubsetsOfFinite
  <2>2. \A q \in A : Below(q) \in SUBSET Question
    OBVIOUS
  <2> HIDE DEF Below
  <2> QED
    BY <2>1, <2>2
<1>4. IsWellFoundedOn(StrictSubsetOrdering(Question), FiniteSubsetsOf(Question))
  BY FS_StrictSubsetOrderingWellFounded
<1> HIDE DEF T
<1>5. PICK x \in T : \A y \in T : ~(<<y, x>> \in StrictSubsetOrdering(Question))
  BY <1>3, <1>4, WFMin, Zenon
<1> USE DEF T
<1>6. PICK q \in A : x = Below(q)
  OBVIOUS
<1>7. PICK r \in A : ~(q <= r)
  BY <1>1
<1>8. Below(r) \subseteq Below(q) /\ r \in Below(q) /\ r \notin Below(r)
  <2>1. r < q /\ ~(r < r) /\ \A t \in A : t < r => t < q
    BY <1>2, <1>7
  <2> QED
    BY <2>1
<1>9. <<Below(r), Below(q)>> \in StrictSubsetOrdering(Question)
  BY <1>8 DEF StrictSubsetOrdering
<1> QED
  BY <1>5, <1>6, <1>9

\* Two results cannot differ: at the first question where they do, the loop has
\* activated the same before it.
LEMMA FillsUnique ==
  ASSUME NEW s, NEW slots, NEW A \in SUBSET Question, NEW B \in SUBSET Question,
         Fills(A, s, slots), Fills(B, s, slots)
  PROVE  A = B
<1> DEFINE D == (A \ B) \cup (B \ A)
<1>1. SUFFICES ASSUME D # {} PROVE FALSE
  OBVIOUS
<1>2. PICK q \in D : \A r \in D : q <= r
  <2>1. D \in SUBSET Question
    OBVIOUS
  <2> HIDE DEF D
  <2> QED
    BY <1>1, <2>1, FirstQuestion
<1>3. q \in Question /\ \A r \in Question : r < q => (r \in A <=> r \in B)
  <2>1. \A r \in Question : r \in Nat
    BY QuestionAssumption
  <2> QED
    BY <1>2, <2>1
<1>4. Earlier(A, q) = Earlier(B, q)
  BY <1>3 DEF Earlier
<1>5. /\ q \in A <=> Activates(q, Earlier(A, q), s, slots)
      /\ q \in B <=> Activates(q, Earlier(B, q), s, slots)
  BY <1>3, FillsByActivation
<1> QED
  BY <1>2, <1>4, <1>5

\* The loop over the questions of P alone.
FilledIn(P, A, s, slots) ==
  /\ A \in SUBSET P
  /\ \A q \in P : q \in A <=> Activates(q, Earlier(A, q), s, slots)

\* Whatever the loop did before its last question, that question is activated or not.
LEMMA OneMoreQuestion ==
  ASSUME NEW s, NEW slots, NEW P \in SUBSET Question,
         NEW q \in P, \A r \in P : r <= q,
         NEW B, FilledIn(P \ {q}, B, s, slots)
  PROVE  \E A : FilledIn(P, A, s, slots)
<1> DEFINE A == IF Activates(q, B, s, slots) THEN B \cup {q} ELSE B
<1>1. B \in SUBSET (P \ {q})
  BY DEF FilledIn
<1>2. q \in Nat /\ \A r \in P : r \in Nat
  BY QuestionAssumption
<1>3. \A r \in P \ {q} : r < q /\ ~(q < r)
  BY <1>2
<1>4. Earlier(A, q) = B
  <2>1. ~(q < q)
    BY <1>2
  <2> QED
    BY <1>1, <1>3, <2>1 DEF Earlier
<1>5. \A r \in P \ {q} : Earlier(A, r) = Earlier(B, r) /\ (r \in A <=> r \in B)
  BY <1>1, <1>3 DEF Earlier
<1>6. q \in A <=> Activates(q, B, s, slots)
  BY <1>1
<1>7. A \in SUBSET P
  BY <1>1
<1> HIDE DEF A
<1>8. \A r \in P : r \in A <=> Activates(r, Earlier(A, r), s, slots)
  <2> SUFFICES ASSUME NEW r \in P PROVE r \in A <=> Activates(r, Earlier(A, r), s, slots)
    OBVIOUS
  <2>1. CASE r = q
    BY <2>1, <1>4, <1>6
  <2>2. CASE r # q
    <3>1. r \in B <=> Activates(r, Earlier(B, r), s, slots)
      BY <2>2 DEF FilledIn
    <3> QED
      BY <2>2, <3>1, <1>5
  <2> QED
    BY <2>1, <2>2
<1>9. FilledIn(P, A, s, slots)
  BY <1>7, <1>8 DEF FilledIn
<1> QED
  BY <1>9

LEMMA FillsExists ==
  ASSUME NEW s, NEW slots
  PROVE  \E A \in SUBSET Question : Fills(A, s, slots)
<1> DEFINE Stuck == {P \in SUBSET Question : ~\E A : FilledIn(P, A, s, slots)}
<1>1. Stuck = {}
  <2> SUFFICES ASSUME Stuck # {} PROVE FALSE
    OBVIOUS
  <2>1. Stuck \subseteq FiniteSubsetsOf(Question)
    BY QuestionAssumption, FS_FiniteSubsetsOfFinite
  <2>2. IsWellFoundedOn(StrictSubsetOrdering(Question), FiniteSubsetsOf(Question))
    BY FS_StrictSubsetOrderingWellFounded
  <2> HIDE DEF Stuck
  <2>3. PICK P \in Stuck : \A y \in Stuck : ~(<<y, P>> \in StrictSubsetOrdering(Question))
    BY <2>1, <2>2, WFMin, Zenon
  <2> USE DEF Stuck
  <2>4. P # {}
    <3>1. FilledIn({}, {}, s, slots)
      BY DEF FilledIn
    <3> QED
      BY <3>1
  <2>5. PICK q \in P : \A r \in P : r <= q
    BY <2>4, LastQuestion
  <2>6. <<P \ {q}, P>> \in StrictSubsetOrdering(Question)
    BY <2>5 DEF StrictSubsetOrdering
  <2>7. PICK B : FilledIn(P \ {q}, B, s, slots)
    BY <2>3, <2>6
  <2>8. \E A : FilledIn(P, A, s, slots)
    BY <2>5, <2>7, OneMoreQuestion
  <2> QED
    BY <2>8
<1>2. PICK A : FilledIn(Question, A, s, slots)
  BY <1>1
<1> QED
  BY <1>2, FillsByActivation DEF FilledIn

\* On every board and for every number of slots the loop activates exactly one set of
\* questions: SyncAndFill, which names that set by what it is, never stops an operation
\* and never leaves it a choice (scheduler.py:454-480).
THEOREM FillIsDetermined ==
  ASSUME NEW s, NEW slots
  PROVE  /\ \E A \in SUBSET Question : Fills(A, s, slots)
         /\ \A A, B \in SUBSET Question : Fills(A, s, slots) /\ Fills(B, s, slots) => A = B
BY FillsExists, FillsUnique

-----------------------------------------------------------------------------
(* What a tick leaves.                                                       *)

LEMMA StaysLeased ==
  ASSUME NEW item \in Item, ItemOK(item), NEW r \in RunClass, Synced(item, r).state = "LEASED"
  PROVE  item.state = "LEASED" /\ item.lease.ttl # 0 /\ r \in {"WORKING", "UNREADABLE"}
<1>1. item.state = "LEASED" /\ item.lease.ttl # 0
  BY SyncedItem
<1>2. CASE r = "ABSENT"
  BY <1>1, <1>2 DEF Synced, Released, Item
<1>3. CASE r = "FINISHED"
  BY <1>1, <1>3 DEF Synced, Item
<1>4. CASE r = "DEFERRED"
  BY <1>1, <1>4 DEF Synced, Waiting, Item
<1>5. CASE r \in {"BLOCKED", "ABANDONED"}
  BY <1>1, <1>5 DEF Synced, Released, Item
<1> QED
  BY <1>1, <1>2, <1>3, <1>4, <1>5 DEF RunClass

\* It holds for every board, as the fill loop only activates eligible questions
\* (_tick_locked, _sync_run).
THEOREM TicksSettle == Spec => TickSettles
<1>1. IInv => Settles
  <2> SUFFICES ASSUME IInv, Tick, NEW q \in Question, board'[q].state = "LEASED"
               PROVE  /\ board'[q].lease.ttl # 0
                      /\ run[q] = "WORKING" \/ board'[q].generation = board[q].generation + 1
    BY DEF Settles
  <2>1. /\ Good(board) /\ Unique(board) /\ maxActive \in 1..SlotLimit
        /\ run \in [Question -> RunClass]
    BY InvariantParts
  <2>2. Good(Sync(board)) /\ Unique(Sync(board))
    BY <2>1, SyncedBoard
  <2>3. PICK A \in SUBSET Question :
          /\ Fills(A, Sync(board), maxActive)
          /\ RunsReadable(board)
          /\ board' = [r \in Question |-> IF r \in A THEN Granted(Sync(board)[r])
                                         ELSE Sync(board)[r]]
    BY DEF Tick, SyncAndFill, Sync
  <2>4. /\ Sync(board)[q] = Synced(board[q], run[q])
        /\ board[q] \in Item /\ ItemOK(board[q]) /\ run[q] \in RunClass
        /\ Sync(board)[q] \in Item /\ ItemOK(Sync(board)[q])
        /\ Sync(board)[q].generation = board[q].generation
        /\ Sync(board)[q].state \in Held => Sync(board)[q].lease = board[q].lease
    <3>1. /\ Sync(board)[q] = Synced(board[q], run[q])
          /\ board[q] \in Item /\ ItemOK(board[q]) /\ run[q] \in RunClass
          /\ Sync(board)[q] \in Item /\ ItemOK(Sync(board)[q])
      BY <2>1, <2>2 DEF Sync, Good
    <3> QED
      BY <3>1, SyncedItem
  <2>5. CASE q \in A
    <3>1. board'[q] = Granted(Sync(board)[q])
      BY <2>3, <2>5
    <3>2. Granted(Sync(board)[q]).lease.ttl = TTL
      BY <2>4 DEF Granted, Item
    <3>3. Granted(Sync(board)[q]).generation = board[q].generation + 1
      BY <2>4 DEF Granted, Item
    <3> QED
      BY <3>1, <3>2, <3>3, NumberAssumption
  <2>6. CASE q \notin A
    <3>1. board'[q] = Sync(board)[q]
      BY <2>3, <2>6
    <3>2. board[q].state = "LEASED" /\ board[q].lease.ttl # 0
          /\ run[q] \in {"WORKING", "UNREADABLE"}
      BY <2>4, <3>1, StaysLeased
    <3>3. run[q] = "WORKING"
      BY <2>3, <3>2 DEF RunsReadable
    <3> QED
      BY <2>4, <3>1, <3>2, <3>3 DEF Held
  <2> QED
    BY <2>5, <2>6
<1> QED
  BY <1>1, Invariance, PTL DEF Spec, TickSettles

-----------------------------------------------------------------------------
(* Reconciliation of a batch with its last publication.                    *)

\* Filling the slots completes no question.
LEMMA FillCompletesNothing ==
  ASSUME run \in [Question -> RunClass], NEW b \in [Question -> Item], NEW slots,
         SyncAndFill(b, slots), NEW q \in Question, board'[q].state = "COMPLETED"
  PROVE  b[q].state = "COMPLETED"
<1> DEFINE s == [p \in Question |-> Synced(b[p], run[p])]
<1>1. PICK A \in SUBSET Question :
        board' = [p \in Question |-> IF p \in A THEN Granted(s[p]) ELSE s[p]]
  BY DEF SyncAndFill
<1>2. b[q] \in Item /\ s[q] = Synced(b[q], run[q]) /\ run[q] \in RunClass
  OBVIOUS
<1>3. s[q] \in Item /\ (s[q].state = "COMPLETED" => b[q].state = "COMPLETED")
  <2> DEFINE i == b[q]
             r == run[q]
  <2>1. CASE s[q] = i
    BY <1>2, <2>1
  <2>2. CASE i.state = "LEASED" /\ (i.lease.ttl = 0 \/ r = "ABSENT")
    BY <1>2, <2>2 DEF Synced, Item, Released, QueueState
  <2>3. CASE i.state = "LEASED" /\ i.lease.ttl # 0 /\ r = "FINISHED"
    BY <1>2, <2>3 DEF Synced, Item, QueueState
  <2>4. CASE i.state = "LEASED" /\ i.lease.ttl # 0 /\ r = "DEFERRED"
    BY <1>2, <2>4 DEF Synced, Item, Waiting, QueueState
  <2>5. CASE i.state = "LEASED" /\ i.lease.ttl # 0 /\ r \in {"BLOCKED", "ABANDONED"}
    BY <1>2, <2>5 DEF Synced, Item, Released, QueueState
  <2>6. CASE i.state = "LEASED" /\ i.lease.ttl # 0 /\ r \in {"WORKING", "UNREADABLE"}
    <3>1. s[q] = i
      BY <1>2, <2>6 DEF Synced
    <3> QED
      BY <2>1, <3>1
  <2>7. CASE i.state # "LEASED"
    <3>1. s[q] = i
      BY <1>2, <2>7 DEF Synced
    <3> QED
      BY <2>1, <3>1
  <2> QED
    BY <1>2, <2>2, <2>3, <2>4, <2>5, <2>6, <2>7 DEF RunClass
<1>4. q \in A => board'[q].state = "LEASED"
  BY <1>1, <1>2, <1>3 DEF Granted, Item
<1>5. q \notin A => board'[q] = s[q]
  BY <1>1
<1> QED
  BY <1>3, <1>4, <1>5

\* Nothing completes in this step.
CompletesNothing ==
  \A q \in Question : board'[q].state = "COMPLETED" => board[q].state = "COMPLETED"

\* An operation that puts an item in the board and fills the slots completes
\* at most the question of that item.
LEMMA OperationCompletes ==
  ASSUME IInv, NEW p \in Question, NEW item \in Item, NEW slots,
         SyncAndFill(With(p, item), slots), NEW q \in Question,
         board'[q].state = "COMPLETED"
  PROVE  board[q].state = "COMPLETED" \/ (q = p /\ item.state = "COMPLETED")
<1>1. board \in [Question -> Item] /\ run \in [Question -> RunClass]
  BY InvariantParts DEF Good
<1>2. With(p, item) \in [Question -> Item]
  BY <1>1 DEF With
<1>3. With(p, item)[q].state = "COMPLETED"
  BY <1>1, <1>2, FillCompletesNothing
<1> QED
  BY <1>1, <1>3 DEF With

LEMMA ControlCompletes == IInv /\ Control => CompletesNothing
<1> SUFFICES ASSUME IInv, Control PROVE CompletesNothing
  OBVIOUS
<1>1. board \in [Question -> Item] /\ run \in [Question -> RunClass]
  BY InvariantParts DEF Good
<1>2. CASE Tick
  BY <1>1, <1>2, FillCompletesNothing DEF Tick, CompletesNothing
<1>3. ASSUME NEW slots \in 1..SlotLimit, Configure(slots) PROVE CompletesNothing
  BY <1>1, <1>3, FillCompletesNothing DEF Configure, CompletesNothing
<1>4. ASSUME NEW q \in Question, NEW t \in Thread \cup {None}, Enqueue(q, t)
      PROVE  CompletesNothing
  <2> DEFINE item == [board[q] EXCEPT !.state = "READY", !.enrolled = TRUE,
                                      !.thread = IF t = None THEN @ ELSE t]
  <2>1. item \in Item /\ item.state = "READY"
    BY <1>1 DEF Item, QueueState
  <2>2. SyncAndFill(With(q, item), maxActive)
    BY <1>4 DEF Enqueue
  <2> HIDE DEF item
  <2> QED
    BY <2>1, <2>2, OperationCompletes DEF CompletesNothing
<1>5. ASSUME NEW q \in Question, SyncAndFill(With(q, Released(board[q], "READY")), maxActive)
      PROVE  CompletesNothing
  <2>1. Released(board[q], "READY") \in Item /\ Released(board[q], "READY").state = "READY"
    BY <1>1 DEF Item, QueueState, Released
  <2> QED
    BY <1>5, <2>1, OperationCompletes DEF CompletesNothing
<1> QED
  BY <1>2, <1>3, <1>4, <1>5 DEF Control, Requeue, ResumeExternal

\* A question completes only when its family is bound.
LEMMA OnlyBindCompletes ==
  ASSUME IInv, [Next]_vars,
         ~(\E q \in Question, o \in Thread : \E g \in 0..board[q].generation :
             BindPublishedFamily(q, o, g))
  PROVE  CompletesNothing
<1>1. board \in [Question -> Item] /\ run \in [Question -> RunClass]
  BY InvariantParts DEF Good
<1>2. CASE UNCHANGED board
  BY <1>2 DEF CompletesNothing
<1>3. ASSUME NEW q \in Question, NEW item,
             board' = With(q, item), item.state = board[q].state
      PROVE  CompletesNothing
  BY <1>1, <1>3 DEF With, CompletesNothing
<1>4. CASE Control
  BY <1>4, ControlCompletes
<1>5. CASE OwnerStep
  <2>1. PICK q \in Question, o \in Thread : \E g \in 0..board[q].generation :
          \/ Heartbeat(q, o, g) \/ AbandonTopic(q, o, g) \/ BindInterrupted(q, o, g)
          \/ \E id \in External : SetWaitingExternal(q, o, g, id)
    BY <1>5 DEF OwnerStep
  <2>2. PICK g \in 0..board[q].generation :
          \/ Heartbeat(q, o, g) \/ AbandonTopic(q, o, g) \/ BindInterrupted(q, o, g)
          \/ \E id \in External : SetWaitingExternal(q, o, g, id)
    BY <2>1
  <2>3. CASE Heartbeat(q, o, g)
    <3> DEFINE item == [board[q] EXCEPT !.lease.ttl = TTL]
    <3>1. item.state = board[q].state /\ board' = With(q, item)
      BY <1>1, <2>3 DEF Heartbeat, Item
    <3> HIDE DEF item
    <3> QED
      BY <1>3, <3>1
  <2>4. CASE AbandonTopic(q, o, g)
    <3>1. /\ Released(board[q], "ABANDONED") \in Item
          /\ Released(board[q], "ABANDONED").state = "ABANDONED"
      BY <1>1 DEF Item, QueueState, Released
    <3> QED
      BY <2>4, <3>1, OperationCompletes DEF AbandonTopic, CompletesNothing
  <2>5. CASE BindInterrupted(q, o, g)
    BY <2>5, <1>2 DEF BindInterrupted
  <2>6. ASSUME NEW id \in External, SetWaitingExternal(q, o, g, id) PROVE CompletesNothing
    <3>1. /\ Waiting(board[q], id) \in Item
          /\ Waiting(board[q], id).state = "WAITING_EXTERNAL"
      BY <1>1 DEF Item, QueueState, Waiting
    <3> QED
      BY <2>6, <3>1, OperationCompletes DEF SetWaitingExternal, CompletesNothing
  <2> QED
    BY <2>2, <2>3, <2>4, <2>5, <2>6
<1>6. CASE DispatchStep
  <2>1. ASSUME NEW q \in Question, NEW w \in Worker, ClaimDispatch(q, w) PROVE CompletesNothing
    <3> DEFINE item == [board[q] EXCEPT !.lease.dispatch = "SENDING", !.lease.worker = w]
    <3>1. item.state = board[q].state /\ board' = With(q, item)
      BY <1>1, <2>1 DEF ClaimDispatch, Item
    <3> HIDE DEF item
    <3> QED
      BY <1>3, <3>1
  <2>2. ASSUME NEW q \in Question, NEW w \in Worker, NEW o \in Thread,
               NEW g \in 0..board[q].generation, RecordDispatch(q, w, o, g)
        PROVE  CompletesNothing
    <3> DEFINE item == [board[q] EXCEPT !.lease.dispatch = "SENT"]
    <3>1. item.state = board[q].state /\ board' = With(q, item)
      BY <1>1, <2>2 DEF RecordDispatch, Item
    <3> HIDE DEF item
    <3> QED
      BY <1>3, <3>1
  <2>3. ASSUME NEW q \in Question, NEW w \in Worker, NEW o \in Thread,
               NEW g \in 0..board[q].generation, RequireRecovery(q, w, o, g)
        PROVE  CompletesNothing
    <3>1. /\ Released(board[q], "RECOVERY_REQUIRED") \in Item
          /\ Released(board[q], "RECOVERY_REQUIRED").state = "RECOVERY_REQUIRED"
      BY <1>1 DEF Item, QueueState, Released
    <3> QED
      BY <2>3, <3>1, OperationCompletes DEF RequireRecovery, CompletesNothing
  <2> QED
    BY <1>6, <2>1, <2>2, <2>3 DEF DispatchStep
<1>7. CASE TimePasses
  <2>1. \A q \in Question : board'[q].state = board[q].state
    BY <1>1, <1>7 DEF TimePasses, Item
  <2> QED
    BY <2>1 DEF CompletesNothing
<1>8. CASE Environment
  BY <1>2, <1>7, <1>8 DEF Environment, RunMoves
<1> QED
  BY <1>2, <1>4, <1>5, <1>6, <1>8 DEF Next, vars

LEMMA ReconciledStep ==
  ASSUME IInv, BatchReconciled, [Next]_vars
  PROVE  BatchReconciled'
<1>1. \A q \in Question : Roster(q) \subseteq Question /\ q \in Roster(q)
  BY NameAssumption DEF Roster
<1>2. CASE CompletesNothing /\ reconciled \subseteq reconciled'
  BY <1>1, <1>2 DEF CompletesNothing, BatchReconciled, Roster
<1>3. reconciled \subseteq reconciled'
  BY DEF Next, vars, Control, OwnerStep, DispatchStep, Environment, Tick, Configure, Enqueue,
         Requeue, ResumeExternal, Heartbeat, AbandonTopic, BindPublishedFamily, BindInterrupted,
         SetWaitingExternal, ClaimDispatch, RecordDispatch, RequireRecovery, TimePasses, RunMoves
<1>4. ASSUME NEW p \in Question, NEW o \in Thread, NEW g \in 0..board[p].generation,
             BindPublishedFamily(p, o, g)
      PROVE  BatchReconciled'
  <2>1. Released(board[p], "COMPLETED") \in Item
    <3>1. board[p] \in Item
      BY InvariantParts DEF Good
    <3> QED
      BY <3>1 DEF Item, QueueState, Released
  <2>2. \A q \in Question \ {p} :
          board'[q].state = "COMPLETED" => board[q].state = "COMPLETED"
    BY <1>4, <2>1, OperationCompletes DEF BindPublishedFamily
  <2>3. SUFFICES ASSUME NEW q \in Question, \A r \in Roster(q) : board'[r].state = "COMPLETED"
                 PROVE  Roster(q) \in reconciled'
    BY DEF BatchReconciled, Roster
  <2>4. CASE p \notin Roster(q)
    BY <1>1, <1>3, <2>2, <2>3, <2>4 DEF BatchReconciled
  <2>5. CASE p \in Roster(q)
    <3>1. Roster(q) = Roster(p)
      BY <2>5 DEF Roster
    <3>2. Unfinished(p) = {}
      BY <1>1, <2>2, <2>3, <3>1 DEF Unfinished
    <3> QED
      BY <1>4, <3>1, <3>2 DEF BindPublishedFamily
  <2> QED
    BY <2>4, <2>5
<1> QED
  BY <1>2, <1>3, <1>4, OnlyBindCompletes

\* No batch is forgotten: once its last question completes it has been
\* reconciled with the Skill Bank, for any batch and any order of
\* publications and interruptions (scheduler.py:410-433).
THEOREM BatchesReconciled == Spec => []BatchReconciled
<1>1. Init => BatchReconciled
  <2> SUFFICES ASSUME Init PROVE BatchReconciled
    OBVIOUS
  <2>1. \A q \in Question : q \in Roster(q) /\ board[q].state # "COMPLETED"
    BY DEF Init, Roster
  <2> QED
    BY <2>1 DEF BatchReconciled
<1>2. IInv /\ BatchReconciled /\ [Next]_vars => BatchReconciled'
  BY ReconciledStep
<1> QED
  BY <1>1, <1>2, Invariance, PTL DEF Spec

-----------------------------------------------------------------------------
(* The dispatch workers.                                                   *)


\* A ticket is used up: its grant can no longer be claimed for dispatch.
Used(q, g) == /\ g <= board[q].generation
              /\ board[q].generation = g /\ board[q].lease # None
                   => board[q].lease.dispatch # "PENDING"

Busy == {"send", "record", "recover"}

\* What a worker knows while it handles a job.
Handling(w) ==
  /\ wpc[w] \in Busy => job[w] \in Job /\ Used(job[w].q, job[w].generation)
  /\ wpc[w] = "record" => Ticket(job[w]) \in sent

SentUsed == \A t \in sent : Used(t[1], t[2])

DInv == /\ IInv /\ DispatchTypeOK /\ OneMessagePerGrant /\ SentWasDelivered
        /\ SentUsed /\ \A w \in Worker : Handling(w)

-----------------------------------------------------------------------------
\* The types of a valid board.
LEMMA BoardTypes ==
  ASSUME IInv, NEW q \in Question
  PROVE  /\ board[q] \in Item /\ board[q].generation \in Nat
         /\ board[q].lease # None => board[q].lease \in Lease
         /\ board[q].state \in Held <=> board[q].lease # None
BY InvariantParts DEF Good, Item, ItemOK

\* A used ticket stays used, and what is SENT was SENT, in a calm step.
LEMMA CalmKeepsUsed ==
  ASSUME IInv, IInv', AllCalm, NEW q \in Question
  PROVE  /\ \A g \in Nat : Used(q, g) => Used(q, g)'
         /\ board'[q].lease # None /\ board'[q].lease.dispatch = "SENT" =>
              /\ board[q].lease # None /\ board[q].lease.dispatch = "SENT"
              /\ board'[q].generation = board[q].generation
<1>1. /\ Quiet(board[q], board'[q]) \/ Renewed(board[q], board'[q])
      /\ board[q].generation \in Nat
  BY BoardTypes DEF AllCalm
<1> QED
  BY <1>1 DEF Quiet, Dropped, Granting, Kept, Renewed, Used

\* A step that is calm on the board and leaves the workers alone.
LEMMA CalmBoardStep ==
  ASSUME DInv, IInv', AllCalm, UNCHANGED wvars
  PROVE  DInv'
<1>1. \A q \in Question : \A g \in Nat : Used(q, g) => Used(q, g)'
  BY QuietIsCalm, CalmKeepsUsed DEF DInv
<1>2. DispatchTypeOK' /\ OneMessagePerGrant'
  BY DEF DInv, DispatchTypeOK, OneMessagePerGrant, wvars, IInv
<1>3. SentWasDelivered'
  BY QuietIsCalm, CalmKeepsUsed DEF DInv, SentWasDelivered, wvars
<1>4. \A t \in sent : t[1] \in Question /\ t[2] \in Nat
  BY DEF DInv, DispatchTypeOK
<1>5. SentUsed'
  BY <1>1, <1>4 DEF DInv, SentUsed, wvars
<1>6. ASSUME NEW w \in Worker PROVE Handling(w)'
  BY <1>1 DEF DInv, Handling, Job, wvars
<1> QED
  BY <1>2, <1>3, <1>5, <1>6 DEF DInv

\* A worker that does not enter "send" moves; the others stay where they are.
LEMMA WorkerMove ==
  ASSUME DInv, IInv', NEW w \in Worker, DispatchTypeOK', SentWasDelivered',
         \A q \in Question : \A g \in Nat : Used(q, g) => Used(q, g)',
         \/ sent' = sent
         \/ wpc[w] = "send" /\ sent' = sent \cup {Ticket(job[w])},
         \A v \in Worker \ {w} : wpc'[v] = wpc[v] /\ job'[v] = job[v],
         wpc'[w] # "send",
         wpc'[w] \in Busy => job'[w] = job[w] /\ wpc[w] \in Busy,
         wpc'[w] = "record" => Ticket(job[w]) \in sent'
  PROVE  DInv'
<1>1. OneMessagePerGrant'
  <2> SUFFICES ASSUME NEW v \in Worker, wpc'[v] = "send"
               PROVE  /\ Ticket(job'[v]) \notin sent'
                      /\ \A u \in Worker \ {v} : wpc'[u] = "send" => Ticket(job'[u]) # Ticket(job'[v])
    BY DEF OneMessagePerGrant, Ticket
  <2>1. v # w /\ wpc[v] = "send" /\ job'[v] = job[v]
    OBVIOUS
  <2>2. Ticket(job[v]) \notin sent
        /\ \A u \in Worker \ {v} : wpc[u] = "send" => Ticket(job[u]) # Ticket(job[v])
    BY <2>1 DEF DInv, OneMessagePerGrant
  <2>3. Ticket(job'[v]) \notin sent'
    BY <2>1, <2>2 DEF Ticket
  <2>4. \A u \in Worker \ {v} : wpc'[u] = "send" => Ticket(job'[u]) # Ticket(job'[v])
    BY <2>1, <2>2
  <2> QED
    BY <2>3, <2>4
<1>2. SentUsed'
  <2>1. \A t \in sent : t[1] \in Question /\ t[2] \in Nat /\ Used(t[1], t[2])
    BY DEF DInv, DispatchTypeOK, SentUsed
  <2>2. wpc[w] = "send" => /\ job[w].q \in Question /\ job[w].generation \in Nat
                           /\ Used(job[w].q, job[w].generation)
    BY DEF DInv, Handling, Busy, Job
  <2>3. Ticket(job[w])[1] = job[w].q /\ Ticket(job[w])[2] = job[w].generation
    BY DEF Ticket
  <2> QED
    BY <2>1, <2>2, <2>3 DEF SentUsed
<1>3. ASSUME NEW v \in Worker PROVE Handling(v)'
  <2>1. Handling(v) /\ (job[v] \in Job => job[v].q \in Question /\ job[v].generation \in Nat)
    BY DEF DInv, Job
  <2>2. CASE v = w
    <3>1. ASSUME wpc'[v] \in Busy
          PROVE  job'[v] = job[v] /\ job[v] \in Job /\ Used(job[v].q, job[v].generation)'
      BY <2>1, <2>2, <3>1 DEF Handling
    <3>2. wpc'[v] \in Busy => job'[v] \in Job /\ Used(job[v].q, job[v].generation)' /\ job'[v] = job[v]
      BY <3>1
    <3>3. wpc'[v] = "record" => Ticket(job[v])' \in sent'
      <4>1. wpc'[v] = "record" => job'[v] = job[v] /\ Ticket(job[v]) \in sent'
        BY <3>2, <2>2 DEF Busy
      <4> QED
        BY <4>1 DEF Ticket
    <3> QED
      BY <3>2, <3>3 DEF Handling, Used
  <2>3. CASE v # w
    BY <2>1, <2>3 DEF Handling, Ticket
  <2> QED
    BY <2>2, <2>3
<1> QED
  BY <1>1, <1>2, <1>3 DEF DInv

\* The same for a worker step that is quiet on the board.
LEMMA QuietWorkerMove ==
  ASSUME DInv, IInv', AllQuiet, NEW w \in Worker, DispatchTypeOK',
         \/ sent' = sent
         \/ wpc[w] = "send" /\ sent' = sent \cup {Ticket(job[w])},
         \A v \in Worker \ {w} : wpc'[v] = wpc[v] /\ job'[v] = job[v],
         wpc'[w] # "send",
         wpc'[w] \in Busy => job'[w] = job[w] /\ wpc[w] \in Busy,
         wpc'[w] = "record" => Ticket(job[w]) \in sent'
  PROVE  DInv'
<1>1. \A q \in Question : \A g \in Nat : Used(q, g) => Used(q, g)'
  BY QuietIsCalm, CalmKeepsUsed DEF DInv
<1>2. SentWasDelivered'
  BY QuietIsCalm, CalmKeepsUsed DEF DInv, SentWasDelivered
<1> QED
  BY <1>1, <1>2, WorkerMove

\* Leaving the round, with or without the message sent.
LEMMA LeaveStep ==
  ASSUME DInv, NEW w \in Worker, Leave(w), UNCHANGED bvars,
         \/ sent' = sent
         \/ wpc[w] = "send" /\ sent' = sent \cup {Ticket(job[w])}
  PROVE  DInv'
<1>1. IInv /\ DispatchTypeOK /\ Handling(w) /\ TypeOK
  BY DEF DInv, IInv
<1>2. IInv' /\ AllQuiet
  BY <1>1, BoardUnchanged, InvariantParts, AssembledInvariant DEF bvars
<1>3. wpc[w] = "send" => Ticket(job[w]) \in Question \X Nat
  BY <1>1 DEF Handling, Busy, Job, Ticket
<1>4. /\ wpc' \in [Worker -> {"idle", "claim", "send", "record", "recover"}]
      /\ todo' \in [Worker -> SUBSET Question]
      /\ job' \in [Worker -> Job \cup {NoJob}]
      /\ sent' \subseteq Question \X Nat
  BY <1>1, <1>3 DEF DispatchTypeOK, Leave
<1>5. /\ \A v \in Worker \ {w} : wpc'[v] = wpc[v] /\ job'[v] = job[v]
      /\ wpc'[w] = "idle"
  BY <1>1 DEF DispatchTypeOK, Leave
<1>6. DispatchTypeOK'
  BY <1>1, <1>2, <1>4, <1>5 DEF DispatchTypeOK, IInv
<1> QED
  BY <1>2, <1>5, <1>6, QuietWorkerMove DEF Busy

LEMMA BeginStep ==
  ASSUME DInv, NEW w \in Worker, Begin(w)
  PROVE  DInv'
<1>1. IInv' /\ AllQuiet /\ IInv /\ DispatchTypeOK
  BY TickStep DEF Begin, DInv
<1>2. Pending(board') \subseteq Question
  BY DEF Pending
<1>3. DispatchTypeOK'
  BY <1>1, <1>2 DEF DispatchTypeOK, Begin, Goto, IInv
<1>4. /\ \A v \in Worker \ {w} : wpc'[v] = wpc[v] /\ job'[v] = job[v]
      /\ wpc'[w] = "claim" /\ sent' = sent
  BY <1>1 DEF DispatchTypeOK, Begin, Goto
<1> QED
  BY <1>1, <1>3, <1>4, QuietWorkerMove DEF Busy

LEMMA SkipStep ==
  ASSUME DInv, NEW w \in Worker, NEW q \in Question, Skip(w, q)
  PROVE  DInv'
<1>1. IInv' /\ AllQuiet /\ IInv /\ DispatchTypeOK
  BY BoardUnchanged, InvariantParts, AssembledInvariant DEF Skip, DInv, bvars
<1>2. DispatchTypeOK'
  BY <1>1 DEF DispatchTypeOK, Skip, IInv
<1> QED
  BY <1>1, <1>2, QuietWorkerMove DEF Busy, Skip

\* A worker moves on from "send" with its job in hand.
LEMMA SentStep ==
  ASSUME DInv, NEW w \in Worker, NEW l \in {"record", "recover"}, wpc[w] = "send", Goto(w, l),
         sent' \in {sent, sent \cup {Ticket(job[w])}},
         l = "record" => Ticket(job[w]) \in sent', UNCHANGED <<bvars, todo, job>>
  PROVE  DInv'
<1>1. IInv' /\ AllQuiet /\ IInv /\ DispatchTypeOK /\ Handling(w)
  BY BoardUnchanged, InvariantParts, AssembledInvariant DEF DInv, bvars
<1>2. Ticket(job[w]) \in Question \X Nat
  BY <1>1 DEF Handling, Busy, Job, Ticket
<1>3. DispatchTypeOK'
  BY <1>1, <1>2 DEF DispatchTypeOK, Goto, IInv
<1>4. wpc'[w] = l /\ \A v \in Worker \ {w} : wpc'[v] = wpc[v]
  BY <1>1 DEF DispatchTypeOK, Goto
<1> QED
  BY <1>1, <1>3, <1>4, QuietWorkerMove DEF Busy

LEMMA SendStep ==
  ASSUME DInv, NEW w \in Worker, SendReceipted(w) \/ SendFails(w) \/ SendTimesOut(w)
  PROVE  DInv'
<1>1. CASE SendReceipted(w)
  BY <1>1, SentStep DEF SendReceipted
<1>2. CASE SendFails(w)
  BY <1>2, SentStep DEF SendFails
<1>3. CASE SendTimesOut(w)
  BY <1>3, LeaveStep DEF SendTimesOut
<1> QED
  BY <1>1, <1>2, <1>3

LEMMA RecoverStep ==
  ASSUME DInv, NEW w \in Worker, Recover(w)
  PROVE  DInv'
<1>1. /\ job[w].q \in Question /\ DispatchTypeOK /\ IInv
      /\ RequireRecovery(job[w].q, w, job[w].owner, job[w].generation)
  BY DEF DInv, Handling, Busy, Job, Recover
<1>2. IInv' /\ AllQuiet
  BY <1>1, RequireRecoveryStep
<1>3. DispatchTypeOK'
  BY <1>1, <1>2 DEF DispatchTypeOK, Recover, Goto, IInv
<1>4. wpc'[w] = "claim" /\ UNCHANGED <<job, sent>> /\ \A v \in Worker \ {w} : wpc'[v] = wpc[v]
  BY <1>1 DEF DispatchTypeOK, Recover, Goto
<1> QED
  BY <1>2, <1>3, <1>4, QuietWorkerMove DEF Busy

\* What a change of the lease of q in place, to one that is not pending, does
\* to the tickets.
LEMMA ClaimedOrRecorded ==
  ASSUME IInv, NEW q \in Question, NEW l, l.dispatch # "PENDING",
         board' = With(q, [board[q] EXCEPT !.lease = l])
  PROVE  /\ board'[q].lease = l /\ board'[q].generation = board[q].generation
         /\ \A r \in Question \ {q} : board'[r] = board[r]
         /\ \A r \in Question : \A g \in Nat : Used(r, g) => Used(r, g)'
<1>1. board \in [Question -> Item]
  BY InvariantParts DEF Good
<1>2. /\ board'[q].lease = l /\ board'[q].generation = board[q].generation
      /\ \A r \in Question \ {q} : board'[r] = board[r]
  BY <1>1 DEF With, Item
<1>3. \A r \in Question : \A g \in Nat : Used(r, g) => Used(r, g)'
  BY <1>2 DEF Used
<1> QED
  BY <1>2, <1>3

LEMMA RecordStep ==
  ASSUME DInv, NEW w \in Worker, Record(w)
  PROVE  DInv'
<1> DEFINE q == job[w].q
           l == [board[q].lease EXCEPT !.dispatch = "SENT"]
<1>1. /\ q \in Question /\ job[w] \in Job /\ DispatchTypeOK /\ IInv
      /\ RecordDispatch(q, w, job[w].owner, job[w].generation)
      /\ Ticket(job[w]) \in sent /\ wpc[w] = "record"
  BY DEF DInv, Handling, Busy, Job, Record
<1>2. IInv'
  BY <1>1, RecordDispatchStep
<1>3. /\ board[q] \in Item /\ board[q].lease \in Lease /\ board[q].generation = job[w].generation
  BY <1>1, HeldLease DEF RecordDispatch, HoldsLease
<1>4. l.dispatch = "SENT" /\ board' = With(q, [board[q] EXCEPT !.lease = l])
  BY <1>1, <1>3 DEF RecordDispatch, Lease, Item
<1> HIDE DEF q, l
<1>5. /\ board'[q].lease = l /\ board'[q].generation = board[q].generation
      /\ \A r \in Question \ {q} : board'[r] = board[r]
      /\ \A r \in Question : \A g \in Nat : Used(r, g) => Used(r, g)'
  BY <1>1, <1>4, ClaimedOrRecorded
<1>6. wpc'[w] = "claim" /\ UNCHANGED <<todo, job, sent>>
      /\ wpc' \in [Worker -> {"idle", "claim", "send", "record", "recover"}]
      /\ \A v \in Worker \ {w} : wpc'[v] = wpc[v]
  BY <1>1 DEF DispatchTypeOK, Record, Goto
<1>7. DispatchTypeOK'
  BY <1>1, <1>2, <1>6 DEF DispatchTypeOK, IInv
<1>8. SentWasDelivered'
  <2>1. <<q, board'[q].generation>> \in sent'
    BY <1>1, <1>3, <1>5, <1>6 DEF Ticket, q
  <2> QED
    BY <2>1, <1>5, <1>6 DEF DInv, SentWasDelivered
<1> QED
  BY <1>2, <1>5, <1>6, <1>7, <1>8, WorkerMove DEF Busy

LEMMA ClaimStep ==
  ASSUME DInv, NEW w \in Worker, NEW q \in Question, Claim(w, q)
  PROVE  DInv'
<1> DEFINE l == [board[q].lease EXCEPT !.dispatch = "SENDING", !.worker = w]
           j == [q |-> q, owner |-> board[q].lease.owner, generation |-> board[q].generation]
<1>1. ClaimDispatch(q, w) /\ IInv /\ DispatchTypeOK /\ wpc[w] = "claim"
  BY DEF Claim, DInv
<1>2. IInv'
  BY <1>1, ClaimDispatchStep
<1>3. /\ board[q] \in Item /\ board[q].lease \in Lease /\ board[q].lease # None
      /\ board[q].lease.dispatch = "PENDING" /\ board[q].generation \in Nat
  BY <1>1, BoardTypes DEF ClaimDispatch, Held
<1>4. l.dispatch = "SENDING" /\ board' = With(q, [board[q] EXCEPT !.lease = l])
  BY <1>1, <1>3 DEF ClaimDispatch, Lease, Item
<1>5. j \in Job /\ j.q = q /\ j.generation = board[q].generation
  BY <1>3 DEF Job, Lease
<1>6. /\ job' = [job EXCEPT ![w] = j] /\ wpc' = [wpc EXCEPT ![w] = "send"]
      /\ todo' = [todo EXCEPT ![w] = @ \ {q}] /\ sent' = sent
  BY DEF Claim, Goto
<1> HIDE DEF l, j
<1>7. /\ board'[q].lease = l /\ board'[q].generation = board[q].generation
      /\ \A r \in Question \ {q} : board'[r] = board[r]
      /\ \A r \in Question : \A g \in Nat : Used(r, g) => Used(r, g)'
  BY <1>1, <1>4, ClaimedOrRecorded
<1>8. /\ job'[w] = j /\ wpc'[w] = "send"
      /\ \A v \in Worker \ {w} : wpc'[v] = wpc[v] /\ job'[v] = job[v]
  BY <1>1, <1>6 DEF DispatchTypeOK
<1>9. DispatchTypeOK'
  <2>1. NoJob \notin Job => j # NoJob
    BY <1>5
  <2>2. j # NoJob
    BY <1>5, NameAssumption, JobAssumption
  <2>3. /\ wpc' \in [Worker -> {"idle", "claim", "send", "record", "recover"}]
        /\ todo' \in [Worker -> SUBSET Question]
        /\ job' \in [Worker -> Job \cup {NoJob}]
    BY <1>1, <1>5, <1>6 DEF DispatchTypeOK
  <2> QED
    BY <1>1, <1>2, <1>6, <1>8, <2>2, <2>3 DEF DispatchTypeOK, IInv
<1>10. ~Used(q, board[q].generation)
  BY <1>3 DEF Used
<1>11. OneMessagePerGrant'
  <2> DEFINE t == <<q, board[q].generation>>
  <2>1. t \notin sent
    BY <1>10 DEF DInv, SentUsed
  <2>2. \A v \in Worker : wpc[v] = "send" => Ticket(job[v]) # t
    BY <1>10 DEF DInv, Handling, Busy, Ticket
  <2>3. Ticket(job[w])' = t
    BY <1>5, <1>8 DEF Ticket
  <2>4. \A v \in Worker \ {w} : Ticket(job[v])' = Ticket(job[v]) /\ wpc'[v] = wpc[v]
    BY <1>8 DEF Ticket
  <2> HIDE DEF t
  <2> QED
    BY <2>1, <2>2, <2>3, <2>4, <1>6 DEF DInv, OneMessagePerGrant
<1>12. SentWasDelivered'
  BY <1>4, <1>6, <1>7 DEF DInv, SentWasDelivered
<1>13. SentUsed'
  <2>1. \A t \in sent : t[1] \in Question /\ t[2] \in Nat /\ Used(t[1], t[2])
    BY DEF DInv, DispatchTypeOK, SentUsed
  <2> QED
    BY <2>1, <1>6, <1>7 DEF SentUsed
<1>14. ASSUME NEW v \in Worker PROVE Handling(v)'
  <2>1. CASE v = w
    <3>1. Used(q, board[q].generation)'
      BY <1>3, <1>4, <1>7 DEF Used
    <3>2. job'[v] = j /\ wpc'[v] = "send"
      BY <2>1, <1>8
    <3>3. job'[v].q = q /\ job'[v].generation = board[q].generation /\ job'[v] \in Job
      BY <1>5, <3>2
    <3>4. board[q].generation <= board'[job'[v].q].generation
          /\ board'[job'[v].q].lease.dispatch # "PENDING"
      BY <1>3, <1>4, <1>7, <3>3
    <3> QED
      BY <3>2, <3>3, <3>4 DEF Handling, Used
  <2>2. CASE v # w
    <3>1. Handling(v) /\ wpc'[v] = wpc[v] /\ job'[v] = job[v]
      BY <2>2, <1>8 DEF DInv
    <3>2. job[v] \in Job => job[v].q \in Question /\ job[v].generation \in Nat
      BY DEF Job
    <3> QED
      BY <3>1, <3>2, <1>6, <1>7 DEF Handling, Ticket, Used
  <2> QED
    BY <2>1, <2>2
<1> QED
  BY <1>2, <1>9, <1>11, <1>12, <1>13, <1>14 DEF DInv

-----------------------------------------------------------------------------
LEMMA DInvInit == DispatchInit => DInv
<1> SUFFICES ASSUME DispatchInit PROVE DInv
  OBVIOUS
<1>1. IInv /\ Init
  BY InvInit DEF DispatchInit
<1>2. /\ wpc = [w \in Worker |-> "idle"] /\ todo = [w \in Worker |-> {}]
      /\ job = [w \in Worker |-> NoJob] /\ sent = {}
  BY DEF DispatchInit
<1>3. DispatchTypeOK
  BY <1>1, <1>2 DEF DispatchTypeOK, IInv
<1>4. \A q \in Question : board[q].lease = None
  BY <1>1 DEF Init
<1>5. OneMessagePerGrant /\ SentWasDelivered /\ SentUsed /\ \A w \in Worker : Handling(w)
  BY <1>2, <1>4 DEF OneMessagePerGrant, SentWasDelivered, SentUsed, Handling, Busy
<1> QED
  BY <1>1, <1>3, <1>5 DEF DInv

LEMMA WorkerStepInv ==
  ASSUME DInv, NEW w \in Worker, WorkerStep(w)
  PROVE  DInv'
<1>1. CASE Refused(w) \/ EndRound(w) \/ CrashWorker(w)
  BY <1>1, LeaveStep DEF Refused, EndRound, CrashWorker
<1> QED
  BY <1>1, BeginStep, ClaimStep, SkipStep, SendStep, RecordStep, RecoverStep DEF WorkerStep

LEMMA DispatchNextInv ==
  ASSUME DInv, [DispatchNext]_<<vars, wvars>>
  PROVE  DInv'
<1>1. IInv
  BY DEF DInv
<1>2. CASE UNCHANGED <<vars, wvars>>
  BY <1>1, <1>2, BoardUnchanged, InvariantParts, AssembledInvariant, QuietIsCalm, CalmBoardStep DEF vars
<1>3. CASE ControlStep
  <2>1. IInv' /\ AllQuiet
    BY <1>1, <1>3, TickStep, ConfigureStep, EnqueueStep, RequeueStep, ResumeExternalStep
       DEF ControlStep, Control
  <2> QED
    BY <1>3, <2>1, QuietIsCalm, CalmBoardStep DEF ControlStep
<1>4. CASE TeacherStep
  <2>1. IInv' /\ AllCalm
    BY <1>1, <1>4, QuietIsCalm, HeartbeatStep, AbandonTopicStep, BindPublishedFamilyStep,
       BindInterruptedStep, SetWaitingExternalStep DEF TeacherStep
  <2> QED
    BY <1>4, <2>1, QuietIsCalm, CalmBoardStep DEF TeacherStep
<1>5. CASE EnvironmentStep
  <2>1. IInv' /\ AllQuiet
    BY <1>1, <1>5, NameAssumption, TimePassesStep, RunMovesStep
       DEF EnvironmentStep, Environment
  <2> QED
    BY <1>5, <2>1, QuietIsCalm, CalmBoardStep DEF EnvironmentStep
<1> QED
  BY <1>2, <1>3, <1>4, <1>5, WorkerStepInv DEF DispatchNext

THEOREM DispatchInvariance == DispatchSpec => []DInv
<1>1. DispatchInit => DInv
  BY DInvInit
<1>2. DInv /\ [DispatchNext]_<<vars, wvars>> => DInv'
  BY DispatchNextInv
<1> QED
  BY <1>1, <1>2, PTL DEF DispatchSpec

\* One grant, one message, for any number of workers (scheduler.py:182).
THEOREM NoDoubleDispatch == DispatchSpec => []OneMessagePerGrant
<1>1. DInv => OneMessagePerGrant
  BY DEF DInv
<1> QED
  BY <1>1, DispatchInvariance, PTL

\* A confirmed dispatch was delivered in its own grant (scheduler.py:207-233).
THEOREM ConfirmedWasDelivered == DispatchSpec => []SentWasDelivered
<1>1. DInv => SentWasDelivered
  BY DEF DInv
<1> QED
  BY <1>1, DispatchInvariance, PTL

-----------------------------------------------------------------------------
(* A claim whose worker is gone.                                           *)

StaysStranded(q) ==
  \/ board'[q].lease = None
  \/ board'[q].generation # board[q].generation
  \/ Stranded(q)' /\ board'[q].lease.ttl <= board[q].lease.ttl

\* No worker has the ticket of q after the step, and it is not sent by it.
NobodyTakes(q) ==
  /\ <<q, board[q].generation>> \notin sent'
  /\ \A v \in Worker : wpc'[v] \in Busy => Ticket(job'[v]) # <<q, board[q].generation>>

\* A step that leaves the lease or makes it older keeps the claim stranded.
LEMMA StrandedKept ==
  ASSUME IInv, NEW q \in Question, Stranded(q), Quiet(board[q], board'[q]), NobodyTakes(q)
  PROVE  StaysStranded(q)
<1>1. CASE Dropped(board[q], board'[q])
  BY <1>1 DEF Dropped, StaysStranded
<1>2. CASE Granting(board[q], board'[q])
  <2>1. board[q].generation \in Nat
    BY BoardTypes
  <2> QED
    BY <1>2, <2>1 DEF Granting, StaysStranded
<1>3. CASE Kept(board[q], board'[q])
  <2>1. board[q].lease \in Lease /\ board[q].lease.ttl \in Nat
    BY BoardTypes, NumberAssumption DEF Stranded, Lease
  <2>2. board'[q].lease.ttl <= board[q].lease.ttl
    BY <1>3, <2>1 DEF Kept
  <2>3. CASE board'[q].lease = None
    BY <2>3 DEF StaysStranded
  <2>4. CASE board'[q].lease # None
    <3>1. /\ board'[q].lease.dispatch = "SENDING"
          /\ board'[q].generation = board[q].generation
      BY <1>3 DEF Kept, Stranded
    <3>2. Stranded(q)'
      BY <2>4, <3>1 DEF Stranded, NobodyTakes, Busy, Ticket
    <3> QED
      BY <2>2, <3>2 DEF StaysStranded
  <2> QED
    BY <2>3, <2>4
<1> QED
  BY <1>1, <1>2, <1>3 DEF Quiet

\* An item a step leaves alone.
LEMMA UntouchedIsQuiet ==
  ASSUME IInv, NEW q \in Question, board'[q] = board[q]
  PROVE  Quiet(board[q], board'[q])
BY BoardTypes DEF Quiet, Kept, Dropped

LEMMA OtherLease ==
  ASSUME IInv, NEW q \in Question, NEW r, r # q, NEW item, board' = With(r, item)
  PROVE  Quiet(board[q], board'[q])
<1>1. board \in [Question -> Item]
  BY InvariantParts DEF Good
<1>2. board'[q] = board[q]
  BY <1>1 DEF With
<1> QED
  BY <1>2, UntouchedIsQuiet

LEMMA TeacherKeepsStranded ==
  ASSUME DInv, TeacherStep, NEW q \in Question, Stranded(q)
  PROVE  StaysStranded(q)
<1>1. IInv /\ NobodyTakes(q) /\ UNCHANGED wvars
  BY DEF DInv, TeacherStep, Stranded, NobodyTakes, wvars, Busy, Ticket
<1>2. PICK r \in Question, o \in Thread : \E g \in 0..board[r].generation :
        /\ <<r, g>> \in sent
        /\ \/ Heartbeat(r, o, g) \/ AbandonTopic(r, o, g)
           \/ BindPublishedFamily(r, o, g) \/ BindInterrupted(r, o, g)
           \/ \E id \in External : SetWaitingExternal(r, o, g, id)
  BY DEF TeacherStep
<1>3. PICK g \in 0..board[r].generation :
        /\ <<r, g>> \in sent
        /\ \/ Heartbeat(r, o, g) \/ AbandonTopic(r, o, g)
           \/ BindPublishedFamily(r, o, g) \/ BindInterrupted(r, o, g)
           \/ \E id \in External : SetWaitingExternal(r, o, g, id)
  BY <1>2
<1>4. CASE Heartbeat(r, o, g)
  <2>1. board[r].generation = g
    BY <1>4 DEF Heartbeat, HoldsLease
  <2>2. r # q
    BY <1>3, <2>1 DEF Stranded
  <2>3. board' = With(r, [board[r] EXCEPT !.lease.ttl = TTL])
    BY <1>4 DEF Heartbeat
  <2> QED
    BY <1>1, <2>2, <2>3, OtherLease, StrandedKept
<1>5. CASE ~Heartbeat(r, o, g)
  <2>1. AllQuiet
    BY <1>1, <1>3, <1>5, AbandonTopicStep, BindPublishedFamilyStep, BindInterruptedStep,
       SetWaitingExternalStep
  <2> QED
    BY <1>1, <2>1, StrandedKept DEF AllQuiet
<1> QED
  BY <1>4, <1>5

LEMMA WorkerKeepsStranded ==
  ASSUME DInv, NEW w \in Worker, WorkerStep(w), NEW q \in Question, Stranded(q)
  PROVE  StaysStranded(q)
<1> DEFINE t == <<q, board[q].generation>>
<1>1. IInv /\ DispatchTypeOK
  BY DEF DInv
<1>2. t \notin sent /\ \A v \in Worker : wpc[v] \in Busy => Ticket(job[v]) # t
  BY DEF Stranded, Busy
<1> HIDE DEF t
<1>3. ASSUME sent' = sent \/ (wpc[w] = "send" /\ sent' \in {sent, sent \cup {Ticket(job[w])}}),
             \A v \in Worker : wpc'[v] \in Busy => wpc[v] \in Busy /\ job'[v] = job[v]
      PROVE  NobodyTakes(q)
  <2>1. t \notin sent'
    BY <1>2, <1>3 DEF Busy
  <2>2. \A v \in Worker : wpc'[v] \in Busy => Ticket(job'[v]) # t
    BY <1>2, <1>3 DEF Ticket
  <2> QED
    BY <2>1, <2>2 DEF NobodyTakes, t
<1>4. CASE Begin(w)
  <2>1. AllQuiet
    BY <1>1, <1>4, TickStep DEF Begin
  <2>2. NobodyTakes(q)
    BY <1>1, <1>3, <1>4 DEF Begin, Goto, DispatchTypeOK, Busy
  <2> QED
    BY <1>1, <2>1, <2>2, StrandedKept DEF AllQuiet
<1>5. ASSUME NEW r \in Question, Claim(w, r) PROVE StaysStranded(q)
  <2>1. /\ r # q
        /\ board' = With(r, [board[r] EXCEPT !.lease.dispatch = "SENDING", !.lease.worker = w])
    BY <1>5 DEF Claim, ClaimDispatch, Stranded
  <2>2. /\ job' = [job EXCEPT ![w] = [q |-> r, owner |-> board[r].lease.owner,
                                      generation |-> board[r].generation]]
        /\ wpc' = [wpc EXCEPT ![w] = "send"] /\ sent' = sent
    BY <1>5 DEF Claim, Goto
  <2>3. Ticket(job'[w]) = <<r, board[r].generation>>
    BY <1>1, <2>2 DEF DispatchTypeOK, Ticket
  <2>4. \A v \in Worker \ {w} : wpc'[v] = wpc[v] /\ job'[v] = job[v]
    BY <1>1, <2>2 DEF DispatchTypeOK
  <2>5. \A v \in Worker : wpc'[v] \in Busy => Ticket(job'[v]) # t
    BY <1>2, <2>1, <2>3, <2>4 DEF t, Ticket
  <2>6. NobodyTakes(q)
    BY <1>2, <2>2, <2>5 DEF NobodyTakes, t
  <2> QED
    BY <1>1, <2>1, <2>6, OtherLease, StrandedKept
<1>6. CASE Record(w)
  <2>1. /\ wpc[w] = "record" /\ board[job[w].q].generation = job[w].generation
        /\ board' = With(job[w].q, [board[job[w].q] EXCEPT !.lease.dispatch = "SENT"])
    BY <1>6 DEF Record, RecordDispatch, HoldsLease
  <2>2. job[w].q # q
    BY <1>2, <2>1 DEF Busy, Ticket, t
  <2>3. NobodyTakes(q)
    BY <1>1, <1>3, <1>6 DEF Record, Goto, DispatchTypeOK, Busy
  <2> QED
    BY <1>1, <2>1, <2>2, <2>3, OtherLease, StrandedKept
<1>7. CASE Recover(w)
  <2>1. /\ job[w].q \in Question
        /\ RequireRecovery(job[w].q, w, job[w].owner, job[w].generation)
    BY <1>7 DEF DInv, Handling, Busy, Job, Recover
  <2>2. AllQuiet
    BY <1>1, <2>1, RequireRecoveryStep
  <2>3. NobodyTakes(q)
    BY <1>1, <1>3, <1>7 DEF Recover, Goto, DispatchTypeOK, Busy
  <2> QED
    BY <1>1, <2>2, <2>3, StrandedKept DEF AllQuiet
<1>8. ASSUME UNCHANGED bvars, NobodyTakes(q) PROVE StaysStranded(q)
  <2>1. board'[q] = board[q]
    BY <1>8 DEF bvars
  <2> QED
    BY <1>1, <1>8, <2>1, UntouchedIsQuiet, StrandedKept
<1>9. CASE SendReceipted(w) \/ SendFails(w)
  BY <1>1, <1>3, <1>8, <1>9 DEF SendReceipted, SendFails, Goto, DispatchTypeOK, Busy
<1>10. CASE SendTimesOut(w) \/ Refused(w) \/ EndRound(w) \/ CrashWorker(w)
  <2>1. /\ UNCHANGED bvars
        /\ sent' = sent \/ (wpc[w] = "send" /\ sent' \in {sent, sent \cup {Ticket(job[w])}})
        /\ Leave(w)
    BY <1>10 DEF SendTimesOut, Refused, EndRound, CrashWorker
  <2>2. \A v \in Worker : wpc'[v] \in Busy => wpc[v] \in Busy /\ job'[v] = job[v]
    BY <1>1, <2>1 DEF Leave, DispatchTypeOK, Busy
  <2> QED
    BY <1>3, <1>8, <2>1, <2>2
<1>11. CASE \E r \in Question : Skip(w, r)
  BY <1>3, <1>8, <1>11 DEF Skip
<1> QED
  BY <1>4, <1>5, <1>6, <1>7, <1>9, <1>10, <1>11 DEF WorkerStep

\* The death of a worker between its claim and its receipt costs the grant, and nothing
\* else: whoever comes later, the claim stays unsent and unconfirmed and grows older
\* until it is given up (scheduler_worker.py:50-82).
THEOREM StrandedGrantsEnd == DispatchSpec => StrandedStaysStranded
<1>1. ASSUME DInv, [DispatchNext]_<<vars, wvars>>, NEW q \in Question, Stranded(q)
      PROVE  StaysStranded(q)
  <2>1. IInv
    BY <1>1 DEF DInv
  <2>2. CASE UNCHANGED <<vars, wvars>>
    <3>1. board'[q] = board[q] /\ NobodyTakes(q)
      BY <1>1, <2>2 DEF vars, wvars, NobodyTakes, Stranded, Busy, Ticket
    <3> QED
      BY <1>1, <2>1, <3>1, UntouchedIsQuiet, StrandedKept
  <2>3. CASE ControlStep \/ EnvironmentStep
    <3>1. NobodyTakes(q)
      BY <1>1, <2>3 DEF ControlStep, EnvironmentStep, wvars, NobodyTakes, Stranded, Busy, Ticket
    <3>2. CASE ControlStep
      BY <2>1, <3>2, TickStep, ConfigureStep, EnqueueStep, RequeueStep, ResumeExternalStep,
         <1>1, <3>1, StrandedKept
         DEF ControlStep, Control, AllQuiet
    <3>3. CASE EnvironmentStep
      BY <2>1, <3>3, NameAssumption, TimePassesStep, RunMovesStep, <1>1, <3>1, StrandedKept
         DEF EnvironmentStep, Environment, AllQuiet
    <3> QED
      BY <2>3, <3>2, <3>3
  <2> QED
    BY <1>1, <2>2, <2>3, TeacherKeepsStranded, WorkerKeepsStranded DEF DispatchNext
<1>2. DInv /\ [DispatchNext]_<<vars, wvars>> =>
        \A q \in Question : Stranded(q) =>
          \/ board'[q].lease = None
          \/ board'[q].generation # board[q].generation
          \/ Stranded(q)' /\ board'[q].lease.ttl <= board[q].lease.ttl
  BY <1>1 DEF StaysStranded
<1> QED
  BY <1>2, DispatchInvariance, PTL DEF DispatchSpec, StrandedStaysStranded
=============================================================================
