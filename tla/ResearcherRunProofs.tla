------------------------ MODULE ResearcherRunProofs ------------------------
(***************************************************************************)
(* The queue of Harbor jobs and the workers that use it, for any number of *)
(* requests, workers and slots.  First the queue alone: its invariant and  *)
(* its two step properties.  Then the workers: every step of theirs is a   *)
(* step of the queue or leaves it alone, and a second invariant ties what  *)
(* a worker does to the claim it holds.                                    *)
(***************************************************************************)
EXTENDS ResearcherRun, FiniteSetTheorems, TLAPS

\* Positions are handed out as 1, 2, ...: a new one is greater than all others.
PositionsInOrder ==
    \A r \in Queued : jobs[r].position \in 1 .. Cardinality(Queued)

QueueInv ==
    /\ QueueTypeOK
    /\ PositionsInOrder
    /\ IdentitiesDistinct
    /\ SlotsBounded

LEMMA FiniteRequests ==
    \A S \in SUBSET Requests : IsFiniteSet(S) /\ Cardinality(S) \in Nat
BY QueueAssumption, FS_Subset, FS_CardinalityType

\* The parts of a snapshot, as sets of requests.
LEMMA Parts ==
    /\ Queued \in SUBSET Requests /\ Waiting \in SUBSET Queued
    /\ ActiveJobs \in SUBSET Queued /\ Waiting \cap ActiveJobs = {}
    /\ \A r : Ahead(r) \in SUBSET Waiting
BY DEF Queued, Waiting, ActiveJobs, Ahead

LEMMA Sizes ==
    /\ Cardinality(ActiveJobs) \in Nat
    /\ Cardinality(Queued) \in Nat
    /\ Available \in Int
    /\ \A r : Rank(r) \in Nat
<1>1. /\ Cardinality(ActiveJobs) \in Nat
      /\ Cardinality(Queued) \in Nat
  BY Parts, FiniteRequests
<1>2. \A r : Rank(r) \in Nat
  BY Parts, FiniteRequests DEF Rank
<1> QED BY <1>1, <1>2, QueueAssumption DEF Available

LEMMA QueuedEntry ==
    ASSUME QueueTypeOK, NEW r \in Queued
    PROVE  jobs[r] \in HarborQueueEntry
BY DEF QueueTypeOK, Queued

-----------------------------------------------------------------------------
\* Ranks follow positions, and no two waiting requests have the same rank.
LEMMA RankOrder ==
    ASSUME QueueTypeOK, IdentitiesDistinct, NEW q \in Waiting, NEW r \in Waiting
    PROVE  /\ q \in Ahead(q)
           /\ Rank(q) \in Nat \ {0}
           /\ Rank(q) <= Rank(r) => Ahead(q) \subseteq Ahead(r) /\ q \in Ahead(r)
           /\ Rank(q) < Rank(r) => r \notin Ahead(q)
           /\ Rank(q) = Rank(r) => q = r
<1>1. /\ jobs[q].position \in Nat /\ jobs[r].position \in Nat
      /\ \A x \in Waiting : jobs[x].position \in Nat
  BY Parts, QueuedEntry DEF HarborQueueEntry
<1>2. q \in Ahead(q)
  BY <1>1 DEF Ahead
<1>3. Rank(q) \in Nat \ {0}
  BY <1>2, Parts, FiniteRequests, FS_EmptySet DEF Rank
<1>4. CASE jobs[q].position < jobs[r].position
  <2>1. Ahead(q) \subseteq Ahead(r) /\ q \in Ahead(r) /\ r \notin Ahead(q) /\ r \in Ahead(r)
    BY <1>1, <1>4 DEF Ahead
  <2>2. Rank(q) < Rank(r)
    <3>1. /\ Cardinality(Ahead(q)) <= Cardinality(Ahead(r))
          /\ Cardinality(Ahead(q)) # Cardinality(Ahead(r))
      BY <2>1, Parts, FiniteRequests, FS_Subset
    <3> QED BY <3>1, Sizes DEF Rank
  <2> QED BY <1>2, <1>3, <2>1, <2>2, Sizes
<1>5. CASE jobs[r].position < jobs[q].position
  <2>1. Ahead(r) \subseteq Ahead(q) /\ q \notin Ahead(r)
    BY <1>1, <1>5 DEF Ahead
  <2>2. Rank(r) < Rank(q)
    <3>1. /\ Cardinality(Ahead(r)) <= Cardinality(Ahead(q))
          /\ Cardinality(Ahead(r)) # Cardinality(Ahead(q))
      BY <1>2, <2>1, Parts, FiniteRequests, FS_Subset
    <3> QED BY <3>1, Sizes DEF Rank
  <2> QED BY <1>2, <1>3, <2>1, <2>2, Sizes
<1>6. CASE jobs[r].position = jobs[q].position
  BY <1>2, <1>3, <1>6, Parts, Sizes DEF IdentitiesDistinct
<1> QED BY <1>1, <1>4, <1>5, <1>6

\* A set of waiting requests whose ranks do not exceed n has at most n members.
LEMMA FewRanks ==
    ASSUME QueueTypeOK, IdentitiesDistinct, NEW n \in Nat,
           NEW F \in SUBSET Waiting, \A r \in F : Rank(r) <= n
    PROVE  Cardinality(F) <= n
<1>1. IsFiniteSet(F) /\ Cardinality(F) \in Nat
  BY Parts, FiniteRequests
<1>2. IsFiniteSet(1 .. n) /\ Cardinality(1 .. n) = n
  BY FS_Interval
<1> DEFINE rank == [r \in F |-> Rank(r)]
<1>3. rank \in [F -> 1 .. n]
  BY RankOrder
<1>4. SUFFICES ASSUME n < Cardinality(F) PROVE FALSE
  BY <1>1
<1>5. PICK x \in F, y \in F : x # y /\ rank[x] = rank[y]
  <2> HIDE DEF rank
  <2> QED BY <1>1, <1>2, <1>3, <1>4, FS_PigeonHole
<1> QED BY <1>5, RankOrder

First(limit) == {r \in Eligible : Rank(r) <= limit}

\* What claim() takes: no more than are free, and the head of the queue.
LEMMA FirstFits ==
    ASSUME QueueTypeOK, IdentitiesDistinct, SlotsBounded, NEW limit \in Nat
    PROVE  /\ Available \in Nat
           /\ Cardinality(First(limit)) \in Nat
           /\ Cardinality(First(limit)) <= Available
           /\ \A r \in First(limit) :
                  Rank(r) \in 1 .. Cardinality(First(limit))
<1>1. Available \in Nat
  BY Sizes, QueueAssumption DEF Available, SlotsBounded
<1>2. First(limit) \in SUBSET Waiting /\ First(limit) \in SUBSET Requests
  BY Parts DEF First, Eligible
<1>3. Cardinality(First(limit)) \in Nat
  BY <1>2, FiniteRequests
<1>4. Cardinality(First(limit)) <= Available
  BY <1>1, <1>2, FewRanks DEF First, Eligible
<1>5. ASSUME NEW r \in First(limit)
      PROVE  Rank(r) \in 1 .. Cardinality(First(limit))
  <2>1. \A q \in Ahead(r) : q \in Waiting /\ Rank(q) <= Rank(r)
    <3> SUFFICES ASSUME NEW q \in Ahead(r) PROVE q \in Waiting /\ Rank(q) <= Rank(r)
      OBVIOUS
    <3>1. q \in Waiting /\ r \in Waiting
      BY <1>2, Parts
    <3>2. ~(Rank(r) < Rank(q))
      BY <3>1, RankOrder
    <3> QED BY <3>1, <3>2, Sizes
  <2>2. Ahead(r) \subseteq First(limit)
    <3> SUFFICES ASSUME NEW q \in Ahead(r) PROVE q \in First(limit)
      OBVIOUS
    <3> QED BY <2>1, <1>1, Sizes DEF First, Eligible
  <2>3. Rank(r) <= Cardinality(First(limit))
    BY <1>2, <2>2, FiniteRequests, FS_Subset DEF Rank
  <2> QED BY <1>2, <1>3, <2>3, RankOrder
<1> QED BY <1>1, <1>3, <1>4, <1>5

-----------------------------------------------------------------------------
(* The operations, as what they do to the parts of the queue.               *)

\* Waiting requests F get slots and the claims id, all of them new.
Takes(F, id) ==
    /\ F \in SUBSET Waiting /\ Cardinality(F) <= Available
    /\ claims' \in claims .. MaxClaims
    /\ \A r \in F : id[r] \in (claims + 1) .. claims'
    /\ \A q, r \in F : id[q] = id[r] => q = r
    /\ jobs' = [r \in Requests |-> IF r \in F THEN Claimed(r, id[r]) ELSE jobs[r]]

LEMMA ClaimTakes ==
    ASSUME QueueInv, NEW limit \in 1 .. MaxActive, Claim(limit)
    PROVE  /\ Takes(First(limit), [r \in First(limit) |-> claims + Rank(r)])
           /\ claims' = claims + Cardinality(First(limit))
<1> USE DEF QueueInv
<1>1. First(limit) \in SUBSET Waiting
  BY DEF First, Eligible
<1>2. /\ claims' = claims + Cardinality(First(limit))
      /\ claims + Cardinality(First(limit)) <= MaxClaims
      /\ jobs' = [r \in Requests |->
             IF r \in First(limit) THEN Claimed(r, claims + Rank(r)) ELSE jobs[r]]
  BY DEF Claim, First
<1>3. claims \in Nat /\ limit \in Nat
  BY QueueAssumption DEF QueueTypeOK
<1>4. /\ Cardinality(First(limit)) \in Nat
      /\ Cardinality(First(limit)) <= Available
      /\ \A r \in First(limit) : Rank(r) \in 1 .. Cardinality(First(limit))
  BY <1>3, FirstFits
<1>5. \A q, r \in First(limit) : claims + Rank(q) = claims + Rank(r) => q = r
  BY <1>1, <1>3, Sizes, RankOrder
<1>6. claims' \in claims .. MaxClaims
  BY <1>2, <1>3, <1>4, QueueAssumption
<1>7. \A r \in First(limit) : claims + Rank(r) \in (claims + 1) .. claims'
  BY <1>2, <1>3, <1>4
<1>8. jobs' = [r \in Requests |->
          IF r \in First(limit)
          THEN Claimed(r, [x \in First(limit) |-> claims + Rank(x)][r]) ELSE jobs[r]]
  BY <1>2
<1> QED BY <1>1, <1>2, <1>4, <1>5, <1>6, <1>7, <1>8 DEF Takes

LEMMA ClaimRequestTakes ==
    ASSUME QueueInv, NEW r \in Requests, ClaimRequest(r)
    PROVE  Takes({r}, [x \in {r} |-> claims + 1])
<1> USE DEF QueueInv
<1>1. r \in Waiting /\ Rank(r) <= Available /\ Rank(r) \in Nat \ {0}
  BY RankOrder DEF ClaimRequest, Eligible
<1>2. Cardinality({r}) = 1
  BY FS_Singleton
<1>3. claims \in Nat /\ claims < MaxClaims /\ claims' = claims + 1
  BY QueueAssumption DEF QueueTypeOK, ClaimRequest
<1>4. jobs' = [x \in Requests |->
          IF x \in {r} THEN Claimed(x, [y \in {r} |-> claims + 1][x]) ELSE jobs[x]]
  BY DEF ClaimRequest, QueueTypeOK
<1>5. claims' \in claims .. MaxClaims /\ claims + 1 \in (claims + 1) .. claims'
  BY <1>3, QueueAssumption
<1> QED BY <1>1, <1>2, <1>4, <1>5, Sizes DEF Takes

LEMMA TakesEffect ==
    ASSUME QueueInv, NEW F, NEW id, Takes(F, id)
    PROVE  /\ \A r \in F : jobs'[r] = Claimed(r, id[r]) /\ jobs'[r] \in HarborQueueEntry
           /\ \A r \in Requests \ F : jobs'[r] = jobs[r]
           /\ \A r \in Queued : jobs'[r].position = jobs[r].position
           /\ Queued' = Queued
           /\ Waiting' = Waiting \ F
           /\ ActiveJobs' = ActiveJobs \cup F
           /\ Cardinality(ActiveJobs') = Cardinality(ActiveJobs) + Cardinality(F)
<1> USE DEF QueueInv
<1>1. F \in SUBSET Queued /\ F \in SUBSET Requests /\ claims \in Nat /\ claims' \in Nat
  BY Parts, QueueAssumption DEF Takes, QueueTypeOK
<1>2. /\ \A r \in F : jobs'[r] = Claimed(r, id[r])
      /\ \A r \in Requests \ F : jobs'[r] = jobs[r]
  BY <1>1 DEF Takes
<1>3. \A r \in F : /\ Claimed(r, id[r]) \in HarborQueueEntry
                   /\ Claimed(r, id[r]).state = "ACTIVE"
                   /\ Claimed(r, id[r]).position = jobs[r].position
  <2> SUFFICES ASSUME NEW r \in F
               PROVE  /\ Claimed(r, id[r]) \in HarborQueueEntry
                      /\ Claimed(r, id[r]).state = "ACTIVE"
                      /\ Claimed(r, id[r]).position = jobs[r].position
    OBVIOUS
  <2>1. jobs[r] \in HarborQueueEntry /\ id[r] \in Nat
    BY <1>1, QueuedEntry DEF Takes
  <2> QED BY <2>1 DEF Claimed, HarborQueueEntry
<1>4. \A r \in Queued : jobs'[r].position = jobs[r].position
  BY <1>2, <1>3, Parts
<1>5. Queued' = Queued
  BY <1>1, <1>2, <1>3, QueueAssumption DEF Queued
<1>6. Waiting' = Waiting \ F /\ ActiveJobs' = ActiveJobs \cup F
  BY <1>1, <1>2, <1>3, <1>5, Parts DEF Waiting, ActiveJobs, Takes
<1>7. ActiveJobs \cap F = {}
  BY Parts DEF Takes
<1>8. Cardinality(ActiveJobs \cup F) = Cardinality(ActiveJobs) + Cardinality(F)
  <2>1. /\ IsFiniteSet(ActiveJobs) /\ IsFiniteSet(F)
        /\ Cardinality(ActiveJobs) \in Nat /\ Cardinality(F) \in Nat
    BY <1>1, Parts, FiniteRequests
  <2> QED BY <1>7, <2>1, FS_Union, FS_EmptySet
<1> QED BY <1>2, <1>3, <1>4, <1>5, <1>6, <1>8

LEMMA TakesKeeps ==
    ASSUME QueueInv, NEW F, NEW id, Takes(F, id)
    PROVE  QueueInv'
<1> USE DEF QueueInv
<1>1. /\ \A r \in F : jobs'[r] = Claimed(r, id[r]) /\ jobs'[r] \in HarborQueueEntry
      /\ \A r \in Requests \ F : jobs'[r] = jobs[r]
      /\ \A r \in Queued : jobs'[r].position = jobs[r].position
      /\ Queued' = Queued
      /\ Cardinality(ActiveJobs') = Cardinality(ActiveJobs) + Cardinality(F)
  BY TakesEffect
<1>2. /\ F \in SUBSET Queued /\ Queued \in SUBSET Requests
      /\ claims \in Nat /\ claims' \in Nat /\ claims <= claims'
      /\ claims' <= MaxClaims
  BY Parts, QueueAssumption DEF Takes, QueueTypeOK
<1>3. \A r \in F : /\ jobs'[r].state = "ACTIVE" /\ jobs'[r].claim = id[r]
                   /\ id[r] \in (claims + 1) .. claims'
  <2> SUFFICES ASSUME NEW r \in F
               PROVE  /\ jobs'[r].state = "ACTIVE" /\ jobs'[r].claim = id[r]
                      /\ id[r] \in (claims + 1) .. claims'
    OBVIOUS
  <2>1. jobs[r] \in HarborQueueEntry
    BY <1>2, QueuedEntry
  <2>2. id[r] \in (claims + 1) .. claims'
    BY DEF Takes
  <2>3. jobs'[r] = [jobs[r] EXCEPT !.state = "ACTIVE", !.claim = id[r]]
    BY <1>1 DEF Claimed
  <2> QED BY <2>1, <2>2, <2>3 DEF HarborQueueEntry
<1>4. \A r \in Queued \ F : jobs[r].claim \in 0 .. claims
  BY <1>2 DEF QueueTypeOK, NoClaim
<1>5. QueueTypeOK'
  <2>1. jobs' \in [Requests -> HarborQueueEntry \cup {Absent}]
    BY <1>1 DEF Takes, QueueTypeOK
  <2>2. claims' \in 0 .. MaxClaims
    BY <1>2
  <2>3. ASSUME NEW r \in Queued
        PROVE  IF jobs'[r].state = "WAITING" THEN jobs'[r].claim = NoClaim
                                             ELSE jobs'[r].claim \in 1 .. claims'
    <3>1. CASE r \in F
      BY <1>2, <1>3, <3>1
    <3>2. CASE r \notin F
      BY <1>1, <1>2, <3>2 DEF QueueTypeOK
    <3> QED BY <3>1, <3>2
  <2> QED BY <1>1, <2>1, <2>2, <2>3 DEF QueueTypeOK
<1>6. PositionsInOrder'
  BY <1>1 DEF PositionsInOrder
<1>7. IdentitiesDistinct'
  <2> SUFFICES ASSUME NEW q \in Queued, NEW r \in Queued, q # r
               PROVE  /\ jobs'[q].position # jobs'[r].position
                      /\ jobs'[q].claim = jobs'[r].claim => jobs'[q].claim = NoClaim
    BY <1>1 DEF IdentitiesDistinct
  <2>1. jobs'[q].position # jobs'[r].position
    BY <1>1 DEF IdentitiesDistinct
  <2>2. CASE q \in F /\ r \in F
    BY <1>3, <2>1, <2>2 DEF Takes
  <2>3. CASE q \in F /\ r \notin F
    BY <1>1, <1>2, <1>3, <1>4, <2>1, <2>3
  <2>4. CASE q \notin F /\ r \in F
    BY <1>1, <1>2, <1>3, <1>4, <2>1, <2>4
  <2>5. CASE q \notin F /\ r \notin F
    BY <1>1, <1>2, <2>1, <2>5 DEF IdentitiesDistinct
  <2> QED BY <2>1, <2>2, <2>3, <2>4, <2>5
<1>8. SlotsBounded'
  <2>1. Cardinality(F) \in Nat
    BY <1>2, FiniteRequests
  <2> QED BY <1>1, <2>1, Sizes, QueueAssumption DEF SlotsBounded, Available, Takes
<1> QED BY <1>5, <1>6, <1>7, <1>8

\* A job that holds a claim leaves its slot, keeping its position; it keeps its
\* claim too, or has none.
Leaves(r, state) ==
    /\ r \in ActiveJobs /\ state \in Terminal \cup {"WAITING"}
    /\ jobs' = [jobs EXCEPT ![r].state = state,
                            ![r].claim = IF state = "WAITING" THEN NoClaim ELSE @]
    /\ claims' = claims

LEMMA CompleteLeaves ==
    ASSUME QueueTypeOK, NEW r \in Requests, NEW claim, NEW terminal \in Terminal,
           Complete(r, claim, terminal)
    PROVE  Leaves(r, terminal)
<1>1. r \in ActiveJobs /\ jobs[r] \in HarborQueueEntry
  BY QueuedEntry DEF Complete, HoldsClaim, ActiveJobs, Queued
<1>2. jobs' = [jobs EXCEPT ![r] = [jobs[r] EXCEPT !.state = terminal]]
  BY DEF Complete
<1>3. [jobs[r] EXCEPT !.state = terminal]
        = [jobs[r] EXCEPT !.state = terminal, !.claim = @]
  BY <1>1 DEF HarborQueueEntry
<1>4. terminal # "WAITING"
  BY DEF Terminal
<1> QED BY <1>1, <1>2, <1>3, <1>4 DEF Leaves, Complete

LEMMA ReclaimLeaves ==
    ASSUME QueueTypeOK, NEW r \in Requests, NEW claim, ReclaimStale(r, claim)
    PROVE  Leaves(r, "WAITING")
BY DEF ReclaimStale, HoldsClaim, ActiveJobs, Queued, Leaves

LEMMA LeavesEffect ==
    ASSUME QueueTypeOK, NEW r, NEW state, Leaves(r, state)
    PROVE  /\ jobs'[r] \in HarborQueueEntry
           /\ jobs'[r].state = state
           /\ jobs'[r].position = jobs[r].position
           /\ jobs'[r].claim = IF state = "WAITING" THEN NoClaim ELSE jobs[r].claim
           /\ \A q \in Requests \ {r} : jobs'[q] = jobs[q]
           /\ Queued' = Queued
           /\ ActiveJobs' = ActiveJobs \ {r}
           /\ Waiting' = IF state = "WAITING" THEN Waiting \cup {r} ELSE Waiting
           /\ Cardinality(ActiveJobs') = Cardinality(ActiveJobs) - 1
<1>1. r \in ActiveJobs /\ r \in Queued /\ r \in Requests /\ jobs[r] \in HarborQueueEntry
  BY Parts, QueuedEntry DEF Leaves
<1>2. /\ jobs'[r] = [jobs[r] EXCEPT !.state = state,
                         !.claim = IF state = "WAITING" THEN NoClaim ELSE @]
      /\ \A q \in Requests \ {r} : jobs'[q] = jobs[q]
  BY <1>1 DEF Leaves, QueueTypeOK
<1>3. /\ jobs'[r] \in HarborQueueEntry
      /\ jobs'[r].state = state
      /\ jobs'[r].position = jobs[r].position
      /\ jobs'[r].claim = IF state = "WAITING" THEN NoClaim ELSE jobs[r].claim
  <2> DEFINE kept == IF state = "WAITING" THEN NoClaim ELSE jobs[r].claim
  <2>1. kept \in Nat /\ jobs[r].position \in Nat \ {0}
    BY <1>1 DEF HarborQueueEntry, NoClaim
  <2>2. jobs'[r] = [state |-> state, position |-> jobs[r].position, claim |-> kept]
    BY <1>1, <1>2 DEF HarborQueueEntry
  <2>3. state \in Terminal \cup {"WAITING", "ACTIVE"}
    BY DEF Leaves
  <2> QED BY <2>1, <2>2, <2>3 DEF HarborQueueEntry
<1>4. Queued' = Queued
  BY <1>1, <1>2, <1>3, QueueAssumption DEF Queued
<1>5. state # "ACTIVE"
  BY DEF Leaves, Terminal
<1>6. ActiveJobs' = ActiveJobs \ {r}
  BY <1>1, <1>2, <1>3, <1>4, <1>5, Parts DEF ActiveJobs
<1>7. Waiting' = IF state = "WAITING" THEN Waiting \cup {r} ELSE Waiting
  BY <1>1, <1>2, <1>3, <1>4, Parts DEF Waiting
<1>8. Cardinality(ActiveJobs \ {r}) = Cardinality(ActiveJobs) - 1
  BY <1>1, Parts, FiniteRequests, FS_RemoveElement
<1> QED BY <1>2, <1>3, <1>4, <1>6, <1>7, <1>8

LEMMA LeavesKeeps ==
    ASSUME QueueInv, NEW r, NEW state, Leaves(r, state)
    PROVE  QueueInv'
<1> USE DEF QueueInv
<1>1. /\ jobs'[r] \in HarborQueueEntry
      /\ jobs'[r].state = state
      /\ jobs'[r].position = jobs[r].position
      /\ jobs'[r].claim = IF state = "WAITING" THEN NoClaim ELSE jobs[r].claim
      /\ \A q \in Requests \ {r} : jobs'[q] = jobs[q]
      /\ Queued' = Queued
      /\ Cardinality(ActiveJobs') = Cardinality(ActiveJobs) - 1
  BY LeavesEffect
<1>2. /\ r \in Queued /\ Queued \subseteq Requests /\ claims' = claims
      /\ jobs[r].state = "ACTIVE"
  BY Parts DEF Leaves, ActiveJobs
<1>3. QueueTypeOK'
  <2>1. jobs' \in [Requests -> HarborQueueEntry \cup {Absent}]
    BY <1>1, <1>2 DEF Leaves, QueueTypeOK
  <2>2. ASSUME NEW q \in Queued
        PROVE  IF jobs'[q].state = "WAITING" THEN jobs'[q].claim = NoClaim
                                             ELSE jobs'[q].claim \in 1 .. claims
    BY <1>1, <1>2 DEF QueueTypeOK
  <2> QED BY <1>1, <1>2, <2>1, <2>2 DEF QueueTypeOK
<1>4. PositionsInOrder'
  BY <1>1, <1>2 DEF PositionsInOrder
<1>5. IdentitiesDistinct'
  BY <1>1, <1>2 DEF IdentitiesDistinct, NoClaim
<1>6. SlotsBounded'
  BY <1>1, Sizes, QueueAssumption DEF SlotsBounded
<1> QED BY <1>3, <1>4, <1>5, <1>6

LEMMA SubmitEffect ==
    ASSUME QueueInv, NEW r \in Requests, Submit(r)
    PROVE  /\ jobs'[r] = [state |-> "WAITING", position |-> Cardinality(Queued) + 1,
                          claim |-> NoClaim]
           /\ jobs'[r] \in HarborQueueEntry
           /\ \A q \in Requests \ {r} : jobs'[q] = jobs[q]
           /\ r \notin Queued
           /\ Queued' = Queued \cup {r}
           /\ Cardinality(Queued') = Cardinality(Queued) + 1
           /\ Waiting' = Waiting \cup {r}
           /\ ActiveJobs' = ActiveJobs
           /\ claims' = claims
<1> USE DEF QueueInv
<1>1. /\ jobs'[r] = [state |-> "WAITING", position |-> Cardinality(Queued) + 1,
                     claim |-> NoClaim]
      /\ \A q \in Requests \ {r} : jobs'[q] = jobs[q]
      /\ r \notin Queued /\ claims' = claims
  BY DEF Submit, QueueTypeOK, Queued
<1>2. jobs'[r] \in HarborQueueEntry
  BY <1>1, Sizes DEF HarborQueueEntry, NoClaim
<1>3. Queued' = Queued \cup {r}
  BY <1>1, <1>2, QueueAssumption DEF Queued
<1>4. Cardinality(Queued \cup {r}) = Cardinality(Queued) + 1
  BY <1>1, Parts, FiniteRequests, FS_AddElement
<1>5. Waiting' = Waiting \cup {r} /\ ActiveJobs' = ActiveJobs
  BY <1>1, <1>3, Parts DEF Waiting, ActiveJobs
<1> QED BY <1>1, <1>2, <1>3, <1>4, <1>5

LEMMA SubmitKeeps ==
    ASSUME QueueInv, NEW r \in Requests, Submit(r)
    PROVE  QueueInv'
<1> USE DEF QueueInv
<1>1. /\ jobs'[r].state = "WAITING" /\ jobs'[r].claim = NoClaim
      /\ jobs'[r].position = Cardinality(Queued) + 1
      /\ jobs'[r] \in HarborQueueEntry
      /\ \A q \in Requests \ {r} : jobs'[q] = jobs[q]
      /\ r \notin Queued /\ Queued' = Queued \cup {r}
      /\ Cardinality(Queued') = Cardinality(Queued) + 1
      /\ ActiveJobs' = ActiveJobs /\ claims' = claims
  BY SubmitEffect
<1>2. Cardinality(Queued) \in Nat /\ Queued \subseteq Requests
  BY Sizes, Parts
<1>3. QueueTypeOK'
  <2>1. jobs' \in [Requests -> HarborQueueEntry \cup {Absent}]
    BY <1>1 DEF Submit, QueueTypeOK
  <2>2. ASSUME NEW q \in Queued'
        PROVE  IF jobs'[q].state = "WAITING" THEN jobs'[q].claim = NoClaim
                                             ELSE jobs'[q].claim \in 1 .. claims
    BY <1>1, <1>2 DEF QueueTypeOK
  <2> QED BY <1>1, <2>1, <2>2 DEF QueueTypeOK
<1>4. PositionsInOrder'
  <2> SUFFICES ASSUME NEW q \in Queued \cup {r}
               PROVE  jobs'[q].position \in 1 .. (Cardinality(Queued) + 1)
    BY <1>1 DEF PositionsInOrder
  <2>1. CASE q = r
    BY <1>1, <1>2, <2>1
  <2>2. CASE q \in Queued
    BY <1>1, <1>2, <2>2 DEF PositionsInOrder
  <2> QED BY <2>1, <2>2
<1>5. IdentitiesDistinct'
  <2> SUFFICES ASSUME NEW p \in Queued \cup {r}, NEW q \in Queued \cup {r}, p # q
               PROVE  /\ jobs'[p].position # jobs'[q].position
                      /\ jobs'[p].claim = jobs'[q].claim => jobs'[p].claim = NoClaim
    BY <1>1 DEF IdentitiesDistinct
  <2>1. \A x \in Queued : /\ jobs'[x] = jobs[x]
                          /\ jobs[x].position \in 1 .. Cardinality(Queued)
    BY <1>1, <1>2 DEF PositionsInOrder
  <2>2. CASE p = r \/ q = r
    BY <1>1, <1>2, <2>1, <2>2
  <2>3. CASE p # r /\ q # r
    BY <2>1, <2>3 DEF IdentitiesDistinct
  <2> QED BY <2>2, <2>3
<1>6. SlotsBounded'
  BY <1>1 DEF SlotsBounded
<1> QED BY <1>3, <1>4, <1>5, <1>6

-----------------------------------------------------------------------------
(* The queue alone.                                                          *)

LEMMA QueueStep ==
    ASSUME QueueInv, [QueueNext]_queueVars
    PROVE  QueueInv'
<1>1. CASE \E limit \in 1 .. MaxActive : Claim(limit)
  BY <1>1, ClaimTakes, TakesKeeps
<1>2. CASE \E r \in Requests : Submit(r)
  BY <1>2, SubmitKeeps
<1>3. CASE \E r \in Requests : ClaimRequest(r)
  BY <1>3, ClaimRequestTakes, TakesKeeps
<1>4. CASE \E r \in Requests, claim \in 1 .. MaxClaims : ReclaimStale(r, claim)
  BY <1>4, ReclaimLeaves, LeavesKeeps DEF QueueInv
<1>5. CASE \E r \in Requests, claim \in 1 .. MaxClaims, terminal \in Terminal :
               Complete(r, claim, terminal)
  BY <1>5, CompleteLeaves, LeavesKeeps DEF QueueInv
<1>6. CASE UNCHANGED queueVars
  BY <1>6 DEF queueVars, QueueInv, QueueTypeOK, PositionsInOrder, IdentitiesDistinct,
              SlotsBounded, ActiveJobs, Queued
<1> QED BY <1>1, <1>2, <1>3, <1>4, <1>5, <1>6 DEF QueueNext

LEMMA QueueStart ==
    ASSUME QueueInit
    PROVE  QueueInv
<1>1. Queued = {} /\ claims = 0
  BY DEF QueueInit, Queued
<1>2. ActiveJobs = {}
  BY <1>1 DEF ActiveJobs
<1>3. Cardinality(ActiveJobs) = 0
  BY <1>2, FS_EmptySet
<1> QED BY <1>1, <1>3, QueueAssumption
        DEF QueueInit, QueueInv, QueueTypeOK, PositionsInOrder, IdentitiesDistinct,
            SlotsBounded

\* The queue keeps its invariant whoever calls its operations, in any order:
\* well-formed entries, distinct positions and claims, and at most MaxActive
\* running jobs (harbor_queue.py:154-286).
THEOREM QueueCorrect == QueueSpec => []QueueInv
<1>1. QueueInit => QueueInv
  BY QueueStart
<1>2. QueueInv /\ [QueueNext]_queueVars => QueueInv'
  BY QueueStep
<1> QED BY <1>1, <1>2, PTL DEF QueueSpec

LEMMA FinishedStep ==
    ASSUME QueueInv, [QueueNext]_queueVars, NEW r \in Queued, jobs[r].state \in Terminal
    PROVE  jobs'[r] = jobs[r]
<1> USE DEF QueueInv
<1>1. r \in Requests /\ r \notin Waiting /\ r \notin ActiveJobs
  BY Parts DEF Waiting, ActiveJobs, Terminal
<1>2. ASSUME NEW F, NEW id, Takes(F, id) PROVE jobs'[r] = jobs[r]
  BY <1>1, <1>2, TakesEffect DEF Takes
<1>3. ASSUME NEW q, NEW state, Leaves(q, state) PROVE jobs'[r] = jobs[r]
  BY <1>1, <1>3, LeavesEffect DEF Leaves
<1>4. CASE \E limit \in 1 .. MaxActive : Claim(limit)
  BY <1>2, <1>4, ClaimTakes
<1>5. CASE \E q \in Requests : Submit(q)
  BY <1>1, <1>5, SubmitEffect
<1>6. CASE \E q \in Requests : ClaimRequest(q)
  BY <1>2, <1>6, ClaimRequestTakes
<1>7. CASE \E q \in Requests, claim \in 1 .. MaxClaims : ReclaimStale(q, claim)
  BY <1>3, <1>7, ReclaimLeaves
<1>8. CASE \E q \in Requests, claim \in 1 .. MaxClaims, terminal \in Terminal :
               Complete(q, claim, terminal)
  BY <1>3, <1>8, CompleteLeaves
<1>9. CASE UNCHANGED queueVars
  BY <1>9 DEF queueVars
<1> QED BY <1>4, <1>5, <1>6, <1>7, <1>8, <1>9 DEF QueueNext

\* A waiting request that others overtake by taking F keeps its place among the
\* free slots: F was ahead of it, or it was not among the last that fit.
LEMMA OvertakenStaysEligible ==
    ASSUME QueueInv, NEW F, NEW id, Takes(F, id), NEW r \in Eligible, r \notin F,
           \/ F \subseteq Ahead(r)
           \/ F \cap Ahead(r) = {} /\ Rank(r) + Cardinality(F) <= Available
    PROVE  r \in Eligible'
<1> USE DEF QueueInv
<1>1. /\ \A q \in Queued : jobs'[q].position = jobs[q].position
      /\ Queued' = Queued /\ Waiting' = Waiting \ F
      /\ Cardinality(ActiveJobs') = Cardinality(ActiveJobs) + Cardinality(F)
  BY TakesEffect
<1>2. r \in Waiting /\ r \in Queued /\ Rank(r) <= Available
  BY Parts DEF Eligible
<1>3. /\ Cardinality(F) \in Nat /\ Cardinality(ActiveJobs) \in Nat
      /\ Rank(r) \in Nat /\ IsFiniteSet(Ahead(r))
  BY Parts, Sizes, FiniteRequests DEF Takes
<1>4. Available' = Available - Cardinality(F)
  BY <1>1, <1>3, QueueAssumption DEF Available
<1>5. Ahead(r)' = Ahead(r) \ F
  BY <1>1, <1>2, Parts DEF Ahead
<1>6. Cardinality(Ahead(r) \ F) <= Available - Cardinality(F)
  <2>1. CASE F \subseteq Ahead(r)
    <3>1. Ahead(r) \cap F = F
      BY <2>1
    <3>2. Cardinality(Ahead(r) \ F) = Rank(r) - Cardinality(F)
      BY <1>3, <3>1, FS_Difference DEF Rank
    <3> QED BY <1>2, <1>3, <3>2, Sizes
  <2>2. CASE F \cap Ahead(r) = {} /\ Rank(r) + Cardinality(F) <= Available
    <3>1. Ahead(r) \ F = Ahead(r)
      BY <2>2
    <3> QED BY <1>3, <2>2, <3>1, Sizes DEF Rank
  <2> QED BY <2>1, <2>2
<1>7. Rank(r)' <= Available'
  BY <1>4, <1>5, <1>6 DEF Rank
<1> QED BY <1>1, <1>2, <1>7 DEF Eligible

LEMMA EligibleStep ==
    ASSUME QueueInv, [QueueNext]_queueVars, NEW r \in Eligible
    PROVE  r \in Eligible' \/ jobs'[r].state = "ACTIVE"
<1> USE DEF QueueInv
<1>1. r \in Waiting /\ r \in Queued /\ r \in Requests /\ Rank(r) <= Available
  BY Parts DEF Eligible
<1>2. ASSUME NEW F, NEW id, Takes(F, id), r \in F PROVE jobs'[r].state = "ACTIVE"
  <2>1. jobs'[r] = Claimed(r, id[r]) /\ jobs[r] \in HarborQueueEntry
    BY <1>1, <1>2, TakesEffect, QueuedEntry
  <2> QED BY <2>1 DEF Claimed, HarborQueueEntry
<1>3. ASSUME NEW limit \in 1 .. MaxActive, Claim(limit)
      PROVE  r \in Eligible' \/ jobs'[r].state = "ACTIVE"
  <2>1. PICK id : Takes(First(limit), id)
    BY <1>3, ClaimTakes
  <2>2. CASE r \in First(limit)
    BY <1>2, <2>1, <2>2
  <2>3. CASE r \notin First(limit)
    <3>1. First(limit) \subseteq Ahead(r)
      <4> SUFFICES ASSUME NEW q \in First(limit) PROVE q \in Ahead(r)
        OBVIOUS
      <4>1. q \in Waiting /\ Rank(q) <= limit /\ ~(Rank(r) <= limit)
        BY <2>3 DEF First, Eligible
      <4>2. Rank(q) <= Rank(r)
        BY <4>1, Sizes
      <4> QED BY <1>1, <4>1, <4>2, RankOrder
    <3> QED BY <2>1, <2>3, <3>1, OvertakenStaysEligible
  <2> QED BY <2>2, <2>3
<1>4. ASSUME NEW q \in Requests, ClaimRequest(q)
      PROVE  r \in Eligible' \/ jobs'[r].state = "ACTIVE"
  <2>1. PICK id : Takes({q}, id)
    BY <1>4, ClaimRequestTakes
  <2>2. CASE q = r
    BY <1>2, <2>1, <2>2
  <2>3. CASE q # r
    <3>1. q \in Waiting /\ Rank(q) <= Available
      BY <1>4 DEF ClaimRequest, Eligible
    <3>2. CASE q \in Ahead(r)
      BY <2>1, <2>3, <3>2, OvertakenStaysEligible
    <3>3. CASE q \notin Ahead(r)
      <4>1. Rank(r) < Rank(q)
        BY <1>1, <3>1, <3>3, Sizes, RankOrder
      <4>2. Rank(r) + Cardinality({q}) <= Available
        BY <3>1, <4>1, Sizes, FS_Singleton
      <4> QED BY <2>1, <2>3, <3>3, <4>2, OvertakenStaysEligible
    <3> QED BY <3>2, <3>3
  <2> QED BY <2>2, <2>3
<1>5. ASSUME NEW q \in Requests, Submit(q)
      PROVE  r \in Eligible'
  <2>1. /\ jobs'[q].position = Cardinality(Queued) + 1
        /\ \A x \in Requests \ {q} : jobs'[x] = jobs[x]
        /\ q \notin Queued /\ Waiting' = Waiting \cup {q} /\ ActiveJobs' = ActiveJobs
    <3>1. jobs'[q] = [state |-> "WAITING", position |-> Cardinality(Queued) + 1,
                      claim |-> NoClaim]
      BY <1>5, SubmitEffect
    <3> QED BY <1>5, <3>1, SubmitEffect
  <2>2. jobs[r].position <= Cardinality(Queued)
    BY <1>1, Sizes DEF PositionsInOrder
  <2>3. jobs[r].position \in Nat /\ jobs'[r] = jobs[r]
    BY <1>1, <2>1, QueuedEntry DEF HarborQueueEntry
  <2>4. Ahead(r)' = Ahead(r)
    BY <1>1, <2>1, <2>2, <2>3, Parts, Sizes DEF Ahead
  <2> QED BY <1>1, <2>1, <2>4 DEF Eligible, Rank, Available
<1>6. ASSUME NEW q, NEW state, Leaves(q, state)
      PROVE  r \in Eligible'
  <2>1. /\ jobs'[q].position = jobs[q].position
        /\ \A x \in Requests \ {q} : jobs'[x] = jobs[x]
        /\ Waiting' = IF state = "WAITING" THEN Waiting \cup {q} ELSE Waiting
        /\ Cardinality(ActiveJobs') = Cardinality(ActiveJobs) - 1
        /\ q \in Requests /\ q \notin Waiting
    BY <1>6, LeavesEffect, Parts DEF Leaves
  <2>2. Available' = Available + 1
    BY <2>1, Sizes, QueueAssumption DEF Available
  <2>3. Ahead(r)' \in SUBSET (Ahead(r) \cup {q})
    BY <1>1, <2>1, Parts DEF Ahead
  <2>4. /\ IsFiniteSet(Ahead(r)) /\ Rank(r) \in Nat
        /\ Cardinality(Ahead(r) \cup {q}) <= Rank(r) + 1
        /\ IsFiniteSet(Ahead(r) \cup {q})
        /\ Cardinality(Ahead(r) \cup {q}) \in Nat
    BY Parts, FiniteRequests, Sizes, FS_AddElement, FS_CardinalityType DEF Rank
  <2>5. /\ Cardinality(Ahead(r)') <= Cardinality(Ahead(r) \cup {q})
        /\ Cardinality(Ahead(r)') \in Nat
    BY <2>3, <2>4, FS_Subset, FS_CardinalityType
  <2>6. Rank(r)' <= Available'
    BY <1>1, <2>2, <2>4, <2>5, Sizes DEF Rank
  <2> QED BY <1>1, <2>1, <2>6 DEF Eligible
<1>7. CASE \E q \in Requests, claim \in 1 .. MaxClaims : ReclaimStale(q, claim)
  BY <1>6, <1>7, ReclaimLeaves
<1>8. CASE \E q \in Requests, claim \in 1 .. MaxClaims, terminal \in Terminal :
               Complete(q, claim, terminal)
  BY <1>6, <1>8, CompleteLeaves
<1>9. CASE UNCHANGED queueVars
  BY <1>1, <1>9 DEF queueVars, Eligible, Rank, Ahead, Waiting, Available, ActiveJobs, Queued
<1> QED BY <1>3, <1>4, <1>5, <1>7, <1>8, <1>9 DEF QueueNext

-----------------------------------------------------------------------------
(* The workers.                                                              *)

Secured == {"redeem"} \cup Redeemed

\* A worker beyond its claim holds it.
SlotHeld ==
    \A w \in Workers : pc[w].at \in Secured => HoldsClaim(pc[w].request, pc[w].claim)

\* Claims of workers were drawn, and no two workers have the same one.
ClaimsKnown == \A w \in Workers : Busy(w) => pc[w].claim \in 0 .. claims

ClaimsApart ==
    \A v, w \in Workers :
        Busy(v) /\ Busy(w) /\ v # w /\ pc[v].claim = pc[w].claim => pc[v].claim = NoClaim

OutcomeKnown ==
    \A w \in Workers : pc[w].at \in {"receipt", "complete"} => pc[w].outcome \in Outcomes

\* A request with a receipt never waits again, and the worker that holds its
\* claim, if any does, has only to complete it.
ReceiptSettles ==
    \A r \in Requests : receipt[r] # None =>
        /\ r \in Queued /\ jobs[r].state # "WAITING"
        /\ \A w \in Workers :
               Busy(w) /\ pc[w].request = r /\ HoldsClaim(r, pc[w].claim)
                   => pc[w].at = "complete"

RunInv ==
    /\ QueueInv /\ TypeOK
    /\ SlotHeld
    /\ ClaimsKnown /\ ClaimsApart
    /\ OutcomeKnown
    /\ ReceiptSettles

\* HoldsClaim in a given queue.
HoldsIn(queue, r, claim) ==
    queue[r] # Absent /\ queue[r].state = "ACTIVE" /\ queue[r].claim = claim

\* The record of a worker is one of a busy worker when it is not Idle.
LEMMA BusyWorker ==
    ASSUME TypeOK, NEW w \in Workers
    PROVE  /\ Busy(w) => pc[w] \in Jobs
           /\ pc[w].at \in Stages => Busy(w)
           /\ Busy(w) => pc[w].at \in Stages /\ pc[w].request \in Requests
BY DEF TypeOK, Busy, Idle, Jobs, Stages

\* No claim of a running job is 0, and two requests do not share one.
LEMMA HeldClaim ==
    ASSUME QueueInv, NEW r \in Requests, NEW claim, HoldsClaim(r, claim)
    PROVE  claim \in 1 .. claims /\ r \in ActiveJobs /\ r \notin Waiting
BY Parts DEF QueueInv, QueueTypeOK, HoldsClaim, ActiveJobs, Waiting, Queued

\* What the operations of the queue do to a claim that was drawn before.
LEMMA TakesHolds ==
    ASSUME QueueInv, NEW F, NEW id, Takes(F, id), NEW r \in Requests,
           NEW claim \in 0 .. claims
    PROVE  HoldsIn(jobs', r, claim) <=> HoldsClaim(r, claim)
<1> USE DEF QueueInv
<1>1. CASE r \in F
  <2>1. jobs'[r] = Claimed(r, id[r]) /\ jobs[r] \in HarborQueueEntry /\ r \in Waiting
    BY <1>1, TakesEffect, Parts, QueuedEntry DEF Takes
  <2>2. id[r] # claim
    BY <1>1, QueueAssumption DEF Takes, QueueTypeOK
  <2>3. jobs'[r].claim = id[r]
    BY <2>1 DEF Claimed, HarborQueueEntry
  <2> QED BY <2>1, <2>2, <2>3 DEF HoldsIn, HoldsClaim, Waiting
<1>2. CASE r \notin F
  BY <1>2, TakesEffect DEF HoldsIn, HoldsClaim
<1> QED BY <1>1, <1>2

LEMMA SubmitHolds ==
    ASSUME QueueInv, NEW q \in Requests, Submit(q), NEW r \in Requests, NEW claim
    PROVE  HoldsIn(jobs', r, claim) <=> HoldsClaim(r, claim)
<1>1. jobs'[q].state = "WAITING" /\ \A x \in Requests \ {q} : jobs'[x] = jobs[x]
  BY SubmitEffect
<1>2. jobs[q] = Absent
  BY DEF Submit
<1> QED BY <1>1, <1>2 DEF HoldsIn, HoldsClaim

LEMMA LeavesHolds ==
    ASSUME QueueInv, NEW q, NEW state, Leaves(q, state), NEW r \in Requests, NEW claim
    PROVE  HoldsIn(jobs', r, claim) <=> HoldsClaim(r, claim) /\ r # q
<1>1. /\ jobs'[q].state = state /\ state # "ACTIVE" /\ q \in Requests
      /\ \A x \in Requests \ {q} : jobs'[x] = jobs[x]
  BY LeavesEffect, Parts DEF Leaves, Terminal, QueueInv
<1> QED BY <1>1 DEF HoldsIn, HoldsClaim

\* What a step of worker w has to show, when all others stand still.
LEMMA WorkerKeeps ==
    ASSUME RunInv, QueueInv', TypeOK', claims <= claims', NEW w \in Workers,
           \A v \in Workers \ {w} : pc'[v] = pc[v],
           \A v \in Workers \ {w} : Busy(v) =>
               (HoldsIn(jobs', pc[v].request, pc[v].claim)
                   <=> HoldsClaim(pc[v].request, pc[v].claim)),
           \A r \in Requests : receipt'[r] # None =>
               jobs'[r] # Absent /\ jobs'[r].state # "WAITING",
           \A v \in Workers \ {w} :
               Busy(v) /\ receipt'[pc[v].request] # None
                   /\ HoldsClaim(pc[v].request, pc[v].claim)
               => receipt[pc[v].request] # None,
           pc'[w] # Idle =>
               /\ pc'[w].claim \in 0 .. claims'
               /\ \A v \in Workers \ {w} :
                      Busy(v) /\ pc[v].claim = pc'[w].claim => pc[v].claim = NoClaim
               /\ pc'[w].at \in Secured => HoldsIn(jobs', pc'[w].request, pc'[w].claim)
               /\ pc'[w].at \in {"receipt", "complete"} => pc'[w].outcome \in Outcomes
               /\ receipt'[pc'[w].request] # None
                      /\ HoldsIn(jobs', pc'[w].request, pc'[w].claim)
                  => pc'[w].at = "complete"
    PROVE  RunInv'
<1> USE DEF RunInv
<1>1. /\ \A v \in Workers : Busy(v) => pc[v].request \in Requests /\ pc[v].at \in Stages
      /\ \A v \in Workers : pc[v].at \in Stages => Busy(v)
      /\ \A v \in Workers : pc'[v].at \in Stages => pc'[v] # Idle
      /\ Secured \subseteq Stages /\ {"receipt", "complete"} \subseteq Stages
  BY BusyWorker DEF Secured, Redeemed, Executing, Stages, Idle
<1>2. SlotHeld'
  BY <1>1 DEF SlotHeld, HoldsClaim, HoldsIn
<1>3. ClaimsKnown'
  BY QueueAssumption DEF ClaimsKnown, Busy, QueueInv, QueueTypeOK
<1>4. ClaimsApart'
  BY DEF ClaimsApart, Busy
<1>5. OutcomeKnown'
  BY <1>1 DEF OutcomeKnown
<1>6. ReceiptSettles'
  BY <1>1 DEF ReceiptSettles, Queued, Busy, HoldsClaim, HoldsIn
<1> QED BY <1>2, <1>3, <1>4, <1>5, <1>6

\* A step of a worker that leaves the queue and the receipts alone: it ends, or
\* goes on with the same request and claim, which it holds if it has to.
LEMMA AdvanceKeeps ==
    ASSUME RunInv, NEW w \in Workers, Busy(w), NEW e, pc' = [pc EXCEPT ![w] = e],
           UNCHANGED <<queueVars, receipt>>,
           capability' \in [Requests -> {"ISSUED", "CONSUMED", "REVOKED"}],
           e = Idle \/
               /\ e \in Jobs /\ e.request = pc[w].request /\ e.claim = pc[w].claim
               /\ pc[w].at # "complete"
               /\ e.at \in Secured => HoldsClaim(e.request, e.claim)
               /\ e.at \in {"receipt", "complete"} => e.outcome \in Outcomes
    PROVE  RunInv'
<1> USE DEF RunInv
<1>1. pc'[w] = e /\ \A v \in Workers \ {w} : pc'[v] = pc[v]
  BY DEF TypeOK
<1>2. QueueInv'
  BY QueueStep DEF QueueNext
<1>3. TypeOK'
  BY <1>2 DEF TypeOK, QueueInv, queueVars
<1>4. jobs' = jobs /\ claims' = claims /\ receipt' = receipt
  BY DEF queueVars
<1>5. claims \in Nat /\ \A v \in Workers : Busy(v) => pc[v].request \in Requests
  BY QueueAssumption, BusyWorker DEF QueueInv, QueueTypeOK
<1>6. \A r \in Requests : receipt'[r] # None =>
          jobs'[r] # Absent /\ jobs'[r].state # "WAITING"
  BY <1>4 DEF ReceiptSettles, Queued
<1>7. e # Idle =>
          /\ e.claim \in 0 .. claims
          /\ \A v \in Workers \ {w} :
                 Busy(v) /\ pc[v].claim = e.claim => pc[v].claim = NoClaim
          /\ ~(receipt[e.request] # None /\ HoldsClaim(e.request, e.claim))
  BY <1>5 DEF ClaimsKnown, ClaimsApart, ReceiptSettles
<1>8. \A r, claim : HoldsIn(jobs', r, claim) <=> HoldsClaim(r, claim)
  BY <1>4 DEF HoldsIn, HoldsClaim
<1>9. claims <= claims'
  BY <1>4, <1>5
<1>10. e.at \in Secured => HoldsIn(jobs', e.request, e.claim)
  BY <1>8, BusyWorker DEF Secured, Redeemed, Executing, Idle
<1>11. e # Idle /\ e.at \in {"receipt", "complete"} => e.outcome \in Outcomes
  OBVIOUS
<1>12. e # Idle =>
          /\ e.claim \in 0 .. claims'
          /\ \A v \in Workers \ {w} :
                 Busy(v) /\ pc[v].claim = e.claim => pc[v].claim = NoClaim
          /\ e.at \in Secured => HoldsIn(jobs', e.request, e.claim)
          /\ e.at \in {"receipt", "complete"} => e.outcome \in Outcomes
          /\ receipt'[e.request] # None /\ HoldsIn(jobs', e.request, e.claim)
             => e.at = "complete"
  BY <1>4, <1>7, <1>8, <1>10, <1>11
<1>13. \A v \in Workers \ {w} : Busy(v) =>
           (HoldsIn(jobs', pc[v].request, pc[v].claim)
               <=> HoldsClaim(pc[v].request, pc[v].claim))
  BY <1>8
<1>14. \A v \in Workers \ {w} :
           Busy(v) /\ receipt'[pc[v].request] # None
               /\ HoldsClaim(pc[v].request, pc[v].claim)
           => receipt[pc[v].request] # None
  BY <1>4
<1> HIDE DEF RunInv
<1> QED BY <1>1, <1>2, <1>3, <1>6, <1>9, <1>12, <1>13, <1>14, WorkerKeeps

\* Where a worker goes next.
LEMMA NextJob ==
    ASSUME TypeOK, NEW w \in Workers, Busy(w), NEW stage \in Stages
    PROVE  /\ [pc[w] EXCEPT !.at = stage] \in Jobs
           /\ [pc[w] EXCEPT !.at = stage].at = stage
           /\ [pc[w] EXCEPT !.at = stage].request = pc[w].request
           /\ [pc[w] EXCEPT !.at = stage].claim = pc[w].claim
           /\ [pc[w] EXCEPT !.at = stage].outcome = pc[w].outcome
<1>1. pc[w] \in Jobs
  BY BusyWorker
<1> QED BY <1>1 DEF Jobs

LEMMA AuthorizeKeeps ==
    ASSUME RunInv, NEW w \in Workers,
           Authorize(w, "authorize", "redeem") \/ Authorize(w, "check", "harbor")
    PROVE  RunInv'
<1> USE DEF RunInv
<1>1. PICK stage \in {"authorize", "check"}, next \in {"redeem", "harbor"} :
          Authorize(w, stage, next)
  OBVIOUS
<1>2. /\ Busy(w) /\ pc[w].at # "complete" /\ next \in Stages
      /\ next \notin {"receipt", "complete"}
      /\ UNCHANGED <<queueVars, receipt>> /\ capability' = capability
  BY <1>1, BusyWorker DEF Authorize, At, Stages
<1>3. CASE HoldsClaim(pc[w].request, pc[w].claim)
  <2>1. pc' = [pc EXCEPT ![w] = [pc[w] EXCEPT !.at = next]]
    BY <1>1, <1>3 DEF Authorize, Goto
  <2> QED BY <1>2, <1>3, <2>1, NextJob, AdvanceKeeps DEF TypeOK
<1>4. CASE ~HoldsClaim(pc[w].request, pc[w].claim)
  <2>1. pc' = [pc EXCEPT ![w] = Idle]
    BY <1>1, <1>4 DEF Authorize, Leave
  <2> QED BY <1>2, <2>1, AdvanceKeeps DEF TypeOK
<1> QED BY <1>3, <1>4

LEMMA RedeemKeeps ==
    ASSUME RunInv, NEW w \in Workers, Redeem(w)
    PROVE  RunInv'
<1> USE DEF RunInv
<1>1. /\ Busy(w) /\ pc[w].at = "redeem"
      /\ UNCHANGED <<queueVars, receipt>>
      /\ HoldsClaim(pc[w].request, pc[w].claim)
  BY BusyWorker DEF Redeem, At, Stages, SlotHeld, Secured
<1>2. capability' \in [Requests -> {"ISSUED", "CONSUMED", "REVOKED"}]
  BY DEF Redeem, TypeOK
<1>3. \/ pc' = [pc EXCEPT ![w] = [pc[w] EXCEPT !.at = "check"]]
      \/ pc' = [pc EXCEPT ![w] = Idle]
  BY DEF Redeem, Goto, Leave
<1>4. "check" \in Stages /\ "check" \notin {"receipt", "complete"}
  BY DEF Stages
<1> QED BY <1>1, <1>2, <1>3, <1>4, NextJob, AdvanceKeeps

LEMMA EndKeeps ==
    ASSUME RunInv, NEW w \in Workers, Die(w) \/ RedeemRuntime(w)
    PROVE  RunInv'
<1>1. Busy(w) /\ pc' = [pc EXCEPT ![w] = Idle]
      /\ UNCHANGED <<queueVars, receipt>> /\ capability' = capability
  BY BusyWorker DEF Die, RedeemRuntime, At, Stages, Leave, RunInv
<1> QED BY <1>1, AdvanceKeeps DEF RunInv, TypeOK

LEMMA RunHarborKeeps ==
    ASSUME RunInv, NEW w \in Workers, NEW outcome \in Outcomes, RunHarbor(w, outcome)
    PROVE  RunInv'
<1> USE DEF RunInv
<1>1. /\ Busy(w) /\ pc[w].at = "harbor" /\ pc[w] \in Jobs
      /\ UNCHANGED <<queueVars, receipt>> /\ capability' = capability
      /\ HoldsClaim(pc[w].request, pc[w].claim)
  BY BusyWorker
  DEF RunHarbor, At, Stages, SlotHeld, Secured, Redeemed, Executing
<1> DEFINE e == [pc[w] EXCEPT !.at = "receipt", !.outcome = outcome]
<1>2. pc' = [pc EXCEPT ![w] = e]
  BY DEF RunHarbor
<1>3. /\ e \in Jobs /\ e.request = pc[w].request /\ e.claim = pc[w].claim
      /\ e.outcome = outcome
  BY <1>1 DEF Jobs, Stages
<1> HIDE DEF e
<1> QED BY <1>1, <1>2, <1>3, AdvanceKeeps DEF TypeOK

\* A worker comes with a claim that nobody uses, or without one.
LEMMA StartKeeps ==
    ASSUME RunInv, NEW w \in Workers, NEW r \in Requests, NEW given \in BOOLEAN,
           NEW recovery \in BOOLEAN, Start(w, r, given, recovery)
    PROVE  RunInv'
<1> USE DEF RunInv
<1> DEFINE e == [at |-> IF given THEN "authorize" ELSE "submit", request |-> r,
                 claim |-> IF given THEN jobs[r].claim ELSE NoClaim,
                 recovery |-> recovery, outcome |-> None]
<1>1. /\ pc'[w] = e /\ \A v \in Workers \ {w} : pc'[v] = pc[v]
      /\ jobs' = jobs /\ claims' = claims /\ receipt' = receipt /\ receipt[r] = None
      /\ capability' = capability
  BY DEF Start, TypeOK, queueVars
<1>2. QueueInv'
  BY <1>1, QueueStep DEF queueVars
<1>3. claims \in Nat
  BY QueueAssumption DEF QueueInv, QueueTypeOK
<1>4. e.claim \in 0 .. claims
  <2>1. CASE given
    <3>1. HoldsClaim(r, jobs[r].claim)
      BY <2>1 DEF Start, HoldsClaim
    <3>2. jobs[r].claim \in 1 .. claims
      BY <3>1, HeldClaim
    <3> QED BY <1>3, <2>1, <3>2
  <2>2. CASE ~given
    BY <1>3, <2>2 DEF NoClaim
  <2> QED BY <2>1, <2>2
<1>5. TypeOK'
  <2>1. e \in Jobs
    BY <1>3, <1>4 DEF Jobs, Stages
  <2>2. pc' = [pc EXCEPT ![w] = e]
    BY DEF Start
  <2> HIDE DEF e
  <2> QED BY <1>1, <1>2, <2>1, <2>2 DEF TypeOK, QueueInv
<1>6. \A v \in Workers \ {w} : Busy(v) /\ pc[v].claim = e.claim => pc[v].claim = NoClaim
  BY DEF Start
<1>7. e.at \in {"authorize", "submit"} /\ e.request = r
  OBVIOUS
<1>8. "authorize" \notin Secured /\ "submit" \notin Secured
  BY DEF Secured, Redeemed, Executing
<1>9. \A v \in Workers \ {w} : Busy(v) =>
           (HoldsIn(jobs', pc[v].request, pc[v].claim)
               <=> HoldsClaim(pc[v].request, pc[v].claim))
  BY <1>1 DEF HoldsIn, HoldsClaim
<1>10. \A q \in Requests : receipt'[q] # None =>
           jobs'[q] # Absent /\ jobs'[q].state # "WAITING"
  BY <1>1 DEF ReceiptSettles, Queued
<1>11. \A v \in Workers \ {w} :
           Busy(v) /\ receipt'[pc[v].request] # None
               /\ HoldsClaim(pc[v].request, pc[v].claim)
           => receipt[pc[v].request] # None
  BY <1>1
<1>12. pc'[w] # Idle =>
               /\ pc'[w].claim \in 0 .. claims'
               /\ \A v \in Workers \ {w} :
                      Busy(v) /\ pc[v].claim = pc'[w].claim => pc[v].claim = NoClaim
               /\ pc'[w].at \in Secured => HoldsIn(jobs', pc'[w].request, pc'[w].claim)
               /\ pc'[w].at \in {"receipt", "complete"} => pc'[w].outcome \in Outcomes
               /\ receipt'[pc'[w].request] # None
                      /\ HoldsIn(jobs', pc'[w].request, pc'[w].claim)
                  => pc'[w].at = "complete"
  <2> HIDE DEF e
  <2> QED BY <1>1, <1>4, <1>6, <1>7, <1>8
<1>13. claims <= claims'
  BY <1>1, <1>3
<1> HIDE DEF RunInv, e
<1> QED BY <1>1, <1>2, <1>5, <1>9, <1>10, <1>11, <1>12, <1>13, WorkerKeeps

LEMMA SubmitOwnKeeps ==
    ASSUME RunInv, NEW w \in Workers, SubmitOwn(w)
    PROVE  RunInv'
<1> USE DEF RunInv
<1> DEFINE r == pc[w].request
<1>1. /\ Busy(w) /\ pc[w].at = "submit" /\ r \in Requests /\ pc[w] \in Jobs
      /\ pc' = [pc EXCEPT ![w] = [pc[w] EXCEPT !.at = "claim"]]
      /\ receipt' = receipt /\ capability' = capability
  BY BusyWorker DEF SubmitOwn, At, Stages, Goto
<1>2. "claim" \in Stages /\ "claim" \notin Secured /\ "claim" \notin {"receipt", "complete"}
  BY DEF Stages, Secured, Redeemed, Executing
<1>3. CASE UNCHANGED queueVars
  BY <1>1, <1>2, <1>3, NextJob, AdvanceKeeps DEF TypeOK
<1>4. CASE Submit(r)
  <2> HIDE DEF r
  <2>1. QueueInv'
    BY <1>1, <1>4, SubmitKeeps
  <2>2. /\ claims' = claims /\ claims \in Nat
        /\ \A q \in Requests \ {r} : jobs'[q] = jobs[q]
        /\ r \notin Queued
    BY <1>1, <1>4, SubmitEffect, QueueAssumption DEF QueueInv, QueueTypeOK
  <2>3. pc'[w] = [pc[w] EXCEPT !.at = "claim"] /\ \A v \in Workers \ {w} : pc'[v] = pc[v]
    BY <1>1 DEF TypeOK
  <2>4. /\ pc'[w] \in Jobs /\ pc'[w].at = "claim" /\ pc'[w].claim = pc[w].claim
        /\ pc'[w].request = r
    BY <1>1, <2>3 DEF Jobs, Stages, r
  <2>5. TypeOK'
    BY <1>1, <2>1, <2>3, <2>4 DEF TypeOK, QueueInv
  <2>6. \A v \in Workers : Busy(v) =>
            (HoldsIn(jobs', pc[v].request, pc[v].claim)
                <=> HoldsClaim(pc[v].request, pc[v].claim))
    BY <1>1, <1>4, BusyWorker, SubmitHolds
  <2>7. \A q \in Requests : receipt'[q] # None =>
            jobs'[q] # Absent /\ jobs'[q].state # "WAITING"
    BY <1>1, <2>2 DEF ReceiptSettles, Queued
  <2>8. receipt[r] = None
    BY <1>1, <2>2 DEF ReceiptSettles
  <2>9. pc'[w].claim \in 0 .. claims'
    BY <1>1, <2>2, <2>4 DEF ClaimsKnown
  <2>10. \A v \in Workers \ {w} :
             Busy(v) /\ pc[v].claim = pc'[w].claim => pc[v].claim = NoClaim
    BY <1>1, <2>4 DEF ClaimsApart
  <2>11. \A v \in Workers \ {w} :
           Busy(v) /\ receipt'[pc[v].request] # None
               /\ HoldsClaim(pc[v].request, pc[v].claim)
           => receipt[pc[v].request] # None
    BY <1>1
  <2>12. pc'[w] # Idle =>
               /\ pc'[w].claim \in 0 .. claims'
               /\ \A v \in Workers \ {w} :
                      Busy(v) /\ pc[v].claim = pc'[w].claim => pc[v].claim = NoClaim
               /\ pc'[w].at \in Secured => HoldsIn(jobs', pc'[w].request, pc'[w].claim)
               /\ pc'[w].at \in {"receipt", "complete"} => pc'[w].outcome \in Outcomes
               /\ receipt'[pc'[w].request] # None
                      /\ HoldsIn(jobs', pc'[w].request, pc'[w].claim)
                  => pc'[w].at = "complete"
    BY <1>1, <1>2, <2>4, <2>8, <2>9, <2>10
  <2>13. claims <= claims'
    BY <2>2
  <2> HIDE DEF RunInv
  <2> QED BY <2>1, <2>3, <2>5, <2>6, <2>7, <2>11, <2>12, <2>13, WorkerKeeps
<1> QED BY <1>3, <1>4 DEF SubmitOwn

LEMMA ClaimOwnKeeps ==
    ASSUME RunInv, NEW w \in Workers, ClaimOwn(w)
    PROVE  RunInv'
<1> USE DEF RunInv
<1> DEFINE r == pc[w].request
<1>1. /\ Busy(w) /\ pc[w].at = "claim" /\ r \in Requests /\ pc[w] \in Jobs
      /\ receipt' = receipt /\ capability' = capability
  BY BusyWorker DEF ClaimOwn, At, Stages
<1>2. CASE Leave(w) /\ UNCHANGED queueVars
  BY <1>1, <1>2, AdvanceKeeps DEF TypeOK, Leave
<1>3. CASE ClaimRequest(r) /\ pc' = [pc EXCEPT ![w].at = "redeem", ![w].claim = claims + 1]
  <2> HIDE DEF r
  <2>1. PICK id : Takes({r}, id) /\ id = [x \in {r} |-> claims + 1]
    BY <1>1, <1>3, ClaimRequestTakes
  <2>2. QueueInv'
    BY <2>1, TakesKeeps
  <2>3. claims' = claims + 1 /\ claims \in Nat /\ r \in Waiting
    BY <1>3, QueueAssumption DEF ClaimRequest, Eligible, QueueInv, QueueTypeOK
  <2>4. HoldsIn(jobs', r, claims + 1)
    <3>1. jobs[r] \in HarborQueueEntry /\ id[r] = claims + 1
      BY <2>1, <2>3, Parts, QueuedEntry DEF QueueInv
    <3>2. jobs'[r] = Claimed(r, id[r]) /\ jobs'[r] \in HarborQueueEntry
      BY <2>1, TakesEffect
    <3>3. jobs'[r].state = "ACTIVE" /\ jobs'[r].claim = claims + 1
      BY <3>1, <3>2 DEF Claimed, HarborQueueEntry
    <3> QED BY <3>2, <3>3, QueueAssumption DEF HoldsIn
  <2>5. /\ pc'[w] = [pc[w] EXCEPT !.at = "redeem", !.claim = claims + 1]
        /\ \A v \in Workers \ {w} : pc'[v] = pc[v]
    BY <1>3 DEF TypeOK
  <2>6. /\ pc'[w] \in Jobs /\ pc'[w].at = "redeem" /\ pc'[w].claim = claims + 1
        /\ pc'[w].request = r
    <3>1. pc'[w] = [at |-> "redeem", request |-> r, claim |-> claims + 1,
                    recovery |-> pc[w].recovery, outcome |-> pc[w].outcome]
      BY <1>1, <2>5 DEF Jobs, r
    <3>2. pc[w].recovery \in BOOLEAN /\ pc[w].outcome \in Outcomes \cup {None}
      BY <1>1 DEF Jobs
    <3> QED BY <1>1, <2>3, <3>1, <3>2 DEF Jobs, Stages
  <2>7. TypeOK'
    BY <1>1, <1>3, <2>2, <2>6 DEF TypeOK, QueueInv
  <2>8. \A v \in Workers : Busy(v) => pc[v].claim \in 0 .. claims /\ pc[v].request \in Requests
    BY BusyWorker DEF ClaimsKnown
  <2>9. \A v \in Workers : Busy(v) =>
            (HoldsIn(jobs', pc[v].request, pc[v].claim)
                <=> HoldsClaim(pc[v].request, pc[v].claim))
    BY <2>1, <2>8, TakesHolds
  <2>10. \A q \in Requests : receipt'[q] # None =>
            jobs'[q] # Absent /\ jobs'[q].state # "WAITING"
    <3>1. \A q \in Requests : receipt'[q] # None =>
              q # r /\ jobs[q] # Absent /\ jobs[q].state # "WAITING"
      BY <1>1, <2>3 DEF ReceiptSettles, Queued, Waiting
    <3>2. \A q \in Requests \ {r} : jobs'[q] = jobs[q]
      BY <2>1, TakesEffect
    <3> QED BY <3>1, <3>2
  <2>11. receipt[r] = None
    BY <1>1, <2>3 DEF ReceiptSettles, Waiting
  <2>12. \A v \in Workers \ {w} :
             Busy(v) /\ pc[v].claim = pc'[w].claim => pc[v].claim = NoClaim
    BY <2>3, <2>6, <2>8
  <2>13. \A v \in Workers \ {w} :
           Busy(v) /\ receipt'[pc[v].request] # None
               /\ HoldsClaim(pc[v].request, pc[v].claim)
           => receipt[pc[v].request] # None
    BY <1>1
  <2>14. pc'[w] # Idle =>
               /\ pc'[w].claim \in 0 .. claims'
               /\ \A v \in Workers \ {w} :
                      Busy(v) /\ pc[v].claim = pc'[w].claim => pc[v].claim = NoClaim
               /\ pc'[w].at \in Secured => HoldsIn(jobs', pc'[w].request, pc'[w].claim)
               /\ pc'[w].at \in {"receipt", "complete"} => pc'[w].outcome \in Outcomes
               /\ receipt'[pc'[w].request] # None
                      /\ HoldsIn(jobs', pc'[w].request, pc'[w].claim)
                  => pc'[w].at = "complete"
    BY <1>1, <2>3, <2>4, <2>6, <2>11, <2>12
  <2>15. claims <= claims'
    BY <2>3
  <2> HIDE DEF RunInv
  <2> QED BY <2>2, <2>5, <2>7, <2>9, <2>10, <2>13, <2>14, <2>15, WorkerKeeps
<1> QED BY <1>2, <1>3 DEF ClaimOwn

LEMMA WriteReceiptKeeps ==
    ASSUME RunInv, NEW w \in Workers, WriteReceipt(w)
    PROVE  RunInv'
<1> USE DEF RunInv
<1> DEFINE r == pc[w].request
<1>1. /\ Busy(w) /\ pc[w].at = "receipt" /\ r \in Requests /\ pc[w] \in Jobs
      /\ jobs' = jobs /\ claims' = claims /\ capability' = capability
      /\ receipt' = [receipt EXCEPT ![r] = pc[w].outcome]
      /\ pc' = [pc EXCEPT ![w] = [pc[w] EXCEPT !.at = "complete"]]
  BY BusyWorker DEF WriteReceipt, At, Stages, Goto, queueVars
<1>2. HoldsClaim(r, pc[w].claim) /\ pc[w].outcome \in Outcomes
  BY <1>1 DEF SlotHeld, OutcomeKnown, Secured, Redeemed, Executing
<1>3. /\ pc'[w] \in Jobs /\ pc'[w].at = "complete" /\ pc'[w].claim = pc[w].claim
      /\ pc'[w].request = r /\ pc'[w].outcome = pc[w].outcome
      /\ \A v \in Workers \ {w} : pc'[v] = pc[v]
  BY <1>1 DEF Jobs, Stages, TypeOK
<1>4. QueueInv' /\ claims \in Nat
  BY <1>1, QueueStep, QueueAssumption DEF queueVars, QueueInv, QueueTypeOK
<1>5. TypeOK'
  BY <1>1, <1>2, <1>3, <1>4 DEF TypeOK, QueueInv
<1>6. \A q \in Requests \ {r} : receipt'[q] = receipt[q]
  BY <1>1 DEF TypeOK
<1>7. pc[w].claim \in 1 .. claims
  BY <1>1, <1>2, HeldClaim
<1>8. \A v \in Workers \ {w} : Busy(v) /\ HoldsClaim(pc[v].request, pc[v].claim)
          => pc[v].request # r
  BY <1>1, <1>2, <1>7 DEF ClaimsApart, HoldsClaim, NoClaim
<1>9. \A v \in Workers \ {w} :
           Busy(v) /\ receipt'[pc[v].request] # None
               /\ HoldsClaim(pc[v].request, pc[v].claim)
           => receipt[pc[v].request] # None
  BY <1>6, <1>8, BusyWorker
<1>10. \A q \in Requests : receipt'[q] # None =>
           jobs'[q] # Absent /\ jobs'[q].state # "WAITING"
  BY <1>1, <1>2, <1>6 DEF ReceiptSettles, Queued, HoldsClaim
<1>11. \A v \in Workers : Busy(v) =>
           (HoldsIn(jobs', pc[v].request, pc[v].claim)
               <=> HoldsClaim(pc[v].request, pc[v].claim))
  BY <1>1 DEF HoldsIn, HoldsClaim
<1>12. pc'[w] # Idle =>
               /\ pc'[w].claim \in 0 .. claims'
               /\ \A v \in Workers \ {w} :
                      Busy(v) /\ pc[v].claim = pc'[w].claim => pc[v].claim = NoClaim
               /\ pc'[w].at \in Secured => HoldsIn(jobs', pc'[w].request, pc'[w].claim)
               /\ pc'[w].at \in {"receipt", "complete"} => pc'[w].outcome \in Outcomes
               /\ receipt'[pc'[w].request] # None
                      /\ HoldsIn(jobs', pc'[w].request, pc'[w].claim)
                  => pc'[w].at = "complete"
  BY <1>1, <1>2, <1>3, <1>7, <1>11 DEF ClaimsKnown, ClaimsApart
<1>13. claims <= claims'
  BY <1>1, <1>4
<1> HIDE DEF RunInv, r
<1> QED BY <1>3, <1>4, <1>5, <1>9, <1>10, <1>11, <1>12, <1>13, WorkerKeeps

LEMMA CompleteOwnKeeps ==
    ASSUME RunInv, NEW w \in Workers, CompleteOwn(w)
    PROVE  RunInv'
<1> USE DEF RunInv
<1> DEFINE r == pc[w].request
<1>1. /\ Busy(w) /\ pc[w].at = "complete" /\ r \in Requests
      /\ receipt' = receipt /\ capability' = capability
      /\ pc' = [pc EXCEPT ![w] = Idle]
  BY BusyWorker DEF CompleteOwn, At, Stages, Leave
<1>2. CASE UNCHANGED queueVars
  BY <1>1, <1>2, AdvanceKeeps DEF TypeOK
<1>3. CASE Complete(r, pc[w].claim, pc[w].outcome)
  <2> HIDE DEF r
  <2>1. /\ pc[w].outcome \in Terminal /\ HoldsClaim(r, pc[w].claim)
    BY <1>1, <1>3 DEF OutcomeKnown, Outcomes, Terminal, Complete
  <2>2. Leaves(r, pc[w].outcome) /\ pc[w].outcome # "WAITING"
    BY <1>1, <1>3, <2>1, CompleteLeaves DEF QueueInv, Terminal
  <2>3. QueueInv' /\ claims' = claims /\ claims \in Nat
    <3>1. QueueInv'
      BY <2>2, LeavesKeeps
    <3>2. claims' = claims /\ claims \in Nat
      BY <2>2, QueueAssumption DEF Leaves, QueueInv, QueueTypeOK
    <3> QED BY <3>1, <3>2
  <2>4. pc'[w] = Idle /\ \A v \in Workers \ {w} : pc'[v] = pc[v]
    BY <1>1 DEF TypeOK
  <2>5. TypeOK'
    BY <1>1, <2>3 DEF TypeOK, QueueInv
  <2>6. pc[w].claim \in 1 .. claims
    BY <1>1, <2>1, HeldClaim
  <2>7. \A v \in Workers \ {w} : Busy(v) /\ HoldsClaim(pc[v].request, pc[v].claim)
            => pc[v].request # r
    BY <1>1, <2>1, <2>6 DEF ClaimsApart, HoldsClaim, NoClaim
  <2>8. \A v \in Workers \ {w} : Busy(v) =>
            (HoldsIn(jobs', pc[v].request, pc[v].claim)
                <=> HoldsClaim(pc[v].request, pc[v].claim))
    BY <2>2, <2>7, BusyWorker, LeavesHolds
  <2>9. \A q \in Requests : receipt'[q] # None =>
            jobs'[q] # Absent /\ jobs'[q].state # "WAITING"
    <3>1. /\ jobs'[r] \in HarborQueueEntry /\ jobs'[r].state = pc[w].outcome
          /\ \A q \in Requests \ {r} : jobs'[q] = jobs[q]
      BY <2>2, LeavesEffect DEF QueueInv
    <3> QED BY <1>1, <2>2, <3>1, QueueAssumption DEF ReceiptSettles, Queued
  <2>10. \A v \in Workers \ {w} :
           Busy(v) /\ receipt'[pc[v].request] # None
               /\ HoldsClaim(pc[v].request, pc[v].claim)
           => receipt[pc[v].request] # None
    BY <1>1
  <2>11. claims <= claims'
    BY <2>3
  <2> HIDE DEF RunInv
  <2> QED BY <2>3, <2>4, <2>5, <2>8, <2>9, <2>10, <2>11, WorkerKeeps
<1> QED BY <1>2, <1>3 DEF CompleteOwn

\* An operator's step: the queue changes and no worker moves.
LEMMA BystandersKeep ==
    ASSUME RunInv, QueueInv', claims <= claims', UNCHANGED runVars,
           \A v \in Workers : Busy(v) =>
               (HoldsIn(jobs', pc[v].request, pc[v].claim)
                   <=> HoldsClaim(pc[v].request, pc[v].claim)),
           \A r \in Requests : receipt[r] # None =>
               jobs'[r] # Absent /\ jobs'[r].state # "WAITING"
    PROVE  RunInv'
<1> USE DEF RunInv
<1>1. capability' = capability /\ receipt' = receipt /\ pc' = pc
  BY DEF runVars
<1>2. /\ \A v \in Workers : Busy(v) => pc[v].request \in Requests
      /\ \A v \in Workers : pc[v].at \in Secured => Busy(v)
  BY BusyWorker DEF Secured, Redeemed, Executing, Stages
<1>3. TypeOK'
  BY <1>1 DEF TypeOK, QueueInv
<1>4. SlotHeld'
  BY <1>1, <1>2 DEF SlotHeld, HoldsClaim, HoldsIn
<1>5. ClaimsKnown' /\ ClaimsApart' /\ OutcomeKnown'
  BY <1>1, QueueAssumption
  DEF ClaimsKnown, ClaimsApart, OutcomeKnown, Busy, QueueInv, QueueTypeOK
<1>6. ReceiptSettles'
  BY <1>1, <1>2 DEF ReceiptSettles, Queued, Busy, HoldsClaim, HoldsIn
<1> QED BY <1>3, <1>4, <1>5, <1>6

LEMMA OperateKeeps ==
    ASSUME RunInv, Operate
    PROVE  RunInv'
<1> USE DEF RunInv
<1>1. UNCHANGED runVars /\ claims \in Nat
  BY QueueAssumption DEF Operate, QueueInv, QueueTypeOK
<1>2. \A v \in Workers : Busy(v) => pc[v].request \in Requests /\ pc[v].claim \in 0 .. claims
  BY BusyWorker DEF ClaimsKnown
<1>3. \A q \in Requests : receipt[q] # None => jobs[q] # Absent /\ jobs[q].state # "WAITING"
  BY DEF ReceiptSettles, Queued
<1>4. ASSUME NEW r \in Requests, Submit(r) PROVE RunInv'
  <2>1. QueueInv'
    BY <1>4, SubmitKeeps
  <2>2. /\ claims <= claims' /\ jobs[r] = Absent
        /\ \A q \in Requests \ {r} : jobs'[q] = jobs[q]
    BY <1>1, <1>4, SubmitEffect DEF Submit
  <2>3. \A v \in Workers : Busy(v) =>
            (HoldsIn(jobs', pc[v].request, pc[v].claim)
                <=> HoldsClaim(pc[v].request, pc[v].claim))
    BY <1>2, <1>4, SubmitHolds
  <2> QED BY <1>1, <1>3, <2>1, <2>2, <2>3, BystandersKeep
<1>5. ASSUME NEW limit \in 1 .. MaxActive, Claim(limit) PROVE RunInv'
  <2>1. PICK id : Takes(First(limit), id)
    BY <1>5, ClaimTakes
  <2>2. QueueInv'
    BY <2>1, TakesKeeps
  <2>3. claims <= claims' /\ First(limit) \subseteq Waiting
    BY <1>1, <2>1, QueueAssumption DEF Takes
  <2>4. \A v \in Workers : Busy(v) =>
            (HoldsIn(jobs', pc[v].request, pc[v].claim)
                <=> HoldsClaim(pc[v].request, pc[v].claim))
    BY <1>2, <2>1, TakesHolds
  <2>5. \A q \in Requests : receipt[q] # None =>
            jobs'[q] # Absent /\ jobs'[q].state # "WAITING"
    <3>1. \A q \in Requests \ First(limit) : jobs'[q] = jobs[q]
      BY <2>1, TakesEffect
    <3> QED BY <1>3, <2>3, <3>1 DEF Waiting
  <2> QED BY <1>1, <2>2, <2>3, <2>4, <2>5, BystandersKeep
<1>6. ASSUME NEW r \in Requests, NEW claim \in 1 .. claims, Orphaned(r, claim),
             \/ receipt[r] = None /\ ReclaimStale(r, claim)
             \/ Complete(r, claim, "RECOVERY_REQUIRED")
      PROVE  RunInv'
  <2>1. PICK state : Leaves(r, state) /\ (receipt[r] # None => state # "WAITING")
    BY <1>6, ReclaimLeaves, CompleteLeaves DEF QueueInv, Terminal
  <2>2. HoldsClaim(r, claim)
    BY <1>6 DEF ReclaimStale, Complete
  <2>3. QueueInv' /\ claims <= claims'
    <3>1. QueueInv'
      BY <2>1, LeavesKeeps
    <3> QED BY <1>1, <2>1, <3>1 DEF Leaves
  <2>4. \A v \in Workers : Busy(v) =>
            (HoldsIn(jobs', pc[v].request, pc[v].claim)
                <=> HoldsClaim(pc[v].request, pc[v].claim))
    <3>1. \A v \in Workers : Busy(v) /\ HoldsClaim(pc[v].request, pc[v].claim)
              => pc[v].request # r
      BY <1>6, <2>2 DEF Orphaned, HoldsClaim
    <3> QED BY <1>2, <2>1, <3>1, LeavesHolds
  <2>5. \A q \in Requests : receipt[q] # None =>
            jobs'[q] # Absent /\ jobs'[q].state # "WAITING"
    <3>1. /\ jobs'[r] \in HarborQueueEntry /\ jobs'[r].state = state
          /\ \A q \in Requests \ {r} : jobs'[q] = jobs[q]
      BY <2>1, LeavesEffect DEF QueueInv
    <3> QED BY <1>3, <2>1, <3>1, QueueAssumption
  <2> QED BY <1>1, <2>3, <2>4, <2>5, BystandersKeep
<1> QED BY <1>4, <1>5, <1>6 DEF Operate

LEMMA RevokeKeeps ==
    ASSUME RunInv, NEW r \in Requests, Revoke(r)
    PROVE  RunInv'
<1>1. /\ jobs' = jobs /\ claims' = claims /\ receipt' = receipt /\ pc' = pc
      /\ capability' \in [Requests -> {"ISSUED", "CONSUMED", "REVOKED"}]
  BY DEF Revoke, queueVars, RunInv, TypeOK
<1>2. QueueInv'
  BY <1>1, QueueStep DEF RunInv, queueVars
<1> QED BY <1>1, <1>2
        DEF RunInv, TypeOK, QueueInv, SlotHeld, ClaimsKnown, ClaimsApart, OutcomeKnown,
            ReceiptSettles, Queued, Busy, HoldsClaim

LEMMA RunStart ==
    ASSUME Init
    PROVE  RunInv
<1>1. QueueInv
  BY QueueStart DEF Init
<1>2. \A w \in Workers : ~Busy(w) /\ pc[w].at = "idle"
  BY DEF Init, Busy, Idle
<1>3. TypeOK
  BY <1>1 DEF Init, TypeOK, QueueInv
<1> QED BY <1>1, <1>2, <1>3
        DEF Init, RunInv, SlotHeld, ClaimsKnown, ClaimsApart, OutcomeKnown, ReceiptSettles,
            Secured, Redeemed, Executing

LEMMA RunStep ==
    ASSUME RunInv, [Next]_vars
    PROVE  RunInv'
<1>1. ASSUME NEW w \in Workers, Begin(w) PROVE RunInv'
  BY <1>1, StartKeeps DEF Begin
<1>2. ASSUME NEW w \in Workers, Step(w) PROVE RunInv'
  BY <1>2, AuthorizeKeeps, SubmitOwnKeeps, ClaimOwnKeeps, RedeemKeeps, EndKeeps,
     RunHarborKeeps, WriteReceiptKeeps, CompleteOwnKeeps DEF Step
<1>3. ASSUME NEW w \in Workers, Die(w) PROVE RunInv'
  BY <1>3, EndKeeps
<1>4. ASSUME NEW r \in Requests, Revoke(r) PROVE RunInv'
  BY <1>4, RevokeKeeps
<1>5. CASE Operate
  BY <1>5, OperateKeeps
<1>6. CASE UNCHANGED vars
  <2>1. /\ jobs' = jobs /\ claims' = claims /\ receipt' = receipt /\ pc' = pc
        /\ capability' = capability
    BY <1>6 DEF vars
  <2>2. QueueInv'
    BY <2>1, QueueStep DEF RunInv, queueVars
  <2> QED BY <2>1, <2>2
          DEF RunInv, TypeOK, QueueInv, SlotHeld, ClaimsKnown, ClaimsApart, OutcomeKnown,
              ReceiptSettles, Queued, Busy, HoldsClaim
<1> QED BY <1>1, <1>2, <1>3, <1>4, <1>5, <1>6 DEF Next

LEMMA RunInvariant == Spec => []RunInv
<1>1. Init => RunInv
  BY RunStart
<1>2. RunInv /\ [Next]_vars => RunInv'
  BY RunStep
<1> QED BY <1>1, <1>2, PTL DEF Spec

\* Workers and operators touch the queue only by its operations.
LEMMA StepUsesQueue ==
    ASSUME RunInv, [Next]_vars
    PROVE  [QueueNext]_queueVars
<1> USE DEF RunInv
<1>1. claims \in 0 .. MaxClaims
  BY DEF QueueInv, QueueTypeOK
<1>2. ASSUME NEW r \in Requests, NEW claim, NEW terminal \in Terminal,
             Complete(r, claim, terminal)
      PROVE  QueueNext
  <2>1. claim \in 1 .. MaxClaims
    BY <1>1, <1>2, HeldClaim, QueueAssumption DEF Complete
  <2> QED BY <1>2, <2>1 DEF QueueNext
<1>3. ASSUME NEW r \in Requests, NEW claim, ReclaimStale(r, claim)
      PROVE  QueueNext
  <2>1. claim \in 1 .. MaxClaims
    BY <1>1, <1>3, HeldClaim, QueueAssumption DEF ReclaimStale
  <2> QED BY <1>3, <2>1 DEF QueueNext
<1>4. ASSUME NEW w \in Workers, SubmitOwn(w) PROVE [QueueNext]_queueVars
  <2>1. pc[w].request \in Requests
    BY <1>4, BusyWorker DEF SubmitOwn, At, Stages
  <2> QED BY <1>4, <2>1 DEF SubmitOwn, QueueNext
<1>5. ASSUME NEW w \in Workers, ClaimOwn(w) PROVE [QueueNext]_queueVars
  <2>1. pc[w].request \in Requests
    BY <1>5, BusyWorker DEF ClaimOwn, At, Stages
  <2> QED BY <1>5, <2>1 DEF ClaimOwn, QueueNext
<1>6. ASSUME NEW w \in Workers, CompleteOwn(w) PROVE [QueueNext]_queueVars
  <2>1. pc[w].request \in Requests
    BY <1>6, BusyWorker DEF CompleteOwn, At, Stages
  <2>2. pc[w].outcome \in Terminal
    BY <1>6 DEF CompleteOwn, At, OutcomeKnown, Outcomes, Terminal
  <2> QED BY <1>2, <1>6, <2>1, <2>2 DEF CompleteOwn
<1>7. ASSUME Operate PROVE QueueNext
  <2>1. "RECOVERY_REQUIRED" \in Terminal
    BY DEF Terminal
  <2> QED BY <1>2, <1>3, <1>7, <2>1 DEF Operate, QueueNext
<1>8. ASSUME NEW w \in Workers, Begin(w) \/ Die(w) PROVE UNCHANGED queueVars
  BY <1>8 DEF Begin, Start, Die
<1>9. ASSUME NEW w \in Workers,
             \/ Authorize(w, "authorize", "redeem") \/ Authorize(w, "check", "harbor")
             \/ Redeem(w) \/ RedeemRuntime(w) \/ WriteReceipt(w)
             \/ \E outcome \in Outcomes : RunHarbor(w, outcome)
      PROVE  UNCHANGED queueVars
  BY <1>9 DEF Authorize, Redeem, RedeemRuntime, WriteReceipt, RunHarbor
<1>10. ASSUME NEW r \in Requests, Revoke(r) PROVE UNCHANGED queueVars
  BY <1>10 DEF Revoke
<1>11. CASE UNCHANGED vars
  BY <1>11 DEF vars, queueVars
<1> QED BY <1>4, <1>5, <1>6, <1>7, <1>8, <1>9, <1>10, <1>11 DEF Next, Step

\* The worker that writes a receipt is the first one to write it.
LEMMA FirstReceipt ==
    ASSUME RunInv, [Next]_vars, NEW r \in Requests, receipt[r] # None
    PROVE  receipt'[r] = receipt[r]
<1> USE DEF RunInv
<1>1. ASSUME NEW w \in Workers, WriteReceipt(w) PROVE receipt'[r] = receipt[r]
  <2>1. Busy(w) /\ pc[w].at = "receipt" /\ pc[w].request \in Requests
    BY <1>1, BusyWorker DEF WriteReceipt, At, Stages
  <2>2. HoldsClaim(pc[w].request, pc[w].claim)
    BY <2>1 DEF SlotHeld, Secured, Redeemed, Executing
  <2>3. pc[w].request # r
    BY <2>1, <2>2 DEF ReceiptSettles
  <2> QED BY <1>1, <2>1, <2>3 DEF WriteReceipt, TypeOK
<1>2. ASSUME NEW w \in Workers, Step(w), ~WriteReceipt(w) PROVE receipt' = receipt
  BY <1>2 DEF Step, Authorize, SubmitOwn, ClaimOwn, Redeem, RedeemRuntime, RunHarbor,
              CompleteOwn
<1>3. ASSUME NEW w \in Workers, Begin(w) \/ Die(w) PROVE receipt' = receipt
  BY <1>3 DEF Begin, Start, Die
<1>4. (\E q \in Requests : Revoke(q)) \/ Operate \/ UNCHANGED vars => receipt' = receipt
  BY DEF Revoke, Operate, runVars, vars
<1> QED BY <1>1, <1>2, <1>3, <1>4 DEF Next

\* The worker that consumes a capability holds its slot.
LEMMA ConsumedInSlot ==
    ASSUME RunInv, [Next]_vars, NEW r \in Requests,
           capability'[r] = "CONSUMED", capability[r] # "CONSUMED"
    PROVE  r \in ActiveJobs
<1> USE DEF RunInv
<1>1. ASSUME NEW w \in Workers, Redeem(w) PROVE r \in ActiveJobs
  <2>1. Busy(w) /\ pc[w].at = "redeem" /\ pc[w].request \in Requests
    BY <1>1, BusyWorker DEF Redeem, At, Stages
  <2>2. HoldsClaim(pc[w].request, pc[w].claim)
    BY <2>1 DEF SlotHeld, Secured
  <2>3. pc[w].request = r
    BY <1>1, <2>1 DEF Redeem, TypeOK
  <2> QED BY <2>1, <2>2, <2>3, HeldClaim
<1>2. ASSUME NEW w \in Workers, Step(w), ~Redeem(w) PROVE capability' = capability
  BY <1>2 DEF Step, Authorize, SubmitOwn, ClaimOwn, RedeemRuntime, RunHarbor,
              WriteReceipt, CompleteOwn
<1>3. ASSUME NEW w \in Workers, Begin(w) \/ Die(w) PROVE capability' = capability
  BY <1>3 DEF Begin, Start, Die
<1>4. ASSUME NEW q \in Requests, Revoke(q) PROVE FALSE
  BY <1>4 DEF Revoke, TypeOK
<1>5. Operate \/ UNCHANGED vars => capability' = capability
  BY DEF Operate, runVars, vars
<1> QED BY <1>1, <1>2, <1>3, <1>4, <1>5 DEF Next

-----------------------------------------------------------------------------
(* The theorems.                                                             *)

\* Every state is well typed; a waiting entry has no claim, any other has one.
THEOREM RunTypeCorrect == Spec => []TypeOK
<1>1. RunInv => TypeOK
  BY DEF RunInv
<1> QED BY <1>1, RunInvariant, PTL

\* At most MaxActive jobs are ACTIVE, for any limit and any number of workers.
THEOREM SlotsNeverOverrun == Spec => []SlotsBounded
<1>1. RunInv => SlotsBounded
  BY DEF RunInv, QueueInv
<1> QED BY <1>1, RunInvariant, PTL

\* Harbor runs only under the current claim, once at a time for each request.
THEOREM ExecutionUnderClaim == Spec => []ExecutionHoldsSlot
<1>1. RunInv => ExecutionHoldsSlot
  <2> SUFFICES ASSUME RunInv, NEW w \in Workers, pc[w].at \in Executing
               PROVE  /\ HoldsClaim(pc[w].request, pc[w].claim)
                      /\ \A v \in Workers \ {w} :
                             pc[v].at \in Executing => pc[v].request # pc[w].request
    BY DEF ExecutionHoldsSlot
  <2>1. \A v \in Workers : pc[v].at \in Executing =>
            Busy(v) /\ pc[v].request \in Requests /\ HoldsClaim(pc[v].request, pc[v].claim)
    BY BusyWorker DEF RunInv, SlotHeld, Secured, Redeemed, Executing, Stages
  <2>2. pc[w].claim \in 1 .. claims
    BY <2>1, HeldClaim DEF RunInv
  <2> QED BY <2>1, <2>2 DEF RunInv, ClaimsApart, HoldsClaim, NoClaim
<1> QED BY <1>1, RunInvariant, PTL

\* First come, first served: a request for which a slot is free keeps that place.
THEOREM FirstComeFirstServed == Spec => EligibleStaysEligible
<1>1. RunInv /\ [Next]_vars =>
          [\A r \in Eligible : r \in Eligible' \/ jobs'[r].state = "ACTIVE"]_queueVars
  BY StepUsesQueue, EligibleStep DEF RunInv
<1> QED BY <1>1, RunInvariant, PTL DEF Spec, EligibleStaysEligible

\* A job that ended is never started again.
THEOREM FinishedStaysFinished == Spec => FinishedIsFinal
<1>1. RunInv /\ [Next]_vars =>
          [\A r \in Queued : jobs[r].state \in Terminal => jobs'[r] = jobs[r]]_queueVars
  BY StepUsesQueue, FinishedStep DEF RunInv
<1> QED BY <1>1, RunInvariant, PTL DEF Spec, FinishedIsFinal

\* No second result replaces a first one, although the receipt is checked long
\* before it is written.
THEOREM ReceiptNeverReplaced == Spec => ReceiptWrittenOnce
<1>1. RunInv /\ [Next]_vars =>
          [\A r \in Requests : receipt[r] # None => receipt'[r] = receipt[r]]_vars
  BY FirstReceipt
<1> QED BY <1>1, RunInvariant, PTL DEF Spec, ReceiptWrittenOnce

\* A capability is consumed only by a worker whose request has its slot.
THEOREM QueueingIsFree == Spec => QueueingConsumesNothing
<1>1. RunInv /\ [Next]_vars =>
          [\A r \in Requests :
              capability'[r] = "CONSUMED" /\ capability[r] # "CONSUMED" =>
                  r \in ActiveJobs]_vars
  BY ConsumedInSlot
<1> QED BY <1>1, RunInvariant, PTL DEF Spec, QueueingConsumesNothing
=============================================================================
