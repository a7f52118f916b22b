----------------------------- MODULE HarborQueue -----------------------------
(***************************************************************************)
(* harbor-queue.json: the queue that admits at most MaxActive Harbor jobs  *)
(* at a time (harbor_queue.py).  Every operation reads, changes and        *)
(* replaces the file under one exclusive flock, so each is one action.     *)
(*                                                                         *)
(* A request has one job name and one JobConfig path, so the request       *)
(* stands for them.  Entries are appended and never removed or reordered:  *)
(* the order of the tuple is the order of the positions.                   *)
(***************************************************************************)
EXTENDS Naturals, FiniteSets

CONSTANTS
    Requests,       \* Researcher requests
    MaxActive,      \* the global limit, 200 in the code
    MaxClaims,      \* bound: claim identities drawn
    Absent          \* not submitted

Terminal == {"COMPLETED", "PLATFORM_FAILED", "RECOVERY_REQUIRED"}

HarborQueueEntry ==
    [state : Terminal \cup {"WAITING", "ACTIVE"}, position : Nat \ {0}, claim : Nat]

NoClaim == 0

ASSUME QueueAssumption ==
    /\ IsFiniteSet(Requests)
    /\ MaxActive \in Nat \ {0}
    /\ MaxClaims \in Nat
    /\ Absent \notin HarborQueueEntry

VARIABLES
    jobs,           \* request -> its queue entry
    claims          \* claim identities (uuid4) drawn so far

queueVars == <<jobs, claims>>

-----------------------------------------------------------------------------
Queued == {r \in Requests : jobs[r] # Absent}
Waiting == {r \in Queued : jobs[r].state = "WAITING"}
ActiveJobs == {r \in Queued : jobs[r].state = "ACTIVE"}

Available == MaxActive - Cardinality(ActiveJobs)

\* The rank of a waiting request in the queue, itself included.
Ahead(r) == {q \in Waiting : jobs[q].position <= jobs[r].position}
Rank(r) == Cardinality(Ahead(r))

\* A mutant for TLC: a running job may be claimed again.
EligibleRunning == ActiveJobs \cup {r \in Waiting : Rank(r) <= Available}

\* A mutant for TLC: any waiting request takes a free slot.
EligibleAnyhow == {r \in Waiting : Available > 0}

\* waiting[:available]
Eligible == {r \in Waiting : Rank(r) <= Available}

\* submit() of a new request; one that is queued is answered and not changed.
\* Positions are 1, 2, ... so the greatest one is the number of entries.
Submit(r) ==
    /\ jobs[r] = Absent
    /\ jobs' = [jobs EXCEPT ![r] =
           [state |-> "WAITING", position |-> Cardinality(Queued) + 1,
            claim |-> NoClaim]]
    /\ UNCHANGED claims

Claimed(r, claim) == [jobs[r] EXCEPT !.state = "ACTIVE", !.claim = claim]

\* A mutant for TLC: the running jobs are not subtracted.
ClaimTooMany(limit) ==
    LET first == {r \in Waiting : Rank(r) <= limit} IN
    /\ first # {}
    /\ claims + Cardinality(first) <= MaxClaims
    /\ jobs' = [r \in Requests |->
           IF r \in first THEN Claimed(r, claims + Rank(r)) ELSE jobs[r]]
    /\ claims' = claims + Cardinality(first)

\* claim(): the first waiting jobs, at most limit and one for each free slot.
Claim(limit) ==
    LET first == {r \in Eligible : Rank(r) <= limit} IN
    /\ first # {}
    /\ claims + Cardinality(first) <= MaxClaims
    /\ jobs' = [r \in Requests |->
           IF r \in first THEN Claimed(r, claims + Rank(r)) ELSE jobs[r]]
    /\ claims' = claims + Cardinality(first)

\* claim_request(): one request, if it is among the first.
ClaimRequest(r) ==
    /\ r \in Eligible
    /\ claims < MaxClaims
    /\ jobs' = [jobs EXCEPT ![r] = Claimed(r, claims + 1)]
    /\ claims' = claims + 1

\* authorize(), and what complete() and reclaim_stale() ask of a claim.
HoldsClaim(r, claim) ==
    /\ jobs[r] # Absent
    /\ jobs[r].state = "ACTIVE"
    /\ jobs[r].claim = claim

\* A mutant for TLC: a failed job waits again instead of ending.
CompleteRequeueing(r, claim, terminal) ==
    /\ HoldsClaim(r, claim)
    /\ jobs' = [jobs EXCEPT
           ![r].state = IF terminal = "COMPLETED" THEN terminal ELSE "WAITING",
           ![r].claim = IF terminal = "COMPLETED" THEN claim ELSE NoClaim]
    /\ UNCHANGED claims

Complete(r, claim, terminal) ==
    /\ HoldsClaim(r, claim)
    /\ jobs' = [jobs EXCEPT ![r].state = terminal]
    /\ UNCHANGED claims

\* reclaim_stale(): back to WAITING at its old position.  updated_at is written
\* by the claim and never refreshed, so its age does not tell a live job from a
\* dead one and is no guard here.
ReclaimStale(r, claim) ==
    /\ HoldsClaim(r, claim)
    /\ jobs' = [jobs EXCEPT ![r].state = "WAITING", ![r].claim = NoClaim]
    /\ UNCHANGED claims

-----------------------------------------------------------------------------
QueueInit ==
    /\ jobs = [r \in Requests |-> Absent]
    /\ claims = 0

QueueNext ==
    \/ \E limit \in 1 .. MaxActive : Claim(limit)
    \/ \E r \in Requests :
           \/ Submit(r)
           \/ ClaimRequest(r)
           \/ \E claim \in 1 .. MaxClaims :
                  \/ ReclaimStale(r, claim)
                  \/ \E terminal \in Terminal : Complete(r, claim, terminal)

QueueSpec == QueueInit /\ [][QueueNext]_queueVars

-----------------------------------------------------------------------------
\* Every entry is one that validate() accepts: a waiting job has no claim, any
\* other has one that was drawn.
QueueTypeOK ==
    /\ jobs \in [Requests -> HarborQueueEntry \cup {Absent}]
    /\ claims \in 0 .. MaxClaims
    /\ \A r \in Queued : IF jobs[r].state = "WAITING"
                         THEN jobs[r].claim = NoClaim
                         ELSE jobs[r].claim \in 1 .. claims

\* At most MaxActive jobs run, through claims of one and of many, completions
\* and reclaims in any order (docs/decisions/0004: a hard global limit).
SlotsBounded == Cardinality(ActiveJobs) <= MaxActive

\* No claim identity stands for two jobs, and no two jobs share a position: a
\* claim that was lost can never complete or authorize another job.  Part of the
\* invariant that the proofs rest on.
IdentitiesDistinct ==
    \A q, r \in Queued : q # r =>
        /\ jobs[q].position # jobs[r].position
        /\ jobs[q].claim = jobs[r].claim => jobs[q].claim = NoClaim

\* First come, first served: a job for which there was a free slot has one until
\* it is claimed, whoever claims, ends, reclaims or submits other jobs.
EligibleStaysEligible ==
    [][\A r \in Eligible : r \in Eligible' \/ jobs'[r].state = "ACTIVE"]_queueVars

\* A job that ended is never started again.
FinishedIsFinal ==
    [][\A r \in Queued : jobs[r].state \in Terminal => jobs'[r] = jobs[r]]_queueVars
=============================================================================
