---------------------------- MODULE ResearcherRun ----------------------------
(***************************************************************************)
(* The workers that carry out Researcher requests                          *)
(* (cli._execute_researcher_handoff): a worker takes its job through the   *)
(* queue, redeems the one-time capability, runs Harbor, writes the receipt *)
(* and gives the slot back.  Each of these is a step of its own; between   *)
(* two of them other workers and operators act, and the worker may die.    *)
(*                                                                         *)
(* Operators are honest and no more: they report a job as interrupted when *)
(* the worker that held its claim is gone and left no receipt, and release *)
(* one they reviewed as RECOVERY_REQUIRED (docs/decisions/0004-...md:32).  *)
(***************************************************************************)
EXTENDS HarborQueue

CONSTANTS
    Workers,        \* worker processes
    RuntimeOwned,   \* requests that runtime-researcher-run carries out
    None

ASSUME RunAssumption == RuntimeOwned \subseteq Requests

VARIABLES
    capability,     \* request -> status of its capability
    receipt,        \* request -> what its receipt file says, or None
    pc              \* what each worker does

runVars == <<capability, receipt, pc>>
vars == <<jobs, claims, capability, receipt, pc>>

Outcomes == {"COMPLETED", "PLATFORM_FAILED"}
Stages == {"authorize", "submit", "claim", "redeem", "check", "harbor",
           "receipt", "complete"}
Executing == {"harbor", "receipt", "complete"}
Redeemed == {"check"} \cup Executing

Idle == [at |-> "idle"]
Busy(w) == pc[w] # Idle
At(w, stage) == pc[w].at = stage
Working(r) == {w \in Workers : Busy(w) /\ pc[w].request = r}

Goto(w, stage) == pc' = [pc EXCEPT ![w].at = stage]
Leave(w) == pc' = [pc EXCEPT ![w] = Idle]

-----------------------------------------------------------------------------
\* A worker is started for an issued request, when it has no receipt: with a
\* claim that harbor-queue-claim gave to this worker, or to claim for itself.
\* Recovery evidence says that the execution that redeemed the capability has
\* failed on the platform; more than one worker may be started with it.
Start(w, r, given, recovery) ==
    /\ ~Busy(w)
    /\ receipt[r] = None
    /\ given => /\ jobs[r] # Absent /\ jobs[r].state = "ACTIVE"
                /\ \A v \in Workers : Busy(v) => pc[v].claim # jobs[r].claim
    /\ recovery => /\ capability[r] = "CONSUMED" /\ r \notin RuntimeOwned
                   /\ \A v \in Working(r) : pc[v].at \notin Redeemed
    /\ pc' = [pc EXCEPT ![w] =
           [at |-> IF given THEN "authorize" ELSE "submit", request |-> r,
            claim |-> IF given THEN jobs[r].claim ELSE NoClaim,
            recovery |-> recovery, outcome |-> None]]
    /\ UNCHANGED <<queueVars, capability, receipt>>

Authorize(w, stage, next) ==
    /\ At(w, stage)
    /\ IF HoldsClaim(pc[w].request, pc[w].claim) THEN Goto(w, next) ELSE Leave(w)
    /\ UNCHANGED <<queueVars, capability, receipt>>

SubmitOwn(w) ==
    /\ At(w, "submit")
    /\ \/ Submit(pc[w].request)
       \/ jobs[pc[w].request] # Absent /\ UNCHANGED queueVars
    /\ Goto(w, "claim")
    /\ UNCHANGED <<capability, receipt>>

\* Without a slot the answer is QUEUED, and the worker is done.
ClaimOwn(w) ==
    /\ At(w, "claim")
    /\ LET r == pc[w].request IN
       \/ /\ ClaimRequest(r)
          /\ pc' = [pc EXCEPT ![w].at = "redeem", ![w].claim = claims + 1]
       \/ r \notin Eligible /\ Leave(w) /\ UNCHANGED queueVars
    /\ UNCHANGED <<capability, receipt>>

\* redeem() consumes an issued capability, redeem_platform_recovery() finds a
\* consumed one; anything else is an error, and the slot stays taken.
Redeem(w) ==
    /\ At(w, "redeem") /\ pc[w].request \notin RuntimeOwned
    /\ LET r == pc[w].request
           usable == IF pc[w].recovery THEN "CONSUMED" ELSE "ISSUED"
       IN  IF capability[r] = usable
           THEN /\ capability' = [capability EXCEPT ![r] = "CONSUMED"]
                /\ Goto(w, "check")
           ELSE Leave(w) /\ UNCHANGED capability
    /\ UNCHANGED <<queueVars, receipt>>

\* runtime-researcher-run has no --recovery-evidence, and args.recovery_evidence
\* raises before anything is redeemed.
RedeemRuntime(w) ==
    /\ At(w, "redeem") /\ pc[w].request \in RuntimeOwned
    /\ Leave(w)
    /\ UNCHANGED <<queueVars, capability, receipt>>

\* execute_harbor()
RunHarbor(w, outcome) ==
    /\ At(w, "harbor")
    /\ pc' = [pc EXCEPT ![w].at = "receipt", ![w].outcome = outcome]
    /\ UNCHANGED <<queueVars, capability, receipt>>

WriteReceipt(w) ==
    /\ At(w, "receipt")
    /\ receipt' = [receipt EXCEPT ![pc[w].request] = pc[w].outcome]
    /\ Goto(w, "complete")
    /\ UNCHANGED <<queueVars, capability>>

CompleteOwn(w) ==
    /\ At(w, "complete")
    /\ \/ Complete(pc[w].request, pc[w].claim, pc[w].outcome)
       \/ ~HoldsClaim(pc[w].request, pc[w].claim) /\ UNCHANGED queueVars
    /\ Leave(w)
    /\ UNCHANGED <<capability, receipt>>

Die(w) ==
    /\ Busy(w)
    /\ Leave(w)
    /\ UNCHANGED <<queueVars, capability, receipt>>

-----------------------------------------------------------------------------
(* Operators.                                                                *)

\* revoke()
Revoke(r) ==
    /\ capability[r] = "ISSUED"
    /\ capability' = [capability EXCEPT ![r] = "REVOKED"]
    /\ UNCHANGED <<queueVars, receipt, pc>>

Orphaned(r, claim) == \A w \in Workers : Busy(w) => pc[w].claim # claim

\* harbor-queue-submit, -claim, -reclaim-stale and -complete
Operate ==
    /\ \/ \E r \in Requests : Submit(r)
       \/ \E limit \in 1 .. MaxActive : Claim(limit)
       \/ \E r \in Requests, claim \in 1 .. claims :
              /\ Orphaned(r, claim)
              /\ \/ receipt[r] = None /\ ReclaimStale(r, claim)
                 \/ Complete(r, claim, "RECOVERY_REQUIRED")
    /\ UNCHANGED runVars

-----------------------------------------------------------------------------
Init ==
    /\ QueueInit
    /\ capability = [r \in Requests |-> "ISSUED"]
    /\ receipt = [r \in Requests |-> None]
    /\ pc = [w \in Workers |-> Idle]

Step(w) ==
    \/ Authorize(w, "authorize", "redeem")
    \/ SubmitOwn(w)
    \/ ClaimOwn(w)
    \/ Redeem(w)
    \/ RedeemRuntime(w)
    \/ Authorize(w, "check", "harbor")
    \/ \E outcome \in Outcomes : RunHarbor(w, outcome)
    \/ WriteReceipt(w)
    \/ CompleteOwn(w)

Begin(w) ==
    \E r \in Requests, given \in BOOLEAN, recovery \in BOOLEAN :
        Start(w, r, given, recovery)

Next ==
    \/ \E w \in Workers : Begin(w) \/ Step(w) \/ Die(w)
    \/ \E r \in Requests : Revoke(r)
    \/ Operate

Spec == Init /\ [][Next]_vars

\* Workers that are left alone and make progress.
QuietSpec ==
    /\ Init
    /\ [][\E w \in Workers : Begin(w) \/ Step(w)]_vars
    /\ \A w \in Workers : WF_vars(Step(w))

-----------------------------------------------------------------------------
Jobs ==
    [at : Stages, request : Requests, claim : Nat, recovery : BOOLEAN,
     outcome : Outcomes \cup {None}]

TypeOK ==
    /\ QueueTypeOK
    /\ capability \in [Requests -> {"ISSUED", "CONSUMED", "REVOKED"}]
    /\ receipt \in [Requests -> Outcomes \cup {None}]
    /\ pc \in [Workers -> Jobs \cup {Idle}]

\* Harbor runs for a request only in one worker and under the claim that holds
\* its slot now, so the paid jobs that really run are bounded like the queue's
\* ACTIVE entries, whatever dies, recovers or is reclaimed in between.
ExecutionHoldsSlot ==
    \A w \in Workers : pc[w].at \in Executing =>
        /\ HoldsClaim(pc[w].request, pc[w].claim)
        /\ \A v \in Workers \ {w} :
               pc[v].at \in Executing => pc[v].request # pc[w].request

\* "Researcher receipt already exists and is immutable" (cli.py:805) is checked
\* long before the file is written; still no second result replaces a first one.
ReceiptWrittenOnce ==
    [][\A r \in Requests : receipt[r] # None => receipt'[r] = receipt[r]]_vars

\* Waiting in the queue never uses up a capability: it is consumed by a worker
\* that has its slot (docs/decisions/0004-...md:27 and :52).
QueueingConsumesNothing ==
    [][\A r \in Requests :
           capability'[r] = "CONSUMED" /\ capability[r] # "CONSUMED" =>
               r \in ActiveJobs]_vars

\* What _runtime_researcher_run says it does: a runtime-owned request whose
\* worker has its slot is redeemed and run by it.
RuntimeRequestRedeemed ==
    \A w \in Workers, r \in RuntimeOwned :
        (At(w, "redeem") /\ pc[w].request = r /\ capability[r] = "ISSUED")
            ~> (capability[r] = "CONSUMED")
=============================================================================
