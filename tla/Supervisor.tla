----------------------------- MODULE Supervisor -----------------------------
(***************************************************************************)
(* CampaignSupervisor (supervisor.py) over the sessions and workers of      *)
(* ValidationControl and the ledger of Recovery.                           *)
(*                                                                         *)
(* A question is advanced under the lock of its state file.  A handler     *)
(* makes several durable changes and stores the snapshot last; its         *)
(* parameter k says how many of them are made before the process dies (all *)
(* n of them: it does not).  A process that ends, by a crash, an exception *)
(* or because `supervise --once' is done, forgets the workers it started.  *)
(* Retry and probe times are not measured: they come some time.            *)
(***************************************************************************)
EXTENDS Recovery, Sequences

CONSTANTS
    MaxRequests,    \* bound: requests issued for one question
    MaxWorkers      \* bound: workers started

VARIABLES
    requests, workers,      \* of ValidationControl
    sup,        \* question -> its SupervisorSnapshot
    lost,       \* question -> requests with a lost-worker-runtime file
    runs,       \* question -> what its run has imported, and the verdict
    probing,    \* processes that wait for the answer to a probe
    retried     \* history: retries scheduled for a round since it was cleared

INSTANCE ValidationControl

\* What the workflow makes of the rounds a session leaves.
Run == INSTANCE Verdict

ASSUME SupervisorAssumption ==
    /\ "PLATFORM" \in Stages
    /\ "SCIENTIFIC_RESULT" \notin Stages
    /\ Rounds = 1 .. 6
    /\ MaxRequests \in Nat
    /\ MaxWorkers \in Nat
    /\ None \notin Nat \cup Stages \cup Scientific \cup Continuing \cup Stopping
                    \cup {"SCIENTIFIC_RESULT", "ATTRIBUTION", "OTHER", "MIGRATE",
                         "TOO_EASY", "VALIDATION_PASSED", "BLOCKED"}

supervisorVars == <<sup, lost, runs, probing, retried>>
vars == <<requests, workers, failures, circuit, sup, lost, runs, probing, retried>>

Phases == {"READY", "RUNNING", "RETRY_SCHEDULED", "WAITING_EXTERNAL",
           "TEACHER_ACTION", "FINISHED"}

\* noted: the evidence of a lost continuation, which is named after the sequence
\* of the present snapshot, is on disk.
Registered ==
    [phase |-> "READY", attempt |-> 0, round |-> 1, decided |-> 0,
     worker |-> None, stage |-> None, condition |-> None, noted |-> FALSE]

Current(q) == requests[q][sup[q].attempt]

Write(q, snapshot) == sup' = [sup EXCEPT ![q] = [snapshot EXCEPT !.noted = FALSE]]

\* The last of n changes stores the snapshot, unless the process dies before.
WriteLast(q, k, n, snapshot) == IF k = n THEN Write(q, snapshot) ELSE UNCHANGED sup

\* What happens to the workers when p makes k of n changes.
Watched(p, k, n) == IF k = n THEN workers ELSE Orphaned(p)

\* LocalProcessAdapter.alive(): a process knows only the workers it started.
Alive(p, w) == w # None /\ workers[w].alive /\ workers[w].owner = p

Idle(p) == p \notin probing

-----------------------------------------------------------------------------
(* Launching a session.                                                      *)

\* _closed_request_ids_for_retry(), and the requests the run has imported.
ClosedRequests(q) ==
    runs[q].ledger \cup
    (IF sup[q].phase = "RETRY_SCHEDULED" THEN lost[q] \cup {sup[q].attempt} ELSE {})

\* A mutant for TLC: a request that was issued already is used as it is.
MayIssueAgain(q) == Len(requests[q]) - sup[q].attempt \in {0, 1}

\* CapabilityStore.issue(): one open request for a session, each id once.
MayIssue(q) ==
    /\ DOMAIN requests[q] \subseteq ClosedRequests(q)
    /\ Len(requests[q]) = sup[q].attempt

\* A mutant for TLC: only the first hint round is recognised.
IsFirstContinuation(q) ==
    /\ sup[q].round = 4 /\ sup[q].attempt # 0
    /\ Len(Current(q).rounds) >= 3
    /\ Current(q).rounds[3].decision = "CONTINUE_HINT"
    /\ Current(q).receipt = None

\* _is_persistent_continuation()
IsContinuation(q) ==
    /\ sup[q].round >= 4 /\ sup[q].attempt # 0
    /\ Len(Current(q).rounds) >= 3
    /\ Current(q).rounds[3].decision = "CONTINUE_HINT"
    /\ Current(q).receipt = None

Due(q) == sup[q].phase \in {"READY", "RETRY_SCHEDULED"}

\* _launch(): issue the request, start the worker, store the snapshot.
Launch(p, q, k) ==
    LET a == sup[q].attempt + 1 IN
    /\ Due(q) /\ ~IsContinuation(q)
    /\ runs[q].verdict = None
    /\ MayIssue(q)
    /\ a <= MaxRequests /\ Len(workers) < MaxWorkers
    /\ requests' = [requests EXCEPT ![q] =
                       IF a \in DOMAIN @ THEN @ ELSE Append(@, Request)]
    /\ workers' = IF k >= 2
                  THEN Append(Watched(p, k, 3),
                              Worker(q, a, "session", IF k = 3 THEN p ELSE None))
                  ELSE Watched(p, k, 3)
    /\ WriteLast(q, k, 3,
           [sup[q] EXCEPT !.phase = "RUNNING", !.attempt = a,
                          !.worker = Len(workers) + 1, !.stage = None,
                          !.condition = None])
    /\ UNCHANGED <<recoveryVars, lost, runs, probing, retried>>

\* _archive_platform_round_result()
Archivable(q) ==
    LET rounds == Current(q).rounds IN
    sup[q].round \in DOMAIN rounds => rounds[sup[q].round].outcome \notin Scientific

Archived(q) ==
    LET r == sup[q].round IN
    IF r \in DOMAIN Current(q).rounds
    THEN [requests EXCEPT ![q][sup[q].attempt].rounds = SubSeq(@, 1, r - 1)]
    ELSE requests

\* _retry_persistent_continuation(): archive, start the worker, store.
RetryContinuation(p, q, k) ==
    /\ Due(q) /\ IsContinuation(q)
    /\ Archivable(q)
    /\ Len(workers) < MaxWorkers
    /\ requests' = Archived(q)
    /\ workers' = IF k >= 2
                  THEN Append(Watched(p, k, 3),
                              Worker(q, sup[q].attempt, "continuation",
                                     IF k = 3 THEN p ELSE None))
                  ELSE Watched(p, k, 3)
    /\ WriteLast(q, k, 3,
           [sup[q] EXCEPT !.phase = "RUNNING", !.worker = Len(workers) + 1,
                          !.stage = None, !.condition = None])
    /\ UNCHANGED <<recoveryVars, lost, runs, probing, retried>>

-----------------------------------------------------------------------------
(* Driving a worker: first an answer that is due, then a receipt, then life.  *)

Answerable(q) ==
    LET i == sup[q].decided + 1 IN
    /\ i \in DOMAIN Current(q).rounds
    /\ Current(q).rounds[i].outcome \in Scientific

\* What the policy answers to round i by itself; None is a hint or a stop.
Automatic(i, outcome) ==
    CASE outcome = "HIGH" -> IF i <= 3 THEN "STOP_TOO_EASY" ELSE "STOP_PASSED"
      [] outcome = "LOW" /\ i < 3 -> "CONTINUE_BLIND"
      [] outcome = "LOW" /\ i >= 5 -> "STOP_BLOCKED"
      [] OTHER -> None

\* _publish_automatic_decision(): publish the decision, store the snapshot.
Answer(p, q, k) ==
    LET i == sup[q].decided + 1
        action == Automatic(i, Current(q).rounds[i].outcome)
    IN
    /\ sup[q].phase = "RUNNING" /\ Answerable(q)
    /\ action # None
    /\ runs[q].verdict = None
    /\ MayDecide(Current(q), i, action)
    /\ requests' = Decided(q, sup[q].attempt, i, action)
    /\ workers' = Watched(p, k, 2)
    /\ WriteLast(q, k, 2, [sup[q] EXCEPT !.decided = i, !.round = i + 1])
    /\ UNCHANGED <<recoveryVars, lost, runs, probing, retried>>

\* The third low blind round and the first low hint round are the Teacher's.
AskTeacher(q) ==
    LET i == sup[q].decided + 1 IN
    /\ sup[q].phase = "RUNNING" /\ Answerable(q)
    /\ Automatic(i, Current(q).rounds[i].outcome) = None
    /\ Write(q, [sup[q] EXCEPT !.phase = "TEACHER_ACTION", !.round = i])
    /\ UNCHANGED <<requests, workers, recoveryVars, lost, runs, probing, retried>>

VerdictOf(request) ==
    CASE LastRound(request).decision = "STOP_TOO_EASY" -> "TOO_EASY"
      [] LastRound(request).decision = "STOP_PASSED" -> "VALIDATION_PASSED"
      [] OTHER -> "BLOCKED"

\* record_persistent_validation_session(), which repeats without effect.  After
\* scientific progress a platform failure blocks the run for a migration.
Imported(q, a) ==
    LET request == requests[q][a] IN
    IF a \in runs[q].ledger THEN runs[q]
    ELSE [ledger |-> runs[q].ledger \cup {a},
          verdict |-> IF Stopped(request) THEN VerdictOf(request)
                      ELSE IF HasScience(request) THEN "MIGRATE"
                      ELSE None]

MayImport(q, a) == a \in runs[q].ledger \/ runs[q].verdict = None

Received(q) ==
    sup[q].phase = "RUNNING" /\ ~Answerable(q) /\ Current(q).receipt # None

\* _finish_worker() of a scientific receipt: import, clear the round, store.
Finish(p, q, k) ==
    LET a == sup[q].attempt IN
    /\ Received(q) /\ Current(q).receipt = "SCIENTIFIC_RESULT"
    /\ Stopped(Current(q)) /\ MayImport(q, a)
    /\ runs' = [runs EXCEPT ![q] = Imported(q, a)]
    /\ IF k >= 2
       THEN /\ ClearRound(q, sup[q].round)
            /\ retried' = [retried EXCEPT ![q][sup[q].round] = [s \in Stages |-> 0]]
       ELSE UNCHANGED <<recoveryVars, retried>>
    /\ workers' = Watched(p, k, 3)
    /\ WriteLast(q, k, 3,
           [sup[q] EXCEPT !.phase = "TEACHER_ACTION", !.worker = None,
                          !.condition = "ATTRIBUTION"])
    /\ UNCHANGED <<requests, lost, probing>>

Blocked(q) == runs'[q].verdict \in {"BLOCKED", "MIGRATE"}

\* _recovery_snapshot() and _blocked_runtime_snapshot()
Recovered(q, stage, action) ==
    [sup[q] EXCEPT
        !.phase = CASE action = "RETRY_RUNTIME" -> "RETRY_SCHEDULED"
                    [] action = "WAIT_EXTERNAL" -> "WAITING_EXTERNAL"
                    [] OTHER -> "TEACHER_ACTION",
        !.worker = None, !.stage = stage,
        !.condition = IF action = "RETRY_RUNTIME" THEN None ELSE "OTHER"]

\* _recover_failure(): count the failure, store what follows from the count.
\* The caller has made one change before.
RecoverFailure(q, stage, k) ==
    LET r == sup[q].round
        action == IF Blocked(q) THEN "MIGRATE" ELSE Decide(stage, Count(q, r, stage))
    IN
    /\ IF k >= 2 THEN RecordFailure(q, r, stage) ELSE UNCHANGED recoveryVars
    /\ WriteLast(q, k, 3, Recovered(q, stage, action))
    /\ retried' = IF k = 3 /\ action = "RETRY_RUNTIME"
                  THEN [retried EXCEPT ![q][r][stage] = @ + 1]
                  ELSE retried

\* _finish_worker() of a failure: import what the importer accepts, recover.
FinishFailed(p, q, k) ==
    LET a == sup[q].attempt IN
    /\ Received(q) /\ Current(q).receipt \in Stages
    /\ \/ MayImport(q, a) /\ runs' = [runs EXCEPT ![q] = Imported(q, a)]
       \/ a \notin runs[q].ledger /\ UNCHANGED runs
    /\ RecoverFailure(q, Current(q).receipt, k)
    /\ workers' = Watched(p, k, 3)
    /\ UNCHANGED <<requests, lost, probing>>

\* No answer due, no receipt, and the worker is not one of p's that lives: write
\* the evidence, which must not be there yet, and recover.
LoseWorker(p, q, k) ==
    /\ sup[q].phase = "RUNNING" /\ ~Answerable(q) /\ Current(q).receipt = None
    /\ ~Alive(p, sup[q].worker)
    /\ IF IsContinuation(q)
       THEN /\ ~sup[q].noted
            /\ UNCHANGED <<lost, runs>>
            /\ IF k = 3 THEN RecoverFailure(q, "PLATFORM", k)
               ELSE /\ IF k = 2 THEN RecordFailure(q, sup[q].round, "PLATFORM")
                       ELSE UNCHANGED recoveryVars
                    /\ sup' = [sup EXCEPT ![q].noted = TRUE]
                    /\ UNCHANGED retried
       ELSE /\ sup[q].attempt \notin lost[q]
            /\ lost' = [lost EXCEPT ![q] = @ \cup {sup[q].attempt}]
            /\ UNCHANGED runs
            /\ RecoverFailure(q, "PLATFORM", k)
    /\ workers' = Watched(p, k, 3)
    /\ UNCHANGED <<requests, probing>>

-----------------------------------------------------------------------------
(* supervisor-resume: a process of its own, which has started no worker.     *)

\* SupervisorSnapshot.validate()
Storable(snapshot) ==
    /\ snapshot.phase = "RUNNING" => snapshot.attempt # 0 /\ snapshot.worker # None
    /\ snapshot.phase = "WAITING_EXTERNAL" => snapshot.condition # None

\* resume() of a wait
ResumeWait(q) ==
    /\ sup[q].phase = "WAITING_EXTERNAL"
    /\ sup[q].stage = "MODEL_CONNECTION" => circuit.state = "CLOSED"
    /\ Write(q, [sup[q] EXCEPT
           !.phase = IF IsContinuation(q) THEN "RETRY_SCHEDULED" ELSE "READY",
           !.condition = None, !.worker = None])
    /\ UNCHANGED <<requests, workers, recoveryVars, lost, runs, probing, retried>>

\* _apply_teacher_action(): publish the decision; for a hint start a continuation,
\* as no worker of another process is seen alive; store.  An invalid
\* snapshot is not stored.
TeacherAct(q, action, k) ==
    LET spawn == action = "CONTINUE_HINT"
        running == [sup[q] EXCEPT
            !.phase = "RUNNING", !.decided = sup[q].round, !.round = sup[q].round + 1,
            !.worker = IF spawn THEN Len(workers) + 1 ELSE sup[q].worker]
    IN
    /\ sup[q].phase = "TEACHER_ACTION"
    /\ ~(sup[q].worker = None /\ sup[q].condition = "ATTRIBUTION")
    /\ runs[q].verdict = None /\ sup[q].attempt # 0
    /\ MayDecide(Current(q), sup[q].round, action)
    /\ spawn => Len(workers) < MaxWorkers
    /\ requests' = Decided(q, sup[q].attempt, sup[q].round, action)
    /\ workers' = IF spawn /\ k >= 2
                  THEN Append(workers, Worker(q, sup[q].attempt, "continuation", None))
                  ELSE workers
    /\ IF k = 3 /\ Storable(running) THEN Write(q, running) ELSE UNCHANGED sup
    /\ UNCHANGED <<recoveryVars, lost, runs, probing, retried>>

\* A mutant for TLC: a question without a worker only has to be attributed.
Attributable(q) == sup[q].phase = "TEACHER_ACTION" /\ sup[q].worker = None

AwaitsAttribution(q) ==
    /\ sup[q].phase = "TEACHER_ACTION"
    /\ sup[q].worker = None /\ sup[q].condition = "ATTRIBUTION"

\* _apply_terminal_attribution()
Attribute(q) ==
    /\ AwaitsAttribution(q)
    /\ Write(q, [sup[q] EXCEPT !.phase = "FINISHED", !.condition = None])
    /\ UNCHANGED <<requests, workers, recoveryVars, lost, runs, probing, retried>>

-----------------------------------------------------------------------------
(* The shared circuit.                                                       *)

WaitsForModel(q) ==
    sup[q].phase = "WAITING_EXTERNAL" /\ sup[q].stage = "MODEL_CONNECTION"

\* StrongModelProbe.run(): one request, which any error fails.
ProbeAnswers == BOOLEAN

\* _probe_model_transport_if_due(), before and after the request to the model
StartProbe(p) ==
    /\ \E q \in Questions : WaitsForModel(q)
    /\ ClaimProbe(p)
    /\ probing' = probing \cup {p}
    /\ UNCHANGED <<requests, workers, sup, lost, runs, retried>>

EndProbe(p) ==
    /\ p \in probing
    /\ \E succeeded \in ProbeAnswers : FinishProbe(p, succeeded)
    /\ probing' = probing \ {p}
    /\ UNCHANGED <<requests, workers, sup, lost, runs, retried>>

\* _resume_closed_model_waits()
ResumeModelWait(q) ==
    /\ circuit.state = "CLOSED" /\ WaitsForModel(q)
    /\ Write(q, [sup[q] EXCEPT !.phase = "READY", !.condition = None])
    /\ UNCHANGED <<requests, workers, recoveryVars, lost, runs, probing, retried>>

\* The process ends and is started again.
Restart(p) ==
    /\ workers' = Orphaned(p)
    /\ circuit' = Abandoned(p)
    /\ probing' = probing \ {p}
    /\ UNCHANGED <<requests, failures, sup, lost, runs, retried>>

-----------------------------------------------------------------------------
Init ==
    /\ RecoveryInit
    /\ ControlInit
    /\ sup = [q \in Questions |-> Registered]
    /\ lost = [q \in Questions |-> {}]
    /\ runs = [q \in Questions |-> [ledger |-> {}, verdict |-> None]]
    /\ probing = {}
    /\ retried = [q \in Questions |-> [r \in Rounds |-> [s \in Stages |-> 0]]]

Advance(p, q) ==
    \/ \E k \in 1 .. 3 :
           \/ Launch(p, q, k)
           \/ RetryContinuation(p, q, k)
           \/ Finish(p, q, k)
           \/ FinishFailed(p, q, k)
           \/ LoseWorker(p, q, k)
    \/ \E k \in 1 .. 2 : Answer(p, q, k)
    \/ AskTeacher(q)
    \/ ResumeModelWait(q)

Resume(q) ==
    \/ ResumeWait(q)
    \/ \E action \in {"CONTINUE_HINT", "STOP_BLOCKED"}, k \in 1 .. 3 :
           TeacherAct(q, action, k)
    \/ Attribute(q)

Next ==
    \/ \E p \in Probers :
           \/ Idle(p) /\ (StartProbe(p) \/ \E q \in Questions : Advance(p, q))
           \/ EndProbe(p)
           \/ Restart(p)
    \/ \E q \in Questions : Resume(q)
    \/ \E w \in DOMAIN workers :
           WorkerStep(w) /\ UNCHANGED <<recoveryVars, supervisorVars>>

Spec == Init /\ [][Next]_vars

-----------------------------------------------------------------------------
Snapshots ==
    [phase : Phases, attempt : 0 .. MaxRequests, round : Rounds, decided : 0 .. 5,
     worker : Nat \cup {None}, stage : Stages \cup {None},
     condition : {None, "ATTRIBUTION", "OTHER"}, noted : BOOLEAN]

Verdicts == {None, "TOO_EASY", "VALIDATION_PASSED", "BLOCKED", "MIGRATE"}

\* The snapshots stored are valid ones (SupervisorSnapshot.validate), and
\* everything else has its type.
TypeOK ==
    /\ RecoveryTypeOK
    /\ ControlTypeOK
    /\ sup \in [Questions -> Snapshots]
    /\ \A q \in Questions :
           /\ sup[q].phase = "RUNNING" => sup[q].attempt # 0 /\ sup[q].worker # None
           /\ sup[q].phase = "WAITING_EXTERNAL" => sup[q].condition # None
    /\ lost \in [Questions -> SUBSET Nat]
    /\ runs \in [Questions -> [ledger : SUBSET Nat, verdict : Verdicts]]
    /\ probing \subseteq Probers
    /\ retried \in [Questions -> [Rounds -> [Stages -> Nat]]]

\* "After three failures enter External Wait" (docs/design/campaign-supervisor-
\* and-skill-evolution-v1.md:65): however often processes die between counting a
\* failure and storing what follows, a round is not retried more often by itself.
RetriesBounded ==
    \A q \in Questions, r \in Rounds, s \in Stages : retried[q][r][s] <= RetryBudget

\* A published decision stands: nobody who repeats it after a crash, or changes
\* his mind, replaces or withdraws it (_publish_immutable).
DecisionsStand ==
    [][\A q \in Questions : \A a \in DOMAIN requests[q] :
           \A i \in DOMAIN requests[q][a].rounds :
               requests[q][a].rounds[i].decision # None =>
                   /\ i \in DOMAIN requests'[q][a].rounds
                   /\ requests'[q][a].rounds[i] = requests[q][a].rounds[i]]_vars

\* At most one worker is ever started to run the session of a request from its
\* first round, whatever was on disk when a process died.
LaunchedOnce ==
    \A v, w \in DOMAIN workers :
        /\ workers[v].kind = "session" /\ workers[w].kind = "session"
        /\ workers[v].question = workers[w].question
        /\ workers[v].request = workers[w].request
        => v = w

\* A session the Teacher has answered with a hint and that left no receipt is only
\* continued: no new request is issued next to it.
HintedSessionContinues ==
    [][\A q \in Questions :
           LET n == Len(requests[q]) IN
           Len(requests'[q]) > n /\ n > 0 =>
               \/ Len(requests[q][n].rounds) < 3
               \/ requests[q][n].rounds[3].decision # "CONTINUE_HINT"
               \/ requests[q][n].receipt # None]_vars

\* The rounds of a session as the importer finds them in its trial.
Trial(request) ==
    [i \in DOMAIN request.rounds |->
        IF request.rounds[i].outcome \in Scientific THEN request.rounds[i].outcome
        ELSE "FAILED"]

\* A platform outage never ends a question (docs/decisions/0010-...md:3): one that
\* is FINISHED has the verdict of a session that ended in a decision to stop, and
\* that is the verdict its rounds deserve: they are a trial the importer accepts,
\* and the supervisor, the controller and the workflow agree on what it means.
FinishedOnScience ==
    \A q \in Questions : sup[q].phase = "FINISHED" =>
        \E a \in runs[q].ledger :
            LET trial == Trial(requests[q][a]) IN
            /\ Stopped(requests[q][a])
            /\ trial \in Run!PersistentTrials
            /\ Run!Terminal(trial) = LastRound(requests[q][a]).decision
            /\ Run!TrialVerdict(trial)[1] = runs[q].verdict

\* Sessions, with what its variables are here: the rounds of every request, the
\* verdict of the run and the questions that are FINISHED.
SessionsOf == [q \in Questions |-> [a \in DOMAIN requests[q] |-> requests[q][a].rounds]]
VerdictsOf == [q \in Questions |-> runs[q].verdict]
FinishedOf == {q \in Questions : sup[q].phase = "FINISHED"}

Promise == INSTANCE Sessions WITH
               sessions <- SessionsOf, verdict <- VerdictsOf, finished <- FinishedOf

\* Whatever dies, is lost or is started again, a question goes through sessions as
\* Sessions says: no answer is given twice or against the rounds, none is taken back,
\* nothing is opened or answered under a verdict, and the verdict is one the
\* session deserves and never changes.
SessionsSpec == Promise!Spec

-----------------------------------------------------------------------------
(* Said of the program, and not so.                                          *)

\* "persistent validation retry is allowed only before any scientific round"
\* (workflow.py:481): no request is issued after a scientific round of another.
RetryOnlyBeforeScience ==
    [][\A q \in Questions :
           Len(requests'[q]) > Len(requests[q]) =>
               \A a \in DOMAIN requests[q] : ~HasScience(requests[q][a])]_vars

\* "Return whether the recorded worker still owns a live process"
\* (supervisor_process.py:26): only a worker that is gone is taken for lost.
LostMeansGone ==
    [][\A q \in Questions :
           lost'[q] # lost[q] => ~workers[sup[q].worker].alive]_vars

\* "A runtime attempt identity is immutable and idempotent" (docs/design/campaign-
\* supervisor-and-skill-evolution-v1.md:58): a launch that died is repeated, and
\* what a wait was resumed for can be launched.
AttemptIdempotent ==
    \A q \in Questions :
        sup[q].phase = "READY" /\ ~IsContinuation(q) => MayIssue(q)

\* "half-open circuit requires one probe owner" (recovery.py:104): somebody is
\* going to finish the probe.
HalfOpenIsOwned == circuit.state = "HALF_OPEN" => circuit.owner # None
=============================================================================
