------------------------------ MODULE Workflow ------------------------------
(***************************************************************************)
(* RunWorkflow (workflow.py) for one run, from AUTHORING to publication,   *)
(* with the verdict of validation.py and the session registry.             *)
(*                                                                         *)
(* A Teacher-side process (the supervisor, the CLI) reads the run, computes *)
(* a new snapshot and commits it; RunStore refuses a commit made from a    *)
(* snapshot that is no longer the last one.  An operation that reads once  *)
(* and touches nothing else before its commit is therefore one action.     *)
(* Some also change the registry, under its own lock and before or after   *)
(* the commit: there the two steps are separate, other processes run in    *)
(* between, and the process may die in between.  And recording a linear    *)
(* round reads the run twice: what it took from the first read is written  *)
(* over the second one, whatever was committed meanwhile.                  *)
(***************************************************************************)
EXTENDS SessionRegistry, Verdict

CONSTANTS
    Self,           \* the run modelled here; its siblings share the registry
    Procs,          \* Teacher-side processes
    Outcomes,       \* what the canonical importer may find in one round
    MaxRequests,    \* bound: Researcher requests issued
    MaxAttempts,    \* bound: attempts recorded in one revision, receipts in a session
    MaxDeltas,      \* bound: runtime deltas accepted in one revision
    Protocols,      \* validation protocols the JobConfigs of this run use
    None

ASSUME WorkflowAssumption ==
    /\ Self \in Runs
    /\ Outcomes \subseteq AllOutcomes
    /\ MaxRequests \in Nat
    /\ MaxAttempts \in Nat
    /\ MaxDeltas \in Nat
    /\ Protocols \subseteq {"linear", "persistent"}

VARIABLES
    run,        \* the committed snapshot
    requests,   \* the Researcher requests issued, in order
    pc          \* what each process still has to do of its operation

vars == <<run, requests, pc, registry>>

Requests == 1 .. MaxRequests

Idle == [at |-> "idle"]
Ready == [at |-> "ready"]       \* begin_revision or begin_runtime_finalization
                                \* has reconciled and reads the run again
Committing(next) == [at |-> "commit", next |-> next]

\* The state a linear verdict leads to (_record_attempt).
StateAfter(action, state) ==
    CASE action = "NEXT_BLIND" -> "BLIND_VALIDATION"
      [] action = "NEXT_HINT" -> "HINT_VALIDATION"
      [] action = "RETRY_SAME_ATTEMPT" -> state
      [] action = "DEFER_NEXT_QUESTION" -> "DEFERRED_TIMEOUT"
      [] OTHER -> action

-----------------------------------------------------------------------------
(* Reading and committing the run.                                           *)

Validating == {"BLIND_VALIDATION", "HINT_VALIDATION"}
Recording == Validating \cup {"DEFERRED_TIMEOUT"}

Active == run.session # None /\ run.session.status = "ACTIVE"

NoRounds == [i \in Requests |-> "NONE"]     \* no evidence in harbor_rounds yet

\* The registry status a terminal run state stands for (reconciliation).
ClosingOf(state) ==
    IF state = "TOO_EASY" THEN "CLOSED_TOO_EASY" ELSE "CLOSED_VALIDATION_PASSED"

Settled(state) == state \in {"TOO_EASY", "VALIDATION_PASSED"}

\* _revision_neutral_evidence with the fields begin_revision and migrate reset.
NextRevision(revision) ==
    [state |-> "AUTHORING", revision |-> revision, attempts |-> <<>>,
     rounds |-> NoRounds, session |-> None, decision |-> "NONE", deltas |-> {}, closure |-> None]

IsIdle(p) == pc[p] = Idle
Await(p, operation) == pc' = [pc EXCEPT ![p] = operation]

\* A mutant for TLC: commits do not compare the sequence they were read at.
NeverBehind(operation) == operation

\* What is left to a process that read the run before another one committed: its
\* own commit meets SequenceConflict, its registry step is still to come.  A round
\* that is being recorded is read again before it is committed, and goes on.
Behind(operation) ==
    CASE operation.at = "commit" -> Idle
      [] operation.at \in {"close", "reserve"} /\ operation.then.at = "commit" ->
            [operation EXCEPT !.then = Idle]
      [] OTHER -> operation

\* p commits a snapshot derived from the current one and goes on with operation.
Commit(p, next, operation) ==
    /\ run' = next
    /\ pc' = [q \in Procs |-> IF q = p THEN operation ELSE Behind(pc[q])]

Closing(session, status, then) ==
    [at |-> "close", session |-> session, status |-> status, then |-> then]

\* _reconcile_validation_registry from a snapshot, and then the rest.
Reconciling(snapshot, then) ==
    IF snapshot.session # None /\ Settled(snapshot.state)
    THEN Closing(snapshot.session.id, ClosingOf(snapshot.state), then)
    ELSE then

-----------------------------------------------------------------------------
(* Opening a session and asking for rounds.                                  *)

BeginAuthoring(p) ==
    /\ IsIdle(p)
    /\ run.state = "DESIGNING"
    /\ Commit(p, [run EXCEPT !.state = "AUTHORING"], Idle)
    /\ UNCHANGED <<requests, registry>>

\* freeze_and_start_validation_session: reserve in the registry, then commit.
Freeze(p, session, thread) ==
    /\ IsIdle(p)
    /\ run.state = "AUTHORING"
    /\ Await(p,
           [at |-> "reserve", session |-> session, thread |-> thread,
            revision |-> run.revision,
            then |-> Committing([run EXCEPT
                !.state = "BLIND_VALIDATION", !.attempts = <<>>,
                !.session = [id |-> session, revision |-> run.revision, schema |-> 2,
                             status |-> "ACTIVE", receipts |-> <<>>]])])
    /\ UNCHANGED <<run, requests, registry>>

\* A mutant for TLC: the run is committed without its reservation.
ReserveNothing(p) ==
    /\ pc[p].at = "reserve"
    /\ Await(p, pc[p].then)
    /\ UNCHANGED <<run, requests, registry>>

ReserveStep(p) ==
    /\ pc[p].at = "reserve"
    /\ Reserve(Self, pc[p].revision, pc[p].session, pc[p].thread)
    /\ Await(p, pc[p].then)
    /\ UNCHANGED <<run, requests>>

\* A round may have a new request only once its earlier ones are in the ledger of
\* rounds as non-scientific (closed_request_ids, checked by CapabilityStore.issue).
ClosedRound(i) == run.rounds[i] \in AllOutcomes \ {"LOW", "HIGH"}

\* A trial that was imported before is closed for the next one.
ImportedTrial(i) ==
    \E k \in DOMAIN run.attempts :
        run.attempts[k].request = i /\ run.attempts[k].protocol = "persistent"

IssueLinear ==
    /\ "linear" \in Protocols
    /\ run.state \in Recording /\ Active
    /\ Len(requests) < MaxRequests
    /\ \A i \in DOMAIN requests :
           /\ requests[i].session = run.session.id
           /\ requests[i].protocol = "linear"
           /\ Len(requests[i].prior) = Len(run.session.receipts)
           => ClosedRound(i)
    /\ requests' = Append(requests,
           [session |-> run.session.id, revision |-> run.revision,
            protocol |-> "linear",
            mode |-> IF run.state = "HINT_VALIDATION" THEN "hint" ELSE "blind",
            prior |-> run.session.receipts, trial |-> <<>>])
    /\ UNCHANGED <<run, pc, registry>>

\* One request for the whole session; the caller may also name requests it
\* knows to be dead (lost workers), so an earlier one need not be recorded.
IssuePersistent(dead, trial) ==
    /\ "persistent" \in Protocols
    /\ run.state = "BLIND_VALIDATION" /\ Active
    /\ Scientific(run.attempts) = {}
    /\ Len(requests) < MaxRequests /\ Len(trial) <= MaxAttempts
    /\ \A i \in DOMAIN requests :
           requests[i].session = run.session.id =>
               \/ i \in dead
               \/ ImportedTrial(i)
    /\ requests' = Append(requests,
           [session |-> run.session.id, revision |-> run.revision,
            protocol |-> "persistent",
            mode |-> "interactive", prior |-> <<>>, trial |-> trial])
    /\ UNCHANGED <<run, pc, registry>>

-----------------------------------------------------------------------------
(* Recording what the rounds gave.                                           *)

AttemptOf(i, outcome) ==
    [request |-> i, protocol |-> "linear", mode |-> requests[i].mode,
     index |-> Len(requests[i].prior) + 1, outcome |-> outcome]

\* The round belongs to the open session and saw its accepted rounds; without a
\* repair ledger the digests of repaired rounds are an empty tuple too, so a round
\* that saw none is bound as well.
BindsSession(i) ==
    /\ requests[i].session = run.session.id
    /\ requests[i].revision = run.revision
    /\ requests[i].prior \in {run.session.receipts, <<>>}

\* record_validation_round up to _record_attempt: what is taken from the first
\* read is the session with its receipts and the rounds recorded so far.
ReadRound(p, i, outcome) ==
    /\ IsIdle(p)
    /\ run.state \in Recording /\ Active
    /\ requests[i].protocol = "linear"
    /\ BindsSession(i)
    /\ Await(p, [at |-> "record", request |-> i, outcome |-> outcome,
                 session |-> run.session, rounds |-> run.rounds])
    /\ UNCHANGED <<run, requests, registry>>

ModeFits(mode) ==
    /\ run.state = "BLIND_VALIDATION" => mode = "blind"
    /\ run.state = "HINT_VALIDATION" => mode = "hint"

\* The accepted rounds of a ledger are of one frozen package and one session.
OneSession(attempts) ==
    \A k, l \in Scientific(attempts) :
        LET i == attempts[k].request
            j == attempts[l].request
        IN  /\ requests[i].session = requests[j].session
            /\ requests[i].revision = requests[j].revision

\* A mutant for TLC: the receipts of the first read are put into the session of
\* the second one.
SessionMerged(read, state, outcome, i) ==
    [run.session EXCEPT
        !.receipts = IF outcome \in {"LOW", "HIGH"} THEN Append(read.receipts, i)
                     ELSE read.receipts,
        !.status = IF state = "TOO_EASY" THEN "CLOSED_TOO_EASY" ELSE "ACTIVE"]

\* The session as it was read first, with the new receipt and the new status.
SessionAfter(read, state, outcome, i) ==
    [read EXCEPT
        !.receipts = IF outcome \in {"LOW", "HIGH"} THEN Append(@, i) ELSE @,
        !.status = IF state = "VALIDATION_PASSED" THEN "VALIDATION_PASSED"
                   ELSE IF state = "TOO_EASY" THEN "CLOSED_TOO_EASY"
                   ELSE "ACTIVE"]

\* _record_attempt reads the run again, adds the attempt to the ledger it finds
\* there and commits the verdict under that read's sequence, with the session and
\* the rounds of the first read; then the registry is closed.  (It reads twice, but
\* asks the first time only for a session, which every recording state has.)
RecordStep(p) ==
    LET i == pc[p].request
        outcome == pc[p].outcome
        attempts == Append(run.attempts, AttemptOf(i, outcome))
        action == Decide(attempts)
        state == StateAfter(action, run.state)
        next == [run EXCEPT
            !.attempts = attempts, !.decision = action, !.state = state,
            !.session = SessionAfter(pc[p].session, state, outcome, i),
            !.rounds = [pc[p].rounds EXCEPT ![i] = outcome]]
    IN  /\ pc[p].at = "record"
        /\ run.state \in Recording
        /\ ModeFits(requests[i].mode)
        /\ Len(run.attempts) < MaxAttempts
        /\ Len(pc[p].session.receipts) < MaxAttempts
        /\ Fresh(attempts) /\ OneSession(attempts)
        /\ Commit(p, next, Reconciling(next, Idle))
        /\ UNCHANGED <<requests, registry>>

\* Callers choose idempotency keys.  With one that is already in the journal,
\* recording a round again only repairs the registry; with a new one it is a
\* call of ReadRound or Import like any other.
Replay(p) ==
    /\ IsIdle(p)
    /\ run.attempts # <<>>
    /\ Await(p, Reconciling(run, Idle))
    /\ UNCHANGED <<run, requests, registry>>

\* record_persistent_validation_session closes the session before it commits.
Import(p, i) ==
    LET trial == requests[i].trial
        attempts == run.attempts \o TrialAttempts(i, trial)
        verdict == TrialVerdict(trial)
        next == [run EXCEPT !.attempts = attempts,
                            !.state = verdict[1], !.decision = verdict[2],
                            !.session = [@ EXCEPT !.schema = 3,
                                                  !.status = verdict[3]]]
    IN  /\ IsIdle(p)
        /\ run.state \in Validating /\ Active
        /\ requests[i].protocol = "persistent"
        /\ requests[i].session = run.session.id
        /\ requests[i].revision = run.revision
        /\ Len(attempts) <= MaxAttempts
        /\ Fresh(attempts) /\ OneSession(attempts)
        /\ TerminalAgrees(attempts, trial)
        /\ Await(p, IF verdict[3] = "ACTIVE" THEN Committing(next)
                    ELSE Closing(run.session.id, verdict[3], Committing(next)))
        /\ UNCHANGED <<run, requests, registry>>

\* decide_validation_round: the Teacher's own step of a linear session.
TeacherDecides(p, action) ==
    /\ IsIdle(p)
    /\ run.state \in Validating
    /\ action = "CONTINUE_HINT" => run.decision = "NEXT_HINT"
    /\ action = "CONTINUE_BLIND" => run.decision = "NEXT_BLIND"
    /\ LET state == CASE action = "CONTINUE_HINT" -> "HINT_VALIDATION"
                      [] action = "CONTINUE_BLIND" -> "BLIND_VALIDATION"
                      [] action = "STOP_TOO_EASY" -> "TOO_EASY"
                      [] action = "STOP_PASSED" -> "VALIDATION_PASSED"
                      [] action = "STOP_BLOCKED" -> "BLOCKED"
       IN Commit(p, [run EXCEPT
            !.state = state,
            !.decision = action,
            !.session.status = IF state \in Validating THEN @ ELSE "CLOSED"], Idle)
    /\ UNCHANGED <<requests, registry>>

-----------------------------------------------------------------------------
(* Leaving a revision.                                                       *)

\* begin_revision and begin_runtime_finalization first repair the registry
\* from the snapshot they read, and then read again.
Reconcile(p) ==
    /\ IsIdle(p)
    /\ Await(p, Reconciling(run, Ready))
    /\ UNCHANGED <<run, requests, registry>>

\* A mutant for TLC: the accepted closure is carried into the next revision.
ReviseKeepingClosure(p, revision) ==
    /\ pc[p] = Ready
    /\ run.state \in {"TOO_EASY", "BLOCKED", "RUNTIME_FINALIZATION"}
    /\ revision # run.revision
    /\ Commit(p, [NextRevision(revision) EXCEPT !.closure = run.closure], Idle)
    /\ UNCHANGED <<requests, registry>>

\* begin_revision
Revise(p, revision) ==
    /\ pc[p] = Ready
    /\ run.state \in {"TOO_EASY", "BLOCKED", "RUNTIME_FINALIZATION"}
    /\ revision # run.revision
    /\ run.decision = CASE run.state = "TOO_EASY" -> "TOO_EASY"
                        [] run.state = "BLOCKED" -> "STOP_BLOCKED"
                        [] OTHER -> "VALIDATION_PASSED"
    /\ Commit(p, NextRevision(revision), Idle)
    /\ UNCHANGED <<requests, registry>>

Migratable == Recording \cup {"BLOCKED", "HUMAN_REVIEW", "COMPLETED"}

\* migrate_incomplete_validation_session closes a linear session that is still
\* open, then commits.
Migrate(p, revision) ==
    LET commit == Committing(NextRevision(revision)) IN
    /\ IsIdle(p)
    /\ run.state \in Migratable
    /\ revision # run.revision
    /\ Await(p, IF Active /\ run.session.schema = 2
                THEN Closing(run.session.id, "CLOSED_MIGRATED", commit)
                ELSE commit)
    /\ UNCHANGED <<run, requests, registry>>

\* The registry closing of any operation; a refused one ends in GiveUp.
CloseStep(p) ==
    /\ pc[p].at = "close"
    /\ Close(pc[p].session, pc[p].status)
    /\ Await(p, pc[p].then)
    /\ UNCHANGED <<run, requests>>

CommitStep(p) ==
    /\ pc[p].at = "commit"
    /\ Commit(p, pc[p].next, Idle)
    /\ UNCHANGED <<requests, registry>>

\* The registry refuses, or the process dies: the rest is not done.
GiveUp(p) ==
    /\ ~IsIdle(p)
    /\ Await(p, Idle)
    /\ UNCHANGED <<run, requests, registry>>

-----------------------------------------------------------------------------
(* Runtime finalization.                                                     *)

\* begin_runtime_finalization
Finalize(p) ==
    /\ pc[p] = Ready
    /\ run.state = "VALIDATION_PASSED"
    /\ Commit(p, [run EXCEPT !.state = "RUNTIME_FINALIZATION"], Idle)
    /\ UNCHANGED <<requests, registry>>

\* accept_runtime_delta for the attempt at position k.  A scientific source
\* needs an audited capability trace; found late, it reopens a closure that
\* was accepted without any delta for the same attempt.
AcceptDelta(p, k) ==
    /\ IsIdle(p)
    /\ run.state \in Recording \cup {"RUNTIME_FINALIZATION"}
    /\ k \notin run.deltas /\ Cardinality(run.deltas) < MaxDeltas
    /\ run.attempts[k].outcome \in {"FAILED", "LOW", "HIGH"}
    /\ run.closure # None => /\ run.closure.deltas = {}
                             /\ run.closure.scientific = k
    /\ Commit(p, [run EXCEPT !.deltas = @ \cup {k}, !.closure = None], Idle)
    /\ UNCHANGED <<requests, registry>>

\* accept_runtime_closure: a scientific attempt and deltas of the same round.
AcceptClosure(p, k, deltas) ==
    /\ IsIdle(p)
    /\ run.state = "RUNTIME_FINALIZATION"
    /\ k \in Scientific(run.attempts)
    /\ \A d \in deltas : run.attempts[d].index = run.attempts[k].index
    /\ run.closure = None
    /\ Commit(p, [run EXCEPT !.closure = [scientific |-> k, deltas |-> deltas]],
              Idle)
    /\ UNCHANGED <<requests, registry>>

\* bind_runtime_environment: the Stable environment built from this closure.
BindEnvironment(p) ==
    /\ IsIdle(p)
    /\ run.state = "RUNTIME_FINALIZATION"
    /\ Scientific(run.attempts) # {}
    /\ run.closure # None
    /\ Commit(p, [run EXCEPT !.state = "PUBLICATION_PENDING"], Idle)
    /\ UNCHANGED <<requests, registry>>

CompleteWithoutEnvironment(p) ==
    /\ IsIdle(p)
    /\ run.state = "RUNTIME_FINALIZATION"
    /\ Commit(p, [run EXCEPT !.state = "COMPLETED"], Idle)
    /\ UNCHANGED <<requests, registry>>

-----------------------------------------------------------------------------
Init ==
    /\ \E revision \in Revisions :
           run = [NextRevision(revision) EXCEPT !.state = "DESIGNING"]
    /\ requests = <<>>
    /\ pc = [p \in Procs |-> Idle]
    /\ RegistryInit

TeacherActions ==
    {"CONTINUE_HINT", "CONTINUE_BLIND", "STOP_TOO_EASY", "STOP_PASSED",
     "STOP_BLOCKED"}

ProcStep(p) ==
    \/ \E s \in Sessions, t \in Threads : Freeze(p, s, t)
    \/ ReserveStep(p) \/ CloseStep(p) \/ CommitStep(p) \/ GiveUp(p)
    \/ \E i \in DOMAIN requests :
           \/ \E outcome \in Outcomes : ReadRound(p, i, outcome)
           \/ Import(p, i)
    \/ RecordStep(p)
    \/ Replay(p) \/ Reconcile(p) \/ Finalize(p)
    \/ \E revision \in Revisions : Revise(p, revision) \/ Migrate(p, revision)

RunStep(p) ==
    \/ BeginAuthoring(p)
    \/ \E action \in TeacherActions : TeacherDecides(p, action)
    \/ \E k \in DOMAIN run.attempts :
           \/ AcceptDelta(p, k)
           \/ \E deltas \in SUBSET run.deltas : AcceptClosure(p, k, deltas)
    \/ BindEnvironment(p)
    \/ CompleteWithoutEnvironment(p)

Issue ==
    \/ IssueLinear
    \/ \E dead \in SUBSET DOMAIN requests, trial \in PersistentTrials :
           IssuePersistent(dead, trial)

\* The other runs of the family reserve and close sessions of their own.
Sibling ==
    /\ \E other \in Runs \ {Self}, s \in Sessions :
           \/ \E revision \in Revisions, t \in Threads :
                  Reserve(other, revision, s, t)
           \/ registry[s] # Unused /\ registry[s].run = other
              /\ \E status \in Closings : Close(s, status)
    /\ UNCHANGED <<run, requests, pc>>

Next == Issue \/ Sibling \/ \E p \in Procs : ProcStep(p) \/ RunStep(p)

Spec == Init /\ [][Next]_vars

-----------------------------------------------------------------------------
States ==
    {"DESIGNING", "AUTHORING", "BLIND_VALIDATION", "HINT_VALIDATION",
     "DEFERRED_TIMEOUT", "HUMAN_REVIEW", "BLOCKED", "TOO_EASY",
     "VALIDATION_PASSED", "RUNTIME_FINALIZATION", "PUBLICATION_PENDING",
     "COMPLETED"}
Verdicts ==
    {"NONE", "NEXT_BLIND", "NEXT_HINT", "RETRY_SAME_ATTEMPT",
     "DEFER_NEXT_QUESTION", "HUMAN_REVIEW", "TOO_EASY", "VALIDATION_PASSED",
     "PLATFORM_RECOVERY_REQUIRED"} \cup TeacherActions

Attempts ==
    [request : Requests, protocol : Protocols, mode : {"blind", "hint"},
     index : Nat, outcome : AllOutcomes]
ResearcherRequests ==
    [session : Sessions, revision : Revisions, protocol : Protocols,
     mode : {"blind", "hint", "interactive"}, prior : Seq(Requests),
     trial : Seq({"LOW", "HIGH", "FAILED"})]
ValidationSessions ==
    [id : Sessions, revision : Revisions, schema : {2, 3}, receipts : Seq(Requests),
     status : Statuses \cup {"VALIDATION_PASSED", "CLOSED"}]
Closures == [scientific : Nat, deltas : SUBSET Nat]
Rounds == [Requests -> AllOutcomes \cup {"NONE"}]

ASSUME NoneAssumption == None \notin ValidationSessions \cup Closures

Snapshots ==
    [state : States, revision : Revisions, attempts : Seq(Attempts),
     rounds : Rounds, session : ValidationSessions \cup {None}, decision : Verdicts,
     deltas : SUBSET Nat, closure : Closures \cup {None}]

Commits == [at : {"commit"}, next : Snapshots]
Rests == {Idle, Ready} \cup Commits
Operations ==
    Rests
    \cup [at : {"record"}, request : Requests, outcome : AllOutcomes,
          session : ValidationSessions, rounds : Rounds]
    \cup [at : {"reserve"}, session : Sessions, thread : Threads,
          revision : Revisions, then : Rests]
    \cup [at : {"close"}, session : Sessions, status : Closings, then : Rests]

TypeOK ==
    /\ RegistryTypeOK
    /\ run \in Snapshots
    /\ requests \in Seq(ResearcherRequests)
    /\ pc \in [Procs -> Operations]

-----------------------------------------------------------------------------
\* A verdict the workflow computed is the one its rounds deserve, through every
\* retry, timeout, replay and protocol: VALIDATION_PASSED stands on three low
\* blinds and a high hint, TOO_EASY on a high blind as the last round, and no
\* round was ever accepted after one that met the threshold.  A run that is
\* finalized, published or completed was passed by such a verdict or by the
\* Teacher's own STOP_PASSED, which no later step replaces.
VerdictsEarned ==
    /\ run.decision = "VALIDATION_PASSED" => PassEvidence(run.attempts)
    /\ run.decision = "TOO_EASY" =>
           /\ LastOutcome(run.attempts) = "HIGH"
           /\ Len(run.attempts) \in Blinds(run.attempts)
    /\ \A i \in DOMAIN run.attempts :
           run.attempts[i].outcome = "HIGH" => i = Len(run.attempts)
    /\ run.state \in {"VALIDATION_PASSED", "RUNTIME_FINALIZATION",
                      "PUBLICATION_PENDING", "COMPLETED"} =>
           run.decision \in {"VALIDATION_PASSED", "STOP_PASSED"}
    /\ run.state = "TOO_EASY" => run.decision \in {"TOO_EASY", "STOP_TOO_EASY"}

\* What a Researcher is shown of earlier rounds comes from the session it works
\* in: every round among a session's receipts and among a request's prior rounds
\* was asked for under that very session, although a slow record writes the
\* receipts it read over a run that another process has meanwhile migrated to
\* another revision and another session (workflow.py:1090-1103, 1579-1592).
HistoryStaysInSession ==
    /\ run.session # None =>
           \A k \in DOMAIN run.session.receipts :
               requests[run.session.receipts[k]].session = run.session.id
    /\ \A i \in DOMAIN requests : \A k \in DOMAIN requests[i].prior :
           requests[requests[i].prior[k]].session = requests[i].session

\* One Harbor execution is counted once, whoever records it and under whatever
\* key: a second recording could make one timeout two (HUMAN_REVIEW) or one low
\* round two of the three blinds.
ExecutionCountedOnce ==
    \A i, j \in DOMAIN run.attempts :
        /\ i # j
        /\ run.attempts[i].request = run.attempts[j].request
        /\ run.attempts[i].index = run.attempts[j].index
        => "INCOMPLETE" \in {run.attempts[i].outcome, run.attempts[j].outcome}

\* The session a run works in is one that the registry holds for this run and for
\* the revision the session was frozen with: a crash between reservation and
\* commit, two processes freezing at once, or a slow record that puts an old
\* session back never leave the run in a session nobody reserved, or that a
\* sibling reserved.  That it is the present revision is not kept, see below.
SessionIsReserved ==
    run.session # None =>
        /\ registry[run.session.id] # Unused
        /\ registry[run.session.id].run = Self
        /\ registry[run.session.id].revision = run.session.revision

\* What is published or completed was finalized from this revision's evidence: a
\* closure names a scientific attempt and deltas that are in the present ledger
\* and of one round, and nothing survives into the next revision.
ClosureIsCurrent ==
    run.closure # None =>
        /\ run.state \in {"RUNTIME_FINALIZATION", "PUBLICATION_PENDING", "COMPLETED"}
        /\ run.closure.scientific \in Scientific(run.attempts)
        /\ run.closure.deltas \subseteq run.deltas
        /\ \A d \in run.closure.deltas :
               /\ d \in DOMAIN run.attempts
               /\ run.attempts[d].index =
                      run.attempts[run.closure.scientific].index

\* Within a revision the ledger of attempts only grows, whatever processes commit
\* from snapshots or sessions they read before: it goes only with the revision.
LedgerOnlyGrows ==
    [][run'.revision = run.revision =>
           /\ Len(run.attempts) <= Len(run'.attempts)
           /\ \A i \in DOMAIN run.attempts : run'.attempts[i] = run.attempts[i]]_run

-----------------------------------------------------------------------------
(* Statements of the repository that the code does not keep.                 *)

\* "the only legal Researcher request" (issue_researcher_request): the round a
\* current request asks for can be recorded when it ends with a score.
IssuedRequestIsLegal ==
    \A i \in DOMAIN requests :
        /\ run.state \in Recording /\ Active
        /\ requests[i].protocol = "linear"
        /\ BindsSession(i)
        /\ \A k \in DOMAIN run.attempts : run.attempts[k].request # i
        => /\ ModeFits(requests[i].mode)
           /\ Fresh(Append(run.attempts, AttemptOf(i, "LOW")))

\* The session's receipts are exactly the scientific rounds of its ledger, in
\* their order, so that the next request shows the Researcher every accepted
\* round once and no failed one.
ReceiptsAreTheRounds ==
    run.session # None =>
        LET rounds == {i \in Scientific(run.attempts) :
                          run.attempts[i].protocol = "linear"}
        IN  /\ Len(run.session.receipts) = Cardinality(rounds)
            /\ \A i \in rounds :
                   run.session.receipts[run.attempts[i].index] =
                       run.attempts[i].request

\* Every accepted round has its evidence in the ledger of rounds, without which
\* publication refuses the run (publication.py:172-175).
RoundsAreLedgered ==
    \A k \in Scientific(run.attempts) :
        run.attempts[k].protocol = "linear" =>
            run.rounds[run.attempts[k].request] = run.attempts[k].outcome

\* The registry refuses the reuse of a session, and changed scientific bytes close
\* the old one: a run works in the session of its present revision ...
SessionIsCurrent ==
    run.session # None => run.session.revision = run.revision

\* ... and is judged on rounds of its present revision.
EvidenceIsCurrent ==
    \A k \in DOMAIN run.attempts :
        requests[run.attempts[k].request].revision = run.revision

\* The crash window between a settling commit and the registry can always be
\* repaired by the same call.
SettledCanReconcile ==
    run.session # None /\ Settled(run.state) =>
        MayClose(run.session.id, ClosingOf(run.state))

\* "The same idempotent request reconciles" a registry that a commit left open:
\* once nobody is at work, a run finalized on a computed pass has a closed session.
FinalizedSessionIsClosed ==
    /\ run.state \in {"RUNTIME_FINALIZATION", "PUBLICATION_PENDING", "COMPLETED"}
    /\ run.decision = "VALIDATION_PASSED"
    /\ \A p \in Procs : IsIdle(p)
    => registry[run.session.id].status = "CLOSED_VALIDATION_PASSED"

\* Changed scientific bytes close the old session: an open session of this run
\* belongs to its present revision.
SupersededSessionIsClosed ==
    \A s \in Registered :
        registry[s].run = Self /\ registry[s].status = "ACTIVE" =>
            registry[s].revision = run.revision
=============================================================================
