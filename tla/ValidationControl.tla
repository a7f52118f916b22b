-------------------------- MODULE ValidationControl --------------------------
(***************************************************************************)
(* Live persistent sessions: the Researcher requests of every question, the *)
(* validation-control files of each (a result per round, the decision that *)
(* answers it, the final receipt) and the workers that write them.         *)
(* Decisions are TeacherValidationController's; the workers are Harbor     *)
(* trials, modelled from what persistent_recovery.py and the supervisor     *)
(* make of them.                                                           *)
(***************************************************************************)
EXTENDS Naturals, Sequences

CONSTANTS
    Questions,
    Stages,         \* failure stages a worker may report
    Probers,        \* processes that start workers and watch them
    None

VARIABLES
    requests,   \* question -> its requests, in the order of issue
    workers     \* every worker ever started; its position is its pid

Scientific == {"LOW", "HIGH"}
Continuing == {"CONTINUE_BLIND", "CONTINUE_HINT"}
Stopping == {"STOP_TOO_EASY", "STOP_PASSED", "STOP_BLOCKED"}

Request == [rounds |-> <<>>, receipt |-> None]

Undecided(outcome) == [outcome |-> outcome, decision |-> None]

LastRound(request) == request.rounds[Len(request.rounds)]
HasScience(request) ==
    \E i \in DOMAIN request.rounds : request.rounds[i].outcome \in Scientific
Stopped(request) ==
    request.rounds # <<>> /\ LastRound(request).decision \in Stopping

-----------------------------------------------------------------------------
(* Decisions.                                                                *)

\* _validate_progression(): what may answer a result; rounds 1 to 3 are blind.
Allowed(i, outcome) ==
    CASE outcome = "HIGH" /\ i <= 3 -> {"STOP_TOO_EASY"}
      [] outcome = "HIGH" /\ i \in {4, 5} -> {"STOP_PASSED"}
      [] outcome = "LOW" /\ i < 3 -> {"CONTINUE_BLIND"}
      [] outcome = "LOW" /\ i \in {3, 4} -> {"CONTINUE_HINT", "STOP_BLOCKED"}
      [] outcome = "LOW" /\ i = 5 -> {"STOP_BLOCKED"}
      [] OTHER -> {}

\* A mutant for TLC: a second decision overwrites the first one.
MayReplace(request, i, action) ==
    /\ i \in DOMAIN request.rounds
    /\ action \in Allowed(i, request.rounds[i].outcome)

\* decide() and _publish_immutable(): the same decision again changes nothing.
MayDecide(request, i, action) ==
    /\ i \in DOMAIN request.rounds
    /\ action \in Allowed(i, request.rounds[i].outcome)
    /\ request.rounds[i].decision \in {None, action}

Decided(q, a, i, action) == [requests EXCEPT ![q][a].rounds[i].decision = action]

-----------------------------------------------------------------------------
(* Workers.                                                                  *)

Worker(q, a, kind, owner) ==
    [question |-> q, request |-> a, kind |-> kind, owner |-> owner, alive |-> TRUE]

\* What is left of the workers when the process that watched them ends.
Orphaned(p) ==
    [w \in DOMAIN workers |->
        IF workers[w].owner = p THEN [workers[w] EXCEPT !.owner = None]
        ELSE workers[w]]

Served(w) == requests[workers[w].question][workers[w].request]

Exit(w) == workers' = [workers EXCEPT ![w].alive = FALSE]

\* The next round is under way: nothing but continuing decisions so far.
MayRun(request) ==
    \A i \in DOMAIN request.rounds : request.rounds[i].decision \in Continuing

\* A round ends with a result the controller can read.
Publish(w, outcome) ==
    /\ workers[w].alive /\ MayRun(Served(w))
    /\ workers[w].kind = "continuation" => Len(Served(w).rounds) >= 3
    /\ requests' = [requests EXCEPT ![workers[w].question][workers[w].request].rounds =
                       Append(@, Undecided(outcome))]
    /\ UNCHANGED workers

Receipt(w, value) ==
    /\ requests' = [requests EXCEPT
           ![workers[w].question][workers[w].request].receipt = value]
    /\ Exit(w)

\* The last decision was to stop: the worker leaves its scientific receipt.
Settle(w) ==
    /\ workers[w].alive /\ Stopped(Served(w))
    /\ Receipt(w, "SCIENTIFIC_RESULT")

\* runtime-researcher-run reports a failed execution; a continuation cannot.
Fail(w, stage) ==
    /\ workers[w].alive /\ workers[w].kind = "session"
    /\ Receipt(w, stage)

\* A worker ends without a receipt.
Vanish(w) ==
    /\ workers[w].alive
    /\ Exit(w)
    /\ UNCHANGED requests

WorkerStep(w) ==
    \/ \E outcome \in Scientific \cup {"PLATFORM"} : Publish(w, outcome)
    \/ Settle(w)
    \/ \E stage \in Stages : Fail(w, stage)
    \/ Vanish(w)

-----------------------------------------------------------------------------
ControlInit ==
    /\ requests = [q \in Questions |-> <<>>]
    /\ workers = <<>>

RoundRecords ==
    [outcome : Scientific \cup {"PLATFORM"},
     decision : Continuing \cup Stopping \cup {None}]

Requests == [rounds : Seq(RoundRecords), receipt : Stages \cup {"SCIENTIFIC_RESULT", None}]

WorkerRecords ==
    [question : Questions, request : Nat, kind : {"session", "continuation"},
     owner : Probers \cup {None}, alive : BOOLEAN]

ControlTypeOK ==
    /\ requests \in [Questions -> Seq(Requests)]
    /\ workers \in Seq(WorkerRecords)
    /\ \A w \in DOMAIN workers : workers[w].request \in DOMAIN requests[workers[w].question]
=============================================================================
