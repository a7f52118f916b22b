------------------------------ MODULE Sessions ------------------------------
(***************************************************************************)
(* What the campaign supervisor promises of persistent validation, whoever *)
(* dies, is lost or is started again underneath: sessions are opened until *)
(* one gives the run its verdict; a round is answered once, and only as    *)
(* the rounds so far call for; the verdict is the one the workflow finds   *)
(* in that session; and a question is finished on nothing else.            *)
(***************************************************************************)
EXTENDS Verdict

CONSTANTS Questions,
          None          \* no decision, no verdict

VARIABLES sessions,     \* question -> the rounds of each session opened for it
          verdict,      \* question -> what its run was settled with
          finished      \* questions whose verdict was attributed

vars == <<sessions, verdict, finished>>

Round(outcome, decision) == [outcome |-> outcome, decision |-> decision]

\* A session as the workflow imports it: a round without a score is a failed one.
Progress(rounds) ==
    [i \in DOMAIN rounds |->
        IF rounds[i].outcome = "PLATFORM" THEN "FAILED" ELSE rounds[i].outcome]

Last(rounds) == rounds[Len(rounds)]

Continues(decision) == decision \in {"CONTINUE_BLIND", "CONTINUE_HINT"}

\* A session ends with a decision to stop.
Ended(rounds) ==
    rounds # <<>> /\ Last(rounds).decision # None /\ ~Continues(Last(rounds).decision)

\* The decision that fits the rounds so far: to stop with what they show, or to go on
\* while all of them are low, with hints after the third.  Low rounds may be given up
\* when the blind ones are over.
Fits(rounds, decision) ==
    \/ /\ Progress(rounds) \in PersistentTrials
       /\ Last(rounds).outcome # "PLATFORM"
       /\ decision = Terminal(Progress(rounds))
    \/ /\ \A i \in DOMAIN rounds : rounds[i].outcome = "LOW"
       /\ Len(rounds) < 5
       /\ decision = IF Len(rounds) < 3 THEN "CONTINUE_BLIND" ELSE "CONTINUE_HINT"

-----------------------------------------------------------------------------
Open(q) ==
    /\ verdict[q] = None
    /\ sessions' = [sessions EXCEPT ![q] = Append(@, <<>>)]
    /\ UNCHANGED <<verdict, finished>>

\* A round is run, whether or not anybody still waits for its session.
Play(q, s, outcome) ==
    /\ \A i \in DOMAIN sessions[q][s] : Continues(sessions[q][s][i].decision)
    /\ sessions' = [sessions EXCEPT ![q][s] = Append(@, Round(outcome, None))]
    /\ UNCHANGED <<verdict, finished>>

Answer(q, s, decision) ==
    LET rounds == sessions[q][s] IN
    /\ verdict[q] = None
    /\ rounds # <<>> /\ Last(rounds).decision = None
    /\ Fits(rounds, decision)
    /\ sessions' = [sessions EXCEPT
           ![q][s] = [rounds EXCEPT ![Len(rounds)] = Round(Last(rounds).outcome, decision)]]
    /\ UNCHANGED <<verdict, finished>>

\* Only a failed round is taken back, to be run again.
Withdraw(q, s) ==
    LET rounds == sessions[q][s] IN
    /\ rounds # <<>> /\ Last(rounds) = Round("PLATFORM", None)
    /\ sessions' = [sessions EXCEPT ![q][s] = SubSeq(rounds, 1, Len(rounds) - 1)]
    /\ UNCHANGED <<verdict, finished>>

\* The one verdict of the run, from a session that ended; or it is blocked, for
\* another session to be migrated to, by one that broke off after a score.
Settle(q, s) ==
    LET rounds == sessions[q][s] IN
    /\ verdict[q] = None
    /\ \/ /\ Ended(rounds)
          /\ verdict' = [verdict EXCEPT ![q] = TrialVerdict(Progress(rounds))[1]]
       \/ /\ ~Ended(rounds) /\ \E i \in DOMAIN rounds : rounds[i].outcome # "PLATFORM"
          /\ verdict' = [verdict EXCEPT ![q] = "MIGRATE"]
    /\ UNCHANGED <<sessions, finished>>

Finish(q) ==
    /\ q \notin finished
    /\ \E s \in DOMAIN sessions[q] :
           /\ Ended(sessions[q][s])
           /\ verdict[q] = TrialVerdict(Progress(sessions[q][s]))[1]
    /\ finished' = finished \cup {q}
    /\ UNCHANGED <<sessions, verdict>>

-----------------------------------------------------------------------------
Init ==
    /\ sessions = [q \in Questions |-> <<>>]
    /\ verdict = [q \in Questions |-> None]
    /\ finished = {}

OfSession(q, s) ==
    \/ \E outcome \in {"LOW", "HIGH", "PLATFORM"} : Play(q, s, outcome)
    \/ \E decision \in {"CONTINUE_BLIND", "CONTINUE_HINT", "STOP_TOO_EASY", "STOP_PASSED",
                        "STOP_BLOCKED"} : Answer(q, s, decision)
    \/ Withdraw(q, s)
    \/ Settle(q, s)

Next ==
    \E q \in Questions :
        Open(q) \/ Finish(q) \/ \E s \in DOMAIN sessions[q] : OfSession(q, s)

Spec == Init /\ [][Next]_vars
=============================================================================
