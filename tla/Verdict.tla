------------------------------- MODULE Verdict -------------------------------
(***************************************************************************)
(* What validation rounds are worth: the verdict over a ledger of attempts *)
(* and its freshness rules (validation.py), the rounds one persistent      *)
(* trial can hold, and what the workflow makes of such a trial.            *)
(* Operators only; the workflow and the supervisor use them.               *)
(***************************************************************************)
EXTENDS Naturals, Sequences, FiniteSets

AllOutcomes ==
    {"LOW", "HIGH",     \* SCIENTIFIC_RESULT below or at the pass threshold
     "TIMEOUT",         \* DEFERRED_TIMEOUT
     "FAILED",          \* environment, harness or platform failure
     "INCOMPLETE"}      \* no readable result and no execution identity
    \* EXECUTION_CONTRACT_FAILURE, another class of validation.py, is left out: no
    \* branch of the canonical importer's _classify returns it.

-----------------------------------------------------------------------------
(* The verdict: validation.decide_validation and its freshness rules.        *)

Scientific(atts) == {i \in DOMAIN atts : atts[i].outcome \in {"LOW", "HIGH"}}
Blinds(atts) == {i \in Scientific(atts) : atts[i].mode = "blind"}
Hints(atts) == {i \in Scientific(atts) : atts[i].mode = "hint"}

\* A mutant for TLC: only scientific executions are compared.
ScienceFresh(atts) ==
    \A i, j \in Scientific(atts) : i < j => atts[i].request # atts[j].request

\* An INCOMPLETE attempt may have no job, trial or sandbox identity to compare.
IdentityFresh(atts) ==
    \A i, j \in DOMAIN atts :
        i < j /\ "INCOMPLETE" \notin {atts[i].outcome, atts[j].outcome} =>
            atts[i].request # atts[j].request

\* Scientific rounds are numbered from one, three blinds and then two hints.
Ordered(atts) ==
    \A i \in Scientific(atts) :
        LET k == Cardinality({j \in Scientific(atts) : j <= i}) IN
            /\ k <= 5
            /\ atts[i].index = k
            /\ atts[i].mode = IF k <= 3 THEN "blind" ELSE "hint"

OneProtocol(atts) ==
    \A i, j \in Scientific(atts) : atts[i].protocol = atts[j].protocol

\* A persistent session is one Harbor trial; every linear round is a new one.
Fresh(atts) ==
    /\ OneProtocol(atts)
    /\ Ordered(atts)
    /\ IF \E i \in Scientific(atts) : atts[i].protocol = "persistent"
       THEN \A i, j \in Scientific(atts) : atts[i].request = atts[j].request
       ELSE IdentityFresh(atts)

TimedOut(atts, back) ==
    back < Len(atts) /\ atts[Len(atts) - back].outcome = "TIMEOUT"

\* A mutant for TLC: a high blind round does not end the validation.
DecideWithoutBlindPass(atts) ==
    IF TimedOut(atts, 0) /\ TimedOut(atts, 1) THEN "HUMAN_REVIEW"
    ELSE IF TimedOut(atts, 0) THEN "DEFER_NEXT_QUESTION"
    ELSE IF atts[Len(atts)].outcome \in {"FAILED", "INCOMPLETE"}
         THEN "RETRY_SAME_ATTEMPT"
    ELSE IF Cardinality(Blinds(atts)) < 3 THEN "NEXT_BLIND"
    ELSE IF \E i \in Hints(atts) : atts[i].outcome = "HIGH"
         THEN "VALIDATION_PASSED"
    ELSE IF Cardinality(Hints(atts)) >= 2 THEN "HUMAN_REVIEW"
    ELSE "NEXT_HINT"

Decide(atts) ==
    IF TimedOut(atts, 0) /\ TimedOut(atts, 1) THEN "HUMAN_REVIEW"
    ELSE IF TimedOut(atts, 0) THEN "DEFER_NEXT_QUESTION"
    ELSE IF atts[Len(atts)].outcome \in {"FAILED", "INCOMPLETE"}
         THEN "RETRY_SAME_ATTEMPT"
    ELSE IF \E i \in Blinds(atts) : atts[i].outcome = "HIGH" THEN "TOO_EASY"
    ELSE IF Cardinality(Blinds(atts)) < 3 THEN "NEXT_BLIND"
    ELSE IF \E i \in Hints(atts) : atts[i].outcome = "HIGH"
         THEN "VALIDATION_PASSED"
    ELSE IF Cardinality(Hints(atts)) >= 2 THEN "HUMAN_REVIEW"
    ELSE "NEXT_HINT"

LastOutcome(atts) == atts[Len(atts)].outcome

\* What it takes for a question to be judged right: three blind rounds below the
\* threshold and then a hinted round above it.
PassEvidence(atts) ==
    /\ \A k \in 1 .. 3 : \E i \in Blinds(atts) :
           atts[i].index = k /\ atts[i].outcome = "LOW"
    /\ \E i \in Hints(atts) : atts[i].outcome = "HIGH" /\ atts[i].index > 3

-----------------------------------------------------------------------------
(* Persistent trials.                                                        *)

\* What one persistent trial can hold: Harbor and Teacher follow the same
\* progression, and a platform failure ends the trial.  Its bytes are fixed with
\* the request, so every import of it finds the same rounds.
PersistentTrials ==
    {s \in UNION {[1 .. n -> {"LOW", "HIGH", "FAILED"}] : n \in 1 .. 5} :
        /\ \A k \in 1 .. (Len(s) - 1) : s[k] = "LOW"
        /\ Len(s) < 3 => s[Len(s)] # "LOW"}

Terminal(trial) ==
    LET last == trial[Len(trial)] IN
    CASE last = "FAILED" -> "NONE"
      [] last = "HIGH" -> IF Len(trial) <= 3 THEN "STOP_TOO_EASY" ELSE "STOP_PASSED"
      [] OTHER -> "STOP_BLOCKED"

TrialAttempts(i, trial) ==
    [k \in DOMAIN trial |->
        [request |-> i, protocol |-> "persistent", index |-> k,
         mode |-> IF k <= 3 THEN "blind" ELSE "hint", outcome |-> trial[k]]]

\* A mutant for TLC: a trial that passed is settled as too easy.
TrialVerdictSwapped(trial) ==
    CASE Terminal(trial) = "NONE" ->
            <<"BLIND_VALIDATION", "RETRY_SAME_ATTEMPT", "ACTIVE">>
      [] Terminal(trial) = "STOP_PASSED" ->
            <<"TOO_EASY", "TOO_EASY", "CLOSED_TOO_EASY">>
      [] Terminal(trial) = "STOP_TOO_EASY" ->
            <<"VALIDATION_PASSED", "VALIDATION_PASSED", "CLOSED_VALIDATION_PASSED">>
      [] OTHER -> <<"BLOCKED", "STOP_BLOCKED", "CLOSED_BLOCKED">>

\* state, decision and registry status of a finished trial.
TrialVerdict(trial) ==
    CASE Terminal(trial) = "NONE" /\ Len(trial) > 1 ->
            <<"BLOCKED", "PLATFORM_RECOVERY_REQUIRED", "ACTIVE">>
      [] Terminal(trial) = "NONE" /\ Len(trial) <= 1 ->
            <<"BLIND_VALIDATION", "RETRY_SAME_ATTEMPT", "ACTIVE">>
      [] Terminal(trial) = "STOP_TOO_EASY" ->
            <<"TOO_EASY", "TOO_EASY", "CLOSED_TOO_EASY">>
      [] Terminal(trial) = "STOP_PASSED" ->
            <<"VALIDATION_PASSED", "VALIDATION_PASSED", "CLOSED_VALIDATION_PASSED">>
      [] OTHER -> <<"BLOCKED", "STOP_BLOCKED", "CLOSED_BLOCKED">>

\* A calculated verdict binds the Teacher's terminal action.
TerminalAgrees(attempts, trial) ==
    LET calculated == Decide(attempts) IN
        /\ calculated = "TOO_EASY" => Terminal(trial) = "STOP_TOO_EASY"
        /\ calculated = "VALIDATION_PASSED" => Terminal(trial) = "STOP_PASSED"
==============================================================================
