------------------------------ MODULE Recovery ------------------------------
(***************************************************************************)
(* RecoveryLedger (recovery.py): how often each scientific round of a      *)
(* question has failed at which stage, and the circuit of the model        *)
(* transport that all questions share.  Both are files changed under one   *)
(* lock, so every operation is one action.                                 *)
(***************************************************************************)
EXTENDS Naturals

CONSTANTS
    Questions,
    Rounds,         \* scientific rounds, as the supervisor numbers them
    Stages,         \* failure stages a worker may report
    Probers,        \* supervisor processes, which probe the transport
    RetryBudget,    \* the length of TRANSIENT_DELAYS_SEC
    MaxFailures,    \* bound: failures counted for one round and stage
    None

ASSUME RecoveryAssumption ==
    /\ RetryBudget \in Nat
    /\ MaxFailures \in Nat
    /\ None \notin Probers

VARIABLES
    failures,   \* question -> round -> stage -> failures counted
    circuit     \* the shared circuit and who probes it

recoveryVars == <<failures, circuit>>

TransientStages == {"IMAGE", "SANDBOX", "PLATFORM", "PROVIDER"}

Closed == [state |-> "CLOSED", owner |-> None]
Open == [state |-> "OPEN", owner |-> None]

\* RecoveryPolicy.decide()
Decide(stage, count) ==
    CASE stage \in TransientStages ->
            IF count <= RetryBudget THEN "RETRY_RUNTIME" ELSE "WAIT_EXTERNAL"
      [] stage = "MODEL_CONNECTION" -> "WAIT_EXTERNAL"
      [] stage = "SCIENTIFIC_EXECUTION" -> "SCIENTIFIC_DECISION"
      [] OTHER -> "TEACHER_AUDIT"

\* A mutant for TLC: every runtime attempt is counted by itself.
CountAnew(q, r, s) == 1

\* The count belongs to the round, whatever runtime attempt failed.
Count(q, r, s) == failures[q][r][s] + 1

-----------------------------------------------------------------------------
\* record_failure()
RecordFailure(q, r, s) ==
    /\ failures[q][r][s] < MaxFailures
    /\ failures' = [failures EXCEPT ![q][r][s] = Count(q, r, s)]
    /\ circuit' = IF s = "MODEL_CONNECTION" THEN Open ELSE circuit

\* clear_round()
ClearRound(q, r) ==
    /\ failures' = [failures EXCEPT ![q][r] = [s \in Stages |-> 0]]
    /\ UNCHANGED circuit

\* claim_model_probe(): the cooldown of an open circuit is over some time.
ClaimProbe(p) ==
    /\ circuit.state = "OPEN"
    /\ circuit' = [state |-> "HALF_OPEN", owner |-> p]
    /\ UNCHANGED failures

HoldsProbe(p) == circuit.state = "HALF_OPEN" /\ circuit.owner = p

\* finish_model_probe()
FinishProbe(p, succeeded) ==
    /\ HoldsProbe(p)
    /\ circuit' = IF succeeded THEN Closed ELSE Open
    /\ UNCHANGED failures

\* The owner is named after its process.  When that ends, the name is nobody's.
Abandoned(p) == IF HoldsProbe(p) THEN [circuit EXCEPT !.owner = None] ELSE circuit

-----------------------------------------------------------------------------
RecoveryInit ==
    /\ failures = [q \in Questions |-> [r \in Rounds |-> [s \in Stages |-> 0]]]
    /\ circuit = Closed

RecoveryTypeOK ==
    /\ failures \in [Questions -> [Rounds -> [Stages -> 0 .. MaxFailures]]]
    /\ circuit \in [state : {"CLOSED", "OPEN", "HALF_OPEN"},
                    owner : Probers \cup {None}]
    /\ circuit.state # "HALF_OPEN" => circuit.owner = None
=============================================================================
