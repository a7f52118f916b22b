----------------------------- MODULE Publication -----------------------------
(***************************************************************************)
(* How the evidence of a published question is sealed                      *)
(* (publication.finalize_published_family): the family is validated, the   *)
(* artifacts are copied into a staging directory beside the target, and    *)
(* the directory is renamed.  The only caller holds the scheduler's lock,  *)
(* so there is one staging directory that matters; what a dead process     *)
(* left is under a name of its own.                                        *)
(*                                                                         *)
(* The copied rounds are bound by digests and cannot differ.  What can     *)
(* differ from one finalization to the next is the family, which the       *)
(* manifest digests, and the optional files that happen to exist.          *)
(***************************************************************************)
EXTENDS Naturals

CONSTANTS
    Published,      \* questions
    MaxFamily,      \* bound: versions of a question-pack
    Missing

VARIABLES
    family,         \* question -> version of its question-pack; 0: none
    extras,         \* question -> optional runtime files exist
    trace,          \* question -> its final trace, or Missing
    staging         \* the staging directory and what it is for, or Missing

publicationVars == <<family, extras, trace, staging>>

Parts == {"artifacts", "manifest"}

Traces == [parts : SUBSET Parts, family : Nat, extras : BOOLEAN, validated : Nat]
Stagings == [question : Published, content : Traces]

ASSUME PublicationAssumption ==
    /\ MaxFamily \in Nat
    /\ Missing \notin Traces
    /\ Missing \notin Stagings

\* validate_published_family() and mkdtemp()
Validate(q) ==
    /\ family[q] > 0
    /\ staging' = [question |-> q, content |->
           [parts |-> {}, family |-> 0, extras |-> FALSE, validated |-> family[q]]]
    /\ UNCHANGED <<family, extras, trace>>

Stage(part, content) ==
    /\ staging' = [staging EXCEPT !.content =
           [content EXCEPT !.parts = @ \cup {part}]]
    /\ UNCHANGED <<family, extras, trace>>

StageArtifacts ==
    /\ staging # Missing /\ staging.content.parts = {}
    /\ Stage("artifacts", [staging.content EXCEPT !.extras = extras[staging.question]])

StageManifest ==
    /\ staging # Missing /\ staging.content.parts = {"artifacts"}
    /\ Stage("manifest", [staging.content EXCEPT !.family = family[staging.question]])

SameTrace(q, content) ==
    [trace[q] EXCEPT !.validated = 0] = [content EXCEPT !.validated = 0]

\* A mutant for TLC: the target is filled in place.
PublishPartly(q) ==
    /\ staging # Missing /\ staging.question = q
    /\ trace' = [trace EXCEPT ![q] = staging.content]
    /\ staging' = Missing
    /\ UNCHANGED <<family, extras>>

\* A target that is there must be the same trace, to the last file.
Publish(q) ==
    /\ staging # Missing /\ staging.question = q
    /\ staging.content.parts = Parts
    /\ \/ trace[q] = Missing /\ trace' = [trace EXCEPT ![q] = staging.content]
       \/ trace[q] # Missing /\ SameTrace(q, staging.content) /\ UNCHANGED trace
    /\ staging' = Missing
    /\ UNCHANGED <<family, extras>>

\* Outside: the Teacher assembles the family, runtime evidence turns up.
EditFamily(q) ==
    /\ family[q] < MaxFamily
    /\ family' = [family EXCEPT ![q] = @ + 1]
    /\ UNCHANGED <<extras, trace, staging>>

AddExtras(q) ==
    /\ ~extras[q]
    /\ extras' = [extras EXCEPT ![q] = TRUE]
    /\ UNCHANGED <<family, trace, staging>>

PublicationInit ==
    /\ family = [q \in Published |-> 0]
    /\ extras = [q \in Published |-> FALSE]
    /\ trace = [q \in Published |-> Missing]
    /\ staging = Missing

PublicationTypeOK ==
    /\ family \in [Published -> Nat]
    /\ extras \in [Published -> BOOLEAN]
    /\ trace \in [Published -> Traces \cup {Missing}]
    /\ staging \in Stagings \cup {Missing}

\* What is under the name of a final trace is all of it, wherever the process that
\* made it died, and it is never changed or replaced (publication.py:98, 130-133).
TraceStands ==
    [][\A q \in Published :
         /\ trace[q] # Missing => trace'[q] = trace[q]
         /\ trace'[q] # Missing => trace'[q].parts = Parts]_trace

\* Not kept by the code: the family that is sealed is the one that was validated.
SealedWasValidated ==
    \A q \in Published :
        trace[q] # Missing => trace[q].family = trace[q].validated
=============================================================================
