------------------------------ MODULE SkillBatch ------------------------------
(***************************************************************************)
(* How a batch of questions is closed in the Skill Bank (skillbank.py):    *)
(* the lessons its questions were attributed, the evidence manifest and    *)
(* the reconcile result, the hand-off of candidates and their evaluation.  *)
(*                                                                         *)
(* There is no lock: every resumed question and the scheduler close in     *)
(* processes of their own, so each file access that others can come        *)
(* between is an action.  skillfoundry is external: what it finds and      *)
(* whether a candidate passes is its choice.                               *)
(***************************************************************************)
EXTENDS Naturals, FiniteSets

CONSTANTS
    Members,        \* the questions of the batch
    Lessons,        \* evidence identities of eligible failures
    Earlier,        \* those that earlier batches may have recorded
    NoFile

Evidence == Members \X Lessons
Results ==
    [status : {"NO_ELIGIBLE_EVIDENCE", "INSUFFICIENT_FAILURE_PATTERN", "RECONCILED"},
     count : Nat, tasks : Nat, lessons : BOOLEAN]

ASSUME BatchAssumption ==
    /\ IsFiniteSet(Members) /\ Members # {}
    /\ IsFiniteSet(Lessons)
    /\ "scheduler" \notin Members
    /\ Earlier \subseteq Lessons
    /\ NoFile \notin Results
    /\ \A evidence \in SUBSET Evidence : evidence # NoFile

\* The supervisor of each question, and the scheduler.
Closers == Members \cup {"scheduler"}

VARIABLES
    attributions,   \* question -> the lessons recorded for it, of any batch
    manifest,       \* evidence-manifest.json
    result,         \* reconcile-result.json
    handoff,        \* candidate-evaluation-required.json
    review,         \* evaluation-plan.json and evaluation-verdict.json
    promoted,       \* evidence of the candidates that entered the stable Bank
    closing         \* closer -> what it is doing

bankVars == <<manifest, result, handoff, review, promoted>>
batchVars == <<attributions, bankVars, closing>>

Idle == [at |-> "idle"]
Abandoned(p) == closing' = [closing EXCEPT ![p] = Idle]

Gathered == UNION {{q} \X attributions[q] : q \in Members}
Tasks(evidence) == {item[1] : item \in evidence}

\* A mutant for TLC: one failure makes a pattern.
PatternOfOne(evidence) == evidence # {}

Pattern(evidence) == Cardinality(Tasks(evidence)) >= 2

\* What is written when there is no pattern: it says how much there was.
Short(evidence) ==
    [status |-> IF evidence = {} THEN "NO_ELIGIBLE_EVIDENCE"
                ELSE "INSUFFICIENT_FAILURE_PATTERN",
     count |-> Cardinality(evidence), tasks |-> Cardinality(Tasks(evidence)),
     lessons |-> FALSE]

Reconciled(evidence, lessons) ==
    [status |-> "RECONCILED", count |-> Cardinality(evidence),
     tasks |-> Cardinality(Tasks(evidence)), lessons |-> lessons]

\* A lesson enters the pool; the file is named by its digest.
Record(q, lesson) == attributions' = [attributions EXCEPT ![q] = @ \cup {lesson}]

-----------------------------------------------------------------------------
\* The evidence of all questions is read, and the files it is compared with.  The
\* code reads the evidence once to count the questions and again for the manifest,
\* and looks at the files after that; the three are taken as one here, so nothing
\* is recorded or written between them.
Gather(p) ==
    LET evidence == Gathered
        goto(label) == closing' = [closing EXCEPT
                           ![p].at = label, ![p].evidence = evidence]
        conclude == closing' = [closing EXCEPT ![p].at = "conclude",
                        ![p].evidence = evidence, ![p].lessons = result.lessons]
    IN  /\ closing[p].at = "gather"
        /\ \/ /\ Pattern(evidence)
              /\ manifest = NoFile /\ result = NoFile
              /\ goto("writeManifest")
           \/ /\ Pattern(evidence)
              /\ manifest = evidence /\ result # NoFile
              /\ conclude
           \/ /\ ~Pattern(evidence) /\ result = NoFile
              /\ goto("writeShort")
           \/ /\ ~Pattern(evidence) /\ result = Short(evidence)
              /\ conclude
        /\ UNCHANGED <<attributions, bankVars>>

WriteManifest(p) ==
    /\ closing[p].at = "writeManifest"
    /\ manifest' = closing[p].evidence
    /\ closing' = [closing EXCEPT ![p].at = "reconcile"]
    /\ UNCHANGED <<attributions, result, handoff, review, promoted>>

\* skillfoundry reconcile, on the manifest as it is by now, and then the result
Reconcile(p) ==
    /\ closing[p].at = "reconcile"
    /\ \E lessons \in BOOLEAN :
           /\ result' = Reconciled(manifest, lessons)
           /\ closing' = [closing EXCEPT ![p].at = "conclude",
                  ![p].evidence = manifest, ![p].lessons = lessons]
    /\ UNCHANGED <<attributions, manifest, handoff, review, promoted>>

WriteShort(p) ==
    /\ closing[p].at = "writeShort"
    /\ result' = Short(closing[p].evidence)
    /\ closing' = [closing EXCEPT ![p].at = "conclude"]
    /\ UNCHANGED <<attributions, manifest, handoff, review, promoted>>

\* The rest of close_skill_batch(), which the scheduler does not call.
NeedsEvaluation(p) ==
    /\ closing[p].at = "conclude"
    /\ p \in Members /\ closing[p].lessons

Conclude(p) ==
    /\ closing[p].at = "conclude" /\ ~NeedsEvaluation(p)
    /\ closing' = [closing EXCEPT ![p].at = "done"]
    /\ UNCHANGED <<attributions, bankVars>>

\* Without a plan and a verdict the candidates are handed off; a hand-off that is
\* there must name the same ones.  The look at it and the write are two accesses of
\* the code, taken as one here.
HandOff(p) ==
    /\ NeedsEvaluation(p) /\ review = NoFile
    /\ handoff \in {NoFile, closing[p].evidence}
    /\ handoff' = closing[p].evidence
    /\ closing' = [closing EXCEPT ![p].at = "done"]
    /\ UNCHANGED <<attributions, manifest, result, review, promoted>>

\* skillfoundry evaluate: a candidate that passes the three gates is promoted.
Evaluate(p) ==
    /\ NeedsEvaluation(p) /\ review # NoFile
    /\ promoted' \in {promoted, promoted \cup {review}}
    /\ closing' = [closing EXCEPT ![p].at = "done"]
    /\ UNCHANGED <<attributions, manifest, result, handoff, review>>

CloseStep(p) ==
    \/ Gather(p) \/ WriteManifest(p) \/ Reconcile(p) \/ WriteShort(p)
    \/ Conclude(p) \/ HandOff(p) \/ Evaluate(p)

\* Outside: an evaluation of what was handed off.  Assumed of whoever evaluates: the
\* code compares the plan it finds with no hand-off.
Review ==
    /\ handoff # NoFile /\ review = NoFile
    /\ review' = handoff
    /\ UNCHANGED <<attributions, manifest, result, handoff, promoted, closing>>

-----------------------------------------------------------------------------
BatchInit ==
    /\ attributions \in [Members -> SUBSET Earlier]
    /\ manifest = NoFile /\ result = NoFile /\ handoff = NoFile /\ review = NoFile
    /\ promoted = {}
    /\ closing = [p \in Closers |-> Idle]

\* The steps of a closing that has its files to look at.
Labels == {"gather", "writeManifest", "reconcile", "writeShort", "conclude", "done"}

BankTypeOK ==
    /\ attributions \in [Members -> SUBSET Lessons]
    /\ {manifest, handoff, review} \subseteq (SUBSET Evidence) \cup {NoFile}
    /\ result \in Results \cup {NoFile}
    /\ promoted \in SUBSET SUBSET Evidence

\* Only a failure pattern of two different questions of the batch, all of it
\* recorded as their lessons, ever changes the stable Skill, however closings race,
\* fail and are repeated (docs/design/direct-linear-validation-and-skill-evolution-v1.md:30).
PromotedOnTwoQuestions ==
    \A evidence \in promoted :
        /\ evidence \subseteq Gathered
        /\ Cardinality(Tasks(evidence)) >= 2

\* Not kept by the code: the conclusion of a batch stands once it is written.  Two
\* closings that both found none write theirs, the staler one perhaps last.
ResultStands == [][result # NoFile => result' = result]_result

\* Not kept by the code: the result is the one of the evidence beside it.  After two
\* closings with different evidence, one of which dies, it is not, and is accepted.
ResultOfManifest ==
    manifest # NoFile /\ result # NoFile /\ (\A p \in Closers : closing[p] = Idle) =>
        result.count = Cardinality(manifest)
=============================================================================
