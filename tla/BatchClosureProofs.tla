------------------------- MODULE BatchClosureProofs -------------------------
(***************************************************************************)
(* The end of a batch for any number of questions and lessons, any order   *)
(* of the closings and deaths anywhere.  What a closing has in hand (its   *)
(* evidence, and whether lessons came of it) was true of the pool when it  *)
(* was gathered, and stays true because lessons are never taken out of     *)
(* the pool; the scheduler's lock keeps the board still between the look   *)
(* at the other questions and the completion of the last.                  *)
(***************************************************************************)
EXTENDS BatchClosure, FiniteSetTheorems, TLAPS

-----------------------------------------------------------------------------
(* Evidence.                                                                 *)

LEMMA EvidenceFinite ==
    ASSUME NEW evidence \in SUBSET Evidence
    PROVE  /\ IsFiniteSet(evidence) /\ Cardinality(evidence) \in Nat
           /\ IsFiniteSet(Tasks(evidence)) /\ Cardinality(Tasks(evidence)) \in Nat
<1>1. IsFiniteSet(Evidence)
  BY BatchAssumption, FS_Product DEF Evidence
<1>2. IsFiniteSet(evidence)
  BY <1>1, FS_Subset
<1>3. IsFiniteSet(Tasks(evidence))
  <2>1. Tasks(evidence) \subseteq Members
    BY DEF Tasks, Evidence
  <2> QED BY <2>1, BatchAssumption, FS_Subset
<1> QED BY <1>2, <1>3, FS_CardinalityType

LEMMA GatheredType ==
    ASSUME attributions \in [Members -> SUBSET Lessons]
    PROVE  Gathered \in SUBSET Evidence
<1> SUFFICES ASSUME NEW item \in Gathered PROVE item \in Evidence
  OBVIOUS
<1>1. PICK q \in Members : item \in {q} \X attributions[q]
  BY DEF Gathered
<1> QED BY <1>1 DEF Evidence

\* A lesson that is recorded is in the evidence from then on.
LEMMA PoolGrows ==
    ASSUME attributions \in [Members -> SUBSET Lessons],
           attributions' \in [Members -> SUBSET Lessons],
           \A q \in Members : attributions[q] \subseteq attributions'[q]
    PROVE  Gathered \subseteq Gathered'
<1> SUFFICES ASSUME NEW item \in Gathered PROVE item \in Gathered'
  OBVIOUS
<1>1. PICK q \in Members : item \in {q} \X attributions[q]
  BY DEF Gathered
<1>2. item \in {q} \X attributions'[q]
  BY <1>1
<1> QED BY <1>2 DEF Gathered

LEMMA ResultType ==
    ASSUME NEW evidence \in SUBSET Evidence
    PROVE  /\ Short(evidence) \in Results /\ Short(evidence).lessons = FALSE
           /\ \A lessons \in BOOLEAN : Reconciled(evidence, lessons) \in Results
BY EvidenceFinite DEF Short, Reconciled, Results

-----------------------------------------------------------------------------
(* Jobs.                                                                     *)

ClosingTypeOK ==
    /\ closing \in [Closers -> SupervisorJobs \cup SchedulerJobs]
    /\ \A q \in Members : closing[q] \in SupervisorJobs
    /\ closing["scheduler"] \in SchedulerJobs

\* A job that has its files to look at.
LEMMA JobOfCloser ==
    ASSUME ClosureTypeOK, NEW p \in Closers, closing[p].at \in Labels
    PROVE  /\ closing[p].evidence \in SUBSET Evidence
           /\ closing[p].lessons \in BOOLEAN
           /\ p = "scheduler" =>
                  closing[p] \in [at : Labels, question : Members,
                                  evidence : SUBSET Evidence, lessons : BOOLEAN]
           /\ p # "scheduler" =>
                  p \in Members /\ closing[p] \in [at : Labels, evidence : SUBSET Evidence,
                                                   lessons : BOOLEAN]
<1>1. closing[p].at # "idle" /\ closing[p].at # "record" /\ closing[p].at # "seal"
  BY DEF Labels
<1>2. CASE p = "scheduler"
  BY <1>1, <1>2, BatchAssumption DEF ClosureTypeOK, SchedulerJobs, Idle
<1>3. CASE p # "scheduler"
  <2>1. p \in Members
    BY <1>3 DEF Closers
  <2>2. closing[p] \in [at : Labels, evidence : SUBSET Evidence, lessons : BOOLEAN]
    BY <1>1, <2>1 DEF ClosureTypeOK, SupervisorJobs, Idle
  <2> QED BY <1>3, <2>1, <2>2
<1> QED BY <1>2, <1>3

\* What p does next is a job of its kind.
LEMMA NextJobType ==
    ASSUME ClosureTypeOK, NEW p \in Closers, NEW job,
           closing' = [closing EXCEPT ![p] = job],
           p \in Members => job \in SupervisorJobs,
           p = "scheduler" => job \in SchedulerJobs
    PROVE  /\ ClosingTypeOK'
           /\ closing'[p] = job
           /\ \A x \in Closers : x # p => closing'[x] = closing[x]
BY BatchAssumption DEF ClosureTypeOK, ClosingTypeOK, Closers

\* A step of a closing that only goes on: whose job it is, and of what question, stays.
LEMMA AdvanceAt ==
    ASSUME ClosureTypeOK, NEW p \in Closers, closing[p].at \in Labels,
           NEW label \in Labels,
           closing' = [closing EXCEPT ![p].at = label]
    PROVE  /\ ClosingTypeOK'
           /\ closing'[p].at = label
           /\ closing'[p].evidence = closing[p].evidence
           /\ closing'[p].lessons = closing[p].lessons
           /\ p = "scheduler" => closing'[p].question = closing[p].question
           /\ \A x \in Closers : x # p => closing'[x] = closing[x]
<1> DEFINE job == [closing[p] EXCEPT !.at = label]
<1>1. closing' = [closing EXCEPT ![p] = job]
  BY DEF ClosureTypeOK
<1>2. /\ job.at = label /\ job.evidence = closing[p].evidence /\ job.lessons = closing[p].lessons
      /\ p = "scheduler" => job.question = closing[p].question
      /\ p \in Members => job \in SupervisorJobs
      /\ p = "scheduler" => job \in SchedulerJobs
  <2>1. CASE p = "scheduler"
    BY <2>1, JobOfCloser, BatchAssumption DEF SchedulerJobs
  <2>2. CASE p # "scheduler"
    BY <2>2, JobOfCloser DEF SupervisorJobs
  <2> QED BY <2>1, <2>2
<1> HIDE DEF job
<1> QED BY <1>1, <1>2, NextJobType

\* It has gathered the evidence ...
LEMMA AdvanceEvidence ==
    ASSUME ClosureTypeOK, NEW p \in Closers, closing[p].at \in Labels,
           NEW label \in Labels, NEW evidence \in SUBSET Evidence,
           closing' = [closing EXCEPT ![p].at = label, ![p].evidence = evidence]
    PROVE  /\ ClosingTypeOK'
           /\ closing'[p].at = label
           /\ closing'[p].evidence = evidence
           /\ closing'[p].lessons = closing[p].lessons
           /\ p = "scheduler" => closing'[p].question = closing[p].question
           /\ \A x \in Closers : x # p => closing'[x] = closing[x]
<1> DEFINE job == [closing[p] EXCEPT !.at = label, !.evidence = evidence]
<1>1. closing' = [closing EXCEPT ![p] = job]
  BY DEF ClosureTypeOK
<1>2. /\ job.at = label /\ job.evidence = evidence /\ job.lessons = closing[p].lessons
      /\ p = "scheduler" => job.question = closing[p].question
      /\ p \in Members => job \in SupervisorJobs
      /\ p = "scheduler" => job \in SchedulerJobs
  <2>1. CASE p = "scheduler"
    BY <2>1, JobOfCloser, BatchAssumption DEF SchedulerJobs
  <2>2. CASE p # "scheduler"
    BY <2>2, JobOfCloser DEF SupervisorJobs
  <2> QED BY <2>1, <2>2
<1> HIDE DEF job
<1> QED BY <1>1, <1>2, NextJobType

\* ... or knows as well whether lessons came of it.
LEMMA AdvanceBoth ==
    ASSUME ClosureTypeOK, NEW p \in Closers, closing[p].at \in Labels,
           NEW label \in Labels, NEW evidence \in SUBSET Evidence, NEW lessons \in BOOLEAN,
           closing' = [closing EXCEPT ![p].at = label, ![p].evidence = evidence, ![p].lessons = lessons]
    PROVE  /\ ClosingTypeOK'
           /\ closing'[p].at = label
           /\ closing'[p].evidence = evidence
           /\ closing'[p].lessons = lessons
           /\ p = "scheduler" => closing'[p].question = closing[p].question
           /\ \A x \in Closers : x # p => closing'[x] = closing[x]
<1> DEFINE job == [closing[p] EXCEPT !.at = label, !.evidence = evidence, !.lessons = lessons]
<1>1. closing' = [closing EXCEPT ![p] = job]
  BY DEF ClosureTypeOK
<1>2. /\ job.at = label /\ job.evidence = evidence /\ job.lessons = lessons
      /\ p = "scheduler" => job.question = closing[p].question
      /\ p \in Members => job \in SupervisorJobs
      /\ p = "scheduler" => job \in SchedulerJobs
  <2>1. CASE p = "scheduler"
    BY <2>1, JobOfCloser, BatchAssumption DEF SchedulerJobs
  <2>2. CASE p # "scheduler"
    BY <2>2, JobOfCloser DEF SupervisorJobs
  <2> QED BY <2>1, <2>2
<1> HIDE DEF job
<1> QED BY <1>1, <1>2, NextJobType

-----------------------------------------------------------------------------
(* The Skill Bank.                                                           *)

Good(evidence) == evidence \subseteq Gathered /\ Pattern(evidence)

\* What is in the manifest, handed off, reviewed or promoted was a pattern of
\* recorded lessons.
BankInv ==
    /\ manifest # NoFile => Good(manifest)
    /\ handoff # NoFile => Good(handoff)
    /\ review # NoFile => Good(review)
    /\ \A evidence \in promoted : Good(evidence)

\* And so is what a closing has in hand, if lessons came of it or may yet.
CloserInv(p) ==
    /\ closing[p].at \in {"gather", "writeShort"} => ~closing[p].lessons
    /\ closing[p].at = "writeManifest" => Good(closing[p].evidence)
    /\ closing[p].at = "reconcile" => manifest # NoFile
    /\ closing[p].at = "conclude" => /\ result # NoFile
                                     /\ closing[p].lessons => Good(closing[p].evidence)
    /\ p \in Members /\ closing[p].at = "done" => result # NoFile

\* A step of p that keeps all this, and manifest and result once there is one.
Closes(p) ==
    /\ BankTypeOK' /\ ClosingTypeOK' /\ BankInv' /\ CloserInv(p)'
    /\ closing[p].at \in Labels /\ closing'[p].at \in Labels
    /\ result # NoFile => result' # NoFile
    /\ manifest # NoFile => manifest' # NoFile
    /\ closing'[p].at = "done" => result' # NoFile
    /\ p = "scheduler" => closing'[p].question = closing[p].question
    /\ \A x \in Closers : x # p => closing'[x] = closing[x]

LEMMA SameGood ==
    ASSUME UNCHANGED attributions, NEW evidence
    PROVE  Good(evidence)' <=> Good(evidence)
BY DEF Good, Gathered, Pattern, Tasks

LEMMA GatherCloses ==
    ASSUME ClosureTypeOK, BankInv, NEW p \in Closers, CloserInv(p), Gather(p)
    PROVE  Closes(p)
<1> DEFINE evidence == Gathered
<1>1. closing[p].at = "gather" /\ closing[p].at \in Labels /\ ~closing[p].lessons
  BY DEF Gather, CloserInv, Labels
<1>2. evidence \in SUBSET Evidence
  BY GatheredType DEF ClosureTypeOK, BankTypeOK
<1>3. /\ UNCHANGED <<attributions, manifest, result, handoff, review, promoted>>
  BY DEF Gather, bankVars
<1>4. BankTypeOK' /\ BankInv'
  BY <1>3, SameGood DEF ClosureTypeOK, BankTypeOK, BankInv
<1>5. Gathered' = Gathered
  BY <1>3 DEF Gathered
<1>6. CASE /\ Pattern(evidence) /\ manifest = NoFile /\ result = NoFile
           /\ closing' = [closing EXCEPT ![p].at = "writeManifest", ![p].evidence = evidence]
  <2>1. /\ ClosingTypeOK' /\ closing'[p].at = "writeManifest"
        /\ closing'[p].evidence = evidence
        /\ p = "scheduler" => closing'[p].question = closing[p].question
        /\ \A x \in Closers : x # p => closing'[x] = closing[x]
    BY <1>1, <1>2, <1>6, AdvanceEvidence DEF Labels
  <2>2. Good(closing[p].evidence)'
    BY <1>5, <1>6, <2>1 DEF Good
  <2>3. CloserInv(p)'
    BY <2>1, <2>2 DEF CloserInv
  <2> QED BY <1>1, <1>3, <1>4, <2>1, <2>3 DEF Closes, Labels
<1>7. CASE /\ ~Pattern(evidence) /\ result = NoFile
           /\ closing' = [closing EXCEPT ![p].at = "writeShort", ![p].evidence = evidence]
  <2> QED BY <1>1, <1>2, <1>3, <1>4, <1>7, AdvanceEvidence DEF Closes, CloserInv, Good, Labels
<1>8. CASE /\ closing' = [closing EXCEPT ![p].at = "conclude", ![p].evidence = evidence,
                                         ![p].lessons = result.lessons]
           /\ result \in Results /\ (result.lessons => Pattern(evidence))
  <2>1. result.lessons \in BOOLEAN /\ result # NoFile
    BY <1>8, BatchAssumption DEF Results
  <2>2. /\ ClosingTypeOK' /\ closing'[p].at = "conclude"
        /\ closing'[p].evidence = evidence /\ closing'[p].lessons = result.lessons
        /\ p = "scheduler" => closing'[p].question = closing[p].question
        /\ \A x \in Closers : x # p => closing'[x] = closing[x]
    BY <1>1, <1>2, <1>8, <2>1, AdvanceBoth DEF Labels
  <2>3. closing'[p].lessons => Good(closing[p].evidence)'
    BY <1>5, <1>8, <2>2 DEF Good
  <2>4. CloserInv(p)'
    BY <1>3, <2>1, <2>2, <2>3 DEF CloserInv
  <2> QED BY <1>1, <1>3, <1>4, <2>1, <2>2, <2>4 DEF Closes, Labels
<1>9. result # NoFile => result \in Results
  BY DEF ClosureTypeOK, BankTypeOK
<1>10. result = Short(evidence) => result \in Results /\ ~result.lessons
  BY <1>2, ResultType
<1> QED BY <1>6, <1>7, <1>8, <1>9, <1>10 DEF Gather

LEMMA WriteManifestCloses ==
    ASSUME ClosureTypeOK, BankInv, NEW p \in Closers, CloserInv(p), WriteManifest(p)
    PROVE  Closes(p)
<1>1. /\ closing[p].at = "writeManifest" /\ closing[p].at \in Labels
      /\ "reconcile" \in Labels
  BY DEF WriteManifest, Labels
<1>2. /\ ClosingTypeOK' /\ closing'[p].at = "reconcile"
      /\ closing'[p].evidence = closing[p].evidence
      /\ p = "scheduler" => closing'[p].question = closing[p].question
      /\ \A x \in Closers : x # p => closing'[x] = closing[x]
  BY <1>1, AdvanceAt DEF WriteManifest
<1>3. /\ UNCHANGED <<attributions, result, handoff, review, promoted>>
      /\ manifest' = closing[p].evidence
  BY DEF WriteManifest
<1>4. manifest' \in SUBSET Evidence /\ manifest' # NoFile
  BY <1>1, <1>3, JobOfCloser, BatchAssumption
<1>5. Good(manifest)'
  BY <1>1, <1>3 DEF CloserInv, Good, Gathered, Pattern, Tasks
<1>6. BankTypeOK' /\ BankInv'
  BY <1>3, <1>4, <1>5, SameGood DEF ClosureTypeOK, BankTypeOK, BankInv
<1>7. CloserInv(p)'
  BY <1>2, <1>4 DEF CloserInv
<1> QED BY <1>1, <1>2, <1>3, <1>4, <1>6, <1>7 DEF Closes

LEMMA ReconcileCloses ==
    ASSUME ClosureTypeOK, BankInv, NEW p \in Closers, CloserInv(p), Reconcile(p)
    PROVE  Closes(p)
<1>1. /\ closing[p].at = "reconcile" /\ closing[p].at \in Labels
      /\ "conclude" \in Labels
  BY DEF Reconcile, Labels
<1>2. PICK lessons \in BOOLEAN :
          /\ result' = Reconciled(manifest, lessons)
          /\ closing' = [closing EXCEPT ![p].at = "conclude",
                 ![p].evidence = manifest, ![p].lessons = lessons]
  BY DEF Reconcile
<1>9. manifest \in SUBSET Evidence /\ Good(manifest)
  BY <1>1 DEF CloserInv, BankInv, ClosureTypeOK, BankTypeOK
<1>3. /\ ClosingTypeOK' /\ closing'[p].at = "conclude"
      /\ closing'[p].evidence = manifest
      /\ p = "scheduler" => closing'[p].question = closing[p].question
      /\ \A x \in Closers : x # p => closing'[x] = closing[x]
  BY <1>1, <1>2, <1>9, AdvanceBoth
<1>4. UNCHANGED <<attributions, manifest, handoff, review, promoted>>
  BY DEF Reconcile
<1>5. result' \in Results /\ result' # NoFile
  BY <1>2, <1>9, ResultType, BatchAssumption
<1>6. BankTypeOK' /\ BankInv'
  BY <1>4, <1>5, SameGood DEF ClosureTypeOK, BankTypeOK, BankInv
<1>7. Good(closing[p].evidence)'
  BY <1>3, <1>4, <1>9 DEF Good, Gathered, Pattern, Tasks
<1>8. CloserInv(p)'
  BY <1>3, <1>5, <1>7 DEF CloserInv
<1> QED BY <1>1, <1>3, <1>4, <1>5, <1>6, <1>8 DEF Closes

LEMMA WriteShortCloses ==
    ASSUME ClosureTypeOK, BankInv, NEW p \in Closers, CloserInv(p), WriteShort(p)
    PROVE  Closes(p)
<1>1. /\ closing[p].at = "writeShort" /\ closing[p].at \in Labels
      /\ "conclude" \in Labels
  BY DEF WriteShort, Labels
<1>2. /\ ClosingTypeOK' /\ closing'[p].at = "conclude"
      /\ closing'[p].lessons = closing[p].lessons
      /\ p = "scheduler" => closing'[p].question = closing[p].question
      /\ \A x \in Closers : x # p => closing'[x] = closing[x]
  BY <1>1, AdvanceAt DEF WriteShort
<1>3. UNCHANGED <<attributions, manifest, handoff, review, promoted>>
  BY DEF WriteShort
<1>4. result' \in Results /\ result' # NoFile
  BY <1>1, JobOfCloser, ResultType, BatchAssumption DEF WriteShort
<1>5. BankTypeOK' /\ BankInv'
  BY <1>3, <1>4, SameGood DEF ClosureTypeOK, BankTypeOK, BankInv
<1>6. CloserInv(p)'
  BY <1>1, <1>2, <1>4 DEF CloserInv
<1> QED BY <1>1, <1>2, <1>3, <1>4, <1>5, <1>6 DEF Closes

LEMMA ConcludeCloses ==
    ASSUME ClosureTypeOK, BankInv, NEW p \in Closers, CloserInv(p),
           Conclude(p) \/ HandOff(p) \/ Evaluate(p)
    PROVE  Closes(p)
<1>1. /\ closing[p].at = "conclude" /\ closing[p].at \in Labels
      /\ "done" \in Labels
  BY DEF Conclude, HandOff, Evaluate, NeedsEvaluation, Labels
<1>2. /\ ClosingTypeOK' /\ closing'[p].at = "done"
      /\ p = "scheduler" => closing'[p].question = closing[p].question
      /\ \A x \in Closers : x # p => closing'[x] = closing[x]
  BY <1>1, AdvanceAt DEF Conclude, HandOff, Evaluate
<1>3. UNCHANGED <<attributions, manifest, result>> /\ result # NoFile
  BY <1>1 DEF Conclude, HandOff, Evaluate, CloserInv, bankVars
<1>4. closing[p].evidence \in SUBSET Evidence
  BY <1>1, JobOfCloser
<1>5. BankTypeOK' /\ BankInv'
  <2>1. CASE Conclude(p)
    BY <2>1, SameGood DEF Conclude, bankVars, ClosureTypeOK, BankTypeOK, BankInv
  <2>2. CASE HandOff(p)
    <3>1. Good(closing[p].evidence)
      BY <1>1, <2>2 DEF HandOff, NeedsEvaluation, CloserInv
    <3>2. Good(handoff)'
      BY <2>2, <3>1 DEF HandOff, Good, Gathered, Pattern, Tasks
    <3>3. UNCHANGED <<review, promoted>> /\ handoff' = closing[p].evidence
      BY <2>2 DEF HandOff
    <3> QED BY <1>3, <1>4, <3>2, <3>3, SameGood DEF ClosureTypeOK, BankTypeOK, BankInv
  <2>3. CASE Evaluate(p)
    <3>1. /\ review # NoFile /\ UNCHANGED <<handoff, review>>
          /\ promoted' \subseteq promoted \cup {review}
      BY <2>3 DEF Evaluate
    <3>2. \A evidence \in promoted' : Good(evidence)
      BY <3>1 DEF BankInv
    <3>3. BankInv'
      BY <1>3, <3>1, <3>2, SameGood DEF BankInv
    <3> QED BY <1>3, <3>1, <3>3 DEF ClosureTypeOK, BankTypeOK
  <2> QED BY <2>1, <2>2, <2>3
<1>6. CloserInv(p)'
  BY <1>2, <1>3 DEF CloserInv
<1> QED BY <1>1, <1>2, <1>3, <1>5, <1>6 DEF Closes

LEMMA CloseStepCloses ==
    ASSUME ClosureTypeOK, BankInv, NEW p \in Closers, CloserInv(p), CloseStep(p)
    PROVE  Closes(p) /\ UNCHANGED attributions
BY GatherCloses, WriteManifestCloses, ReconcileCloses, WriteShortCloses, ConcludeCloses
   DEF CloseStep, Gather, WriteManifest, Reconcile, WriteShort, Conclude, HandOff, Evaluate

-----------------------------------------------------------------------------
(* The final traces.                                                         *)

TraceInv == \A q \in Members : trace[q] # Missing => trace[q].parts = Parts

LEMMA StagingStep ==
    ASSUME PublicationTypeOK,
           StageArtifacts \/ StageManifest \/ (\E q \in Members : Validate(q))
    PROVE  PublicationTypeOK' /\ UNCHANGED <<family, extras, trace>>
<1>1. CASE StageArtifacts
  <2> DEFINE content == [staging.content EXCEPT !.extras = extras[staging.question]]
             whole == [content EXCEPT !.parts = @ \cup {"artifacts"}]
  <2>1. staging \in Stagings
    BY <1>1 DEF StageArtifacts, PublicationTypeOK
  <2>2. staging.content \in Traces /\ staging.question \in Published
    BY <2>1 DEF Stagings
  <2>3. content \in Traces
    BY <2>2 DEF PublicationTypeOK, Traces
  <2>4. whole \in Traces
    <3> HIDE DEF content
    <3> QED BY <2>3 DEF Traces, Parts
  <2>5. staging' = [staging EXCEPT !.content = whole] /\ UNCHANGED <<family, extras, trace>>
    BY <1>1 DEF StageArtifacts, Stage
  <2> HIDE DEF whole
  <2> QED BY <2>1, <2>4, <2>5 DEF PublicationTypeOK, Stagings
<1>2. CASE StageManifest
  <2> DEFINE content == [staging.content EXCEPT !.family = family[staging.question]]
             whole == [content EXCEPT !.parts = @ \cup {"manifest"}]
  <2>1. staging \in Stagings
    BY <1>2 DEF StageManifest, PublicationTypeOK
  <2>2. staging.content \in Traces /\ staging.question \in Published
    BY <2>1 DEF Stagings
  <2>3. content \in Traces
    BY <2>2 DEF PublicationTypeOK, Traces
  <2>4. whole \in Traces
    <3> HIDE DEF content
    <3> QED BY <2>3 DEF Traces, Parts
  <2>5. staging' = [staging EXCEPT !.content = whole] /\ UNCHANGED <<family, extras, trace>>
    BY <1>2 DEF StageManifest, Stage
  <2> HIDE DEF whole
  <2> QED BY <2>1, <2>4, <2>5 DEF PublicationTypeOK, Stagings
<1>3. ASSUME NEW q \in Members, Validate(q)
      PROVE  PublicationTypeOK' /\ UNCHANGED <<family, extras, trace>>
  BY <1>3, ClosureAssumption DEF Validate, PublicationTypeOK, Stagings, Traces
<1> QED BY <1>1, <1>2, <1>3

\* The trace of q is all there after it is published, and was the same before if it
\* was there; no other trace changes.
LEMMA PublishStep ==
    ASSUME PublicationTypeOK, TraceInv, NEW q \in Members, Publish(q)
    PROVE  /\ PublicationTypeOK' /\ TraceInv'
           /\ trace'[q] # Missing
           /\ \A x \in Members : trace[x] # Missing => trace'[x] = trace[x]
<1>1. staging \in Stagings
  BY DEF Publish, PublicationTypeOK
<1>2. staging.content \in Traces /\ staging.content # Missing /\ staging.content.parts = Parts
  BY <1>1, PublicationAssumption DEF Publish, Stagings
<1>3. CASE trace[q] = Missing /\ trace' = [trace EXCEPT ![q] = staging.content]
  BY <1>2, <1>3, ClosureAssumption DEF Publish, PublicationTypeOK, TraceInv
<1>4. CASE trace[q] # Missing /\ UNCHANGED trace
  BY <1>4 DEF Publish, PublicationTypeOK, TraceInv
<1> QED BY <1>3, <1>4 DEF Publish

-----------------------------------------------------------------------------
(* The whole.                                                                *)

\* How far the supervisor of q is with its attribution.
SupervisorInv(q) ==
    /\ phase[q] # "RUNNING" => audits[q] \in Attributions
    /\ closing[q] # Idle => phase[q] = "ATTRIBUTION"
    /\ closing[q] # Idle /\ audits[q] \in Lessons => audits[q] \in attributions[q]
    /\ closing[q].at \in Labels => <<q, revision[q], audits[q]>> \in recorded
    /\ phase[q] = "FINISHED" =>
           /\ audits[q] \in Lessons => audits[q] \in attributions[q]
           /\ <<q, revision[q], audits[q]>> \in recorded
           /\ result # NoFile

\* How far the scheduler is with the question it binds.
BindInv ==
    /\ closing["scheduler"].at \in Labels => trace[closing["scheduler"].question] # Missing
    /\ closing["scheduler"].at = "done" /\ LastOfBatch(closing["scheduler"].question) =>
           result # NoFile

IInv ==
    /\ ClosureTypeOK
    /\ BankInv
    /\ \A p \in Closers : CloserInv(p)
    /\ \A q \in Members : SupervisorInv(q)
    /\ TraceInv
    /\ BindInv
    /\ CompletedIsSealed

LEMMA CloseStepKeeps ==
    ASSUME IInv, NEW p \in Closers, CloseStep(p), UNCHANGED <<publicationVars, closureVars>>
    PROVE  IInv'
<1>1. Closes(p) /\ UNCHANGED attributions
  BY CloseStepCloses DEF IInv
<1>2. UNCHANGED <<family, extras, trace, staging, revision, audits, recorded, phase, board>>
  BY DEF publicationVars, closureVars
<1>3. ClosureTypeOK'
  BY <1>1, <1>2 DEF IInv, ClosureTypeOK, Closes, ClosingTypeOK, PublicationTypeOK
<1>4. ASSUME NEW x \in Closers PROVE CloserInv(x)'
  <2>1. CASE x = p
    BY <1>1, <2>1 DEF Closes
  <2>2. CASE x # p
    <3>1. /\ closing'[x] = closing[x] /\ CloserInv(x)
          /\ (result # NoFile => result' # NoFile) /\ (manifest # NoFile => manifest' # NoFile)
      BY <1>1, <2>2 DEF Closes, IInv
    <3>2. Good(closing[x].evidence) => Good(closing[x].evidence)'
      BY <1>1, <3>1 DEF Good, Gathered, Pattern, Tasks
    <3> QED BY <3>1, <3>2 DEF CloserInv
  <2> QED BY <2>1, <2>2
<1>5. ASSUME NEW q \in Members PROVE SupervisorInv(q)'
  <2>1. q \in Closers /\ SupervisorInv(q)
    BY DEF Closers, IInv
  <2>2. CASE q = p
    <3>1. closing[q] # Idle /\ closing[q].at \in Labels
      BY <1>1, <2>2 DEF Closes, Idle, Labels
    <3> QED BY <1>1, <1>2, <2>1, <3>1 DEF SupervisorInv, Closes
  <2>3. CASE q # p
    BY <1>1, <1>2, <2>1, <2>3 DEF SupervisorInv, Closes
  <2> QED BY <2>2, <2>3
<1>6. BindInv'
  <2>1. CASE p = "scheduler"
    BY <1>1, <1>2, <2>1 DEF BindInv, Closes, IInv, LastOfBatch
  <2>2. CASE p # "scheduler"
    BY <1>1, <1>2, <2>2 DEF BindInv, Closes, IInv, LastOfBatch, Closers
  <2> QED BY <2>1, <2>2
<1>7. TraceInv' /\ CompletedIsSealed'
  BY <1>1, <1>2 DEF TraceInv, CompletedIsSealed, IInv, Closes
<1> QED BY <1>1, <1>3, <1>4, <1>5, <1>6, <1>7 DEF IInv, Closes

LEMMA ReviewKeeps ==
    ASSUME IInv, Review, UNCHANGED <<publicationVars, closureVars>>
    PROVE  IInv'
<1>1. /\ UNCHANGED <<attributions, manifest, result, handoff, promoted, closing>>
      /\ UNCHANGED <<family, extras, trace, staging, revision, audits, recorded, phase, board>>
      /\ review' = handoff /\ handoff # NoFile
  BY DEF Review, publicationVars, closureVars
<1>2. ClosureTypeOK'
  BY <1>1 DEF IInv, ClosureTypeOK, BankTypeOK, PublicationTypeOK
<1>3. Good(handoff)' /\ BankInv'
  BY <1>1, SameGood DEF IInv, BankInv, Good, Gathered, Pattern, Tasks
<1>4. \A p \in Closers : CloserInv(p)'
  BY <1>1 DEF IInv, CloserInv, Good, Gathered, Pattern, Tasks
<1>5. \A q \in Members : SupervisorInv(q)'
  BY <1>1 DEF IInv, SupervisorInv
<1>6. TraceInv' /\ BindInv' /\ CompletedIsSealed'
  BY <1>1 DEF IInv, TraceInv, BindInv, CompletedIsSealed, LastOfBatch
<1> QED BY <1>2, <1>3, <1>4, <1>5, <1>6 DEF IInv

\* A step that leaves the Bank and the pool alone keeps what is true of closings that
\* it does not touch.
LEMMA CloserUntouched ==
    ASSUME UNCHANGED <<attributions, bankVars>>, NEW p \in Closers, CloserInv(p),
           closing'[p] = closing[p]
    PROVE  CloserInv(p)'
BY DEF CloserInv, bankVars, Good, Gathered, Pattern, Tasks

LEMMA BankUntouched ==
    ASSUME UNCHANGED <<attributions, bankVars>>, BankInv, BankTypeOK
    PROVE  BankInv' /\ BankTypeOK'
BY SameGood DEF BankInv, BankTypeOK, bankVars

LEMMA AuditKeeps ==
    ASSUME IInv, NEW q \in Members, Audit(q) \/ Revise(q)
    PROVE  IInv'
<1>1. /\ UNCHANGED <<batchVars, publicationVars, recorded, board>>
      /\ phase[q] \in {"RUNNING", "FINISHED"} /\ phase'[q] \in {"ATTRIBUTION", "RUNNING"}
      /\ phase'[q] # "RUNNING" => audits'[q] \in Attributions
      /\ \A x \in Members : x # q => /\ phase'[x] = phase[x] /\ audits'[x] = audits[x]
                                     /\ revision'[x] = revision[x]
      /\ revision' \in [Members -> Nat]
      /\ audits' \in [Members -> Attributions \cup {NoFile}]
      /\ phase' \in [Members -> {"RUNNING", "ATTRIBUTION", "FINISHED"}]
  BY DEF Audit, Revise, IInv, ClosureTypeOK
<1>2. UNCHANGED <<attributions, bankVars, closing, family, extras, trace, staging, result>>
  BY <1>1 DEF batchVars, bankVars, publicationVars
<1>3. ClosureTypeOK'
  BY <1>1, <1>2, BankUntouched DEF IInv, ClosureTypeOK, PublicationTypeOK
<1>4. BankInv' /\ \A p \in Closers : CloserInv(p)'
  BY <1>2, BankUntouched, CloserUntouched DEF IInv, ClosureTypeOK
<1>5. ASSUME NEW x \in Members PROVE SupervisorInv(x)'
  <2>1. SupervisorInv(x)
    BY DEF IInv
  <2>2. CASE x = q
    <3>1. closing[q] = Idle /\ phase'[q] # "FINISHED"
      BY <1>1, <2>1, <2>2 DEF SupervisorInv
    <3> QED BY <1>1, <1>2, <2>2, <3>1 DEF SupervisorInv, Idle, Labels
  <2>3. CASE x # q
    BY <1>1, <1>2, <2>1, <2>3 DEF SupervisorInv
  <2> QED BY <2>2, <2>3
<1>6. TraceInv' /\ BindInv' /\ CompletedIsSealed'
  BY <1>1, <1>2 DEF IInv, TraceInv, BindInv, CompletedIsSealed, LastOfBatch
<1> QED BY <1>3, <1>4, <1>5, <1>6 DEF IInv

\* A lesson only adds to the pool.
LEMMA RecordLessonKeeps ==
    ASSUME IInv, NEW q \in Members, RecordLesson(q)
    PROVE  IInv'
<1> DEFINE job == [at |-> "record"]
<1>1. /\ UNCHANGED <<bankVars, publicationVars, closureVars>>
      /\ closing' = [closing EXCEPT ![q] = job]
      /\ phase[q] = "ATTRIBUTION" /\ closing[q] = Idle
  BY DEF RecordLesson
<1>2. /\ UNCHANGED <<manifest, result, handoff, review, promoted, family, extras, trace, staging>>
      /\ UNCHANGED <<revision, audits, recorded, phase, board>>
  BY <1>1 DEF bankVars, publicationVars, closureVars
<1>3. /\ attributions' \in [Members -> SUBSET Lessons]
      /\ \A x \in Members : attributions[x] \subseteq attributions'[x]
      /\ audits[q] \in Lessons => audits[q] \in attributions'[q]
  BY DEF RecordLesson, Record, IInv, ClosureTypeOK, BankTypeOK
<1>4. Gathered \subseteq Gathered'
  BY <1>3, PoolGrows DEF IInv, ClosureTypeOK, BankTypeOK
<1>5. q \in Closers /\ q # "scheduler" /\ job \in SupervisorJobs
  BY BatchAssumption DEF Closers, SupervisorJobs
<1>6. ClosingTypeOK' /\ closing'[q] = job /\ \A x \in Closers : x # q => closing'[x] = closing[x]
  <2> HIDE DEF job
  <2> QED BY <1>1, <1>5, NextJobType DEF IInv
<1>7. ClosureTypeOK'
  BY <1>2, <1>3, <1>6 DEF IInv, ClosureTypeOK, ClosingTypeOK, BankTypeOK, PublicationTypeOK
<1>8. BankInv'
  <2>1. \A evidence : Good(evidence) => evidence \subseteq Gathered' /\ Pattern(evidence)
    BY <1>4 DEF Good
  <2> QED BY <1>2, <2>1 DEF IInv, BankInv, Good, Pattern, Tasks
<1>9. ASSUME NEW p \in Closers PROVE CloserInv(p)'
  <2>1. CASE p = q
    BY <1>6, <2>1 DEF CloserInv
  <2>2. CASE p # q
    BY <1>2, <1>4, <1>6, <2>2 DEF IInv, CloserInv, Good, Pattern, Tasks
  <2> QED BY <2>1, <2>2
<1>10. ASSUME NEW x \in Members PROVE SupervisorInv(x)'
  <2>1. SupervisorInv(x) /\ x \in Closers
    BY DEF IInv, Closers
  <2>2. CASE x = q
    BY <1>1, <1>2, <1>3, <1>6, <2>1, <2>2 DEF SupervisorInv, Labels
  <2>3. CASE x # q
    BY <1>2, <1>3, <1>6, <2>1, <2>3 DEF SupervisorInv
  <2> QED BY <2>2, <2>3
<1>11. TraceInv' /\ BindInv' /\ CompletedIsSealed'
  BY <1>2, <1>5, <1>6 DEF IInv, TraceInv, BindInv, CompletedIsSealed, LastOfBatch, Closers
<1> QED BY <1>7, <1>8, <1>9, <1>10, <1>11 DEF IInv

LEMMA RecordRevisionKeeps ==
    ASSUME IInv, NEW q \in Members, RecordRevision(q)
    PROVE  IInv'
<1>1. /\ closing[q].at = "record"
      /\ recorded' = recorded \cup {<<q, revision[q], audits[q]>>}
      /\ closing' = [closing EXCEPT ![q] = Begin]
      /\ UNCHANGED <<attributions, bankVars, publicationVars, revision, audits, phase, board>>
  BY DEF RecordRevision
<1>2. UNCHANGED <<manifest, result, handoff, review, promoted, family, extras, trace, staging>>
  BY <1>1 DEF bankVars, publicationVars
<1>3. q \in Closers /\ q # "scheduler" /\ Begin \in SupervisorJobs
  BY BatchAssumption DEF Closers, SupervisorJobs, Begin, Labels
<1>4. /\ ClosingTypeOK' /\ closing'[q] = Begin
      /\ \A x \in Closers : x # q => closing'[x] = closing[x]
  BY <1>1, <1>3, NextJobType DEF IInv
<1>5. closing[q] # Idle
  BY <1>1 DEF Idle
<1>6. ClosureTypeOK'
  <2>1. audits[q] \in Attributions
    BY <1>5 DEF IInv, SupervisorInv
  <2> QED BY <1>1, <1>2, <1>4, <2>1, BankUntouched
          DEF IInv, ClosureTypeOK, ClosingTypeOK, PublicationTypeOK
<1>7. BankInv' /\ \A p \in Closers : CloserInv(p)'
  <2>1. CloserInv(q)'
    BY <1>4, <1>3 DEF CloserInv, Begin
  <2> QED BY <1>1, <1>4, <2>1, BankUntouched, CloserUntouched DEF IInv, ClosureTypeOK
<1>8. ASSUME NEW x \in Members PROVE SupervisorInv(x)'
  <2>1. SupervisorInv(x) /\ x \in Closers
    BY DEF IInv, Closers
  <2>2. CASE x = q
    BY <1>1, <1>2, <1>5, <2>1, <2>2 DEF SupervisorInv
  <2>3. CASE x # q
    BY <1>1, <1>2, <1>4, <2>1, <2>3 DEF SupervisorInv
  <2> QED BY <2>2, <2>3
<1>9. TraceInv' /\ BindInv' /\ CompletedIsSealed'
  BY <1>1, <1>2, <1>3, <1>4 DEF IInv, TraceInv, BindInv, CompletedIsSealed, LastOfBatch, Closers
<1> QED BY <1>6, <1>7, <1>8, <1>9 DEF IInv

LEMMA FinishKeeps ==
    ASSUME IInv, NEW q \in Members, Finish(q)
    PROVE  IInv'
<1>1. /\ closing[q].at = "done" /\ closing' = [closing EXCEPT ![q] = Idle]
      /\ phase' = [phase EXCEPT ![q] = "FINISHED"]
      /\ UNCHANGED <<attributions, bankVars, publicationVars, revision, audits, recorded, board>>
  BY DEF Finish, Abandoned
<1>2. UNCHANGED <<manifest, result, handoff, review, promoted, family, extras, trace, staging>>
  BY <1>1 DEF bankVars, publicationVars
<1>3. q \in Closers /\ q # "scheduler" /\ Idle \in SupervisorJobs
  BY BatchAssumption DEF Closers, SupervisorJobs
<1>4. /\ ClosingTypeOK' /\ closing'[q] = Idle
      /\ \A x \in Closers : x # q => closing'[x] = closing[x]
  BY <1>1, <1>3, NextJobType DEF IInv
<1>5. closing[q] # Idle /\ closing[q].at \in Labels
  BY <1>1 DEF Idle, Labels
<1>6. ClosureTypeOK'
  BY <1>1, <1>2, <1>4, BankUntouched DEF IInv, ClosureTypeOK, ClosingTypeOK, PublicationTypeOK
<1>7. BankInv' /\ \A p \in Closers : CloserInv(p)'
  <2>1. CloserInv(q)'
    BY <1>4 DEF CloserInv, Idle
  <2> QED BY <1>1, <1>4, <2>1, BankUntouched, CloserUntouched DEF IInv, ClosureTypeOK
<1>8. ASSUME NEW x \in Members PROVE SupervisorInv(x)'
  <2>1. SupervisorInv(x) /\ x \in Closers
    BY DEF IInv, Closers
  <2>2. CASE x = q
    <3>1. result # NoFile
      BY <1>1, <1>3 DEF IInv, CloserInv
    <3>2. closing'[q].at \notin Labels /\ audits[q] \in Attributions
      BY <1>4, <1>5, <2>1, <2>2 DEF SupervisorInv, Idle, Labels
    <3> QED BY <1>1, <1>2, <1>4, <1>5, <2>1, <2>2, <3>1, <3>2 DEF SupervisorInv
  <2>3. CASE x # q
    <3>1. phase'[x] = phase[x] /\ closing'[x] = closing[x]
      BY <1>1, <1>4, <2>1, <2>3 DEF IInv, ClosureTypeOK
    <3> QED BY <1>1, <1>2, <2>1, <3>1 DEF SupervisorInv
  <2> QED BY <2>2, <2>3
<1>9. TraceInv' /\ BindInv' /\ CompletedIsSealed'
  BY <1>1, <1>2, <1>3, <1>4 DEF IInv, TraceInv, BindInv, CompletedIsSealed, LastOfBatch, Closers
<1> QED BY <1>6, <1>7, <1>8, <1>9 DEF IInv

\* Whoever dies has nothing in hand.
LEMMA AbandonKeeps ==
    ASSUME IInv, NEW p \in Closers, Abandon(p)
    PROVE  IInv'
<1>1. /\ closing' = [closing EXCEPT ![p] = Idle]
      /\ staging' \in {Missing, staging}
      /\ UNCHANGED <<attributions, bankVars, family, extras, trace, closureVars>>
  BY DEF Abandon, Abandoned
<1>2. /\ UNCHANGED <<manifest, result, handoff, review, promoted>>
      /\ UNCHANGED <<revision, audits, recorded, phase, board>>
  BY <1>1 DEF bankVars, closureVars
<1>3. Idle \in SupervisorJobs /\ Idle \in SchedulerJobs
  BY DEF SupervisorJobs, SchedulerJobs
<1>4. /\ ClosingTypeOK' /\ closing'[p] = Idle
      /\ \A x \in Closers : x # p => closing'[x] = closing[x]
  BY <1>1, <1>3, NextJobType DEF IInv
<1>5. ClosureTypeOK'
  BY <1>1, <1>2, <1>4, BankUntouched DEF IInv, ClosureTypeOK, ClosingTypeOK, PublicationTypeOK
<1>6. BankInv' /\ \A x \in Closers : CloserInv(x)'
  <2>1. CloserInv(p)'
    BY <1>4 DEF CloserInv, Idle
  <2> QED BY <1>1, <1>4, <2>1, BankUntouched, CloserUntouched DEF IInv, ClosureTypeOK
<1>7. ASSUME NEW x \in Members PROVE SupervisorInv(x)'
  <2>1. SupervisorInv(x) /\ x \in Closers /\ Idle.at \notin Labels
    BY DEF IInv, Closers, Idle, Labels
  <2> QED BY <1>1, <1>2, <1>4, <2>1 DEF SupervisorInv
<1>8. TraceInv' /\ CompletedIsSealed'
  BY <1>1, <1>2 DEF IInv, TraceInv, CompletedIsSealed
<1>9. BindInv'
  <2>1. "scheduler" \in Closers /\ Idle.at \notin Labels /\ Idle.at # "done"
    BY DEF Closers, Idle, Labels
  <2> QED BY <1>1, <1>2, <1>4, <2>1 DEF IInv, BindInv, LastOfBatch
<1> QED BY <1>5, <1>6, <1>7, <1>8, <1>9 DEF IInv

\* Outside a bind: the run completes, the family changes, evidence turns up.
LEMMA OutsideKeeps ==
    ASSUME IInv, NEW q \in Members,
           \/ RunCompletes(q)
           \/ (EditFamily(q) \/ AddExtras(q)) /\ UNCHANGED <<batchVars, closureVars>>
    PROVE  IInv'
<1>1. /\ UNCHANGED <<attributions, bankVars, closing, trace, staging>>
      /\ UNCHANGED <<result, revision, audits, recorded, phase>>
      /\ board' \in [Members -> {"LEASED", "PUBLICATION_PENDING", "COMPLETED"}]
      /\ \A x \in Members : board'[x] = "COMPLETED" => board[x] = "COMPLETED"
      /\ family' \in [Published -> Nat] /\ extras' \in [Published -> BOOLEAN]
  <2>1. CASE RunCompletes(q)
    BY <2>1 DEF RunCompletes, IInv, ClosureTypeOK, PublicationTypeOK, batchVars, bankVars,
                publicationVars
  <2>2. CASE (EditFamily(q) \/ AddExtras(q)) /\ UNCHANGED <<batchVars, closureVars>>
    <3>1. UNCHANGED <<attributions, bankVars, closing, trace, staging, result, revision,
                      audits, recorded, phase, board>>
      BY <2>2 DEF EditFamily, AddExtras, batchVars, bankVars, closureVars
    <3>2. family' \in [Published -> Nat]
      BY <2>2 DEF EditFamily, AddExtras, IInv, ClosureTypeOK, PublicationTypeOK
    <3>3. extras' \in [Published -> BOOLEAN]
      BY <2>2 DEF EditFamily, AddExtras, IInv, ClosureTypeOK, PublicationTypeOK
    <3> QED BY <3>1, <3>2, <3>3 DEF IInv, ClosureTypeOK
  <2> QED BY <2>1, <2>2
<1>2. ClosureTypeOK'
  BY <1>1, BankUntouched DEF IInv, ClosureTypeOK, PublicationTypeOK
<1>3. BankInv' /\ \A p \in Closers : CloserInv(p)'
  BY <1>1, BankUntouched, CloserUntouched DEF IInv, ClosureTypeOK
<1>4. \A x \in Members : SupervisorInv(x)'
  BY <1>1 DEF IInv, SupervisorInv
<1>5. TraceInv' /\ BindInv' /\ CompletedIsSealed'
  BY <1>1 DEF IInv, TraceInv, BindInv, CompletedIsSealed, LastOfBatch
<1> QED BY <1>2, <1>3, <1>4, <1>5 DEF IInv

\* The scheduler begins a bind, and fills the staging directory.
LEMMA StageKeeps ==
    ASSUME IInv, SealStep \/ (\E q \in Members : BeginBind(q))
    PROVE  IInv'
<1>1. /\ PublicationTypeOK' /\ UNCHANGED trace
      /\ UNCHANGED <<attributions, bankVars, closureVars>>
  <2>1. CASE SealStep
    BY <2>1, StagingStep DEF SealStep, IInv, ClosureTypeOK, batchVars
  <2>2. CASE \E q \in Members : BeginBind(q)
    BY <2>2, StagingStep DEF BeginBind, IInv, ClosureTypeOK
  <2> QED BY <2>1, <2>2
<1>2. /\ UNCHANGED <<manifest, result, handoff, review, promoted>>
      /\ UNCHANGED <<revision, audits, recorded, phase, board>>
  BY <1>1 DEF bankVars, closureVars
<1>3. /\ ClosingTypeOK'
      /\ closing'["scheduler"] = closing["scheduler"] \/ closing'["scheduler"].at = "seal"
      /\ \A x \in Members : closing'[x] = closing[x]
  <2>1. CASE SealStep
    BY <2>1 DEF SealStep, batchVars, IInv, ClosureTypeOK, ClosingTypeOK
  <2>2. ASSUME NEW q \in Members, BeginBind(q)
        PROVE  /\ ClosingTypeOK'
               /\ closing'["scheduler"].at = "seal"
               /\ \A x \in Members : closing'[x] = closing[x]
    <3> DEFINE job == [at |-> "seal", question |-> q]
    <3>1. job \in SchedulerJobs /\ job.at = "seal"
      BY DEF SchedulerJobs
    <3>2. closing' = [closing EXCEPT !["scheduler"] = job]
      BY <2>2 DEF BeginBind
    <3>3. "scheduler" \in Closers /\ "scheduler" \notin Members /\ Members \subseteq Closers
      BY BatchAssumption DEF Closers
    <3> HIDE DEF job
    <3> QED BY <3>1, <3>2, <3>3, NextJobType DEF IInv
  <2> QED BY <1>1, <2>1, <2>2
<1>4. ClosureTypeOK'
  BY <1>1, <1>2, <1>3, BankUntouched DEF IInv, ClosureTypeOK, ClosingTypeOK
<1>5. BankInv'
  BY <1>1, BankUntouched DEF IInv, ClosureTypeOK
<1>6. ASSUME NEW p \in Closers PROVE CloserInv(p)'
  <2>1. CASE closing'[p] = closing[p]
    BY <1>1, <2>1, CloserUntouched DEF IInv
  <2>2. CASE closing'[p].at = "seal"
    BY <2>2 DEF CloserInv
  <2> QED BY <1>3, <2>1, <2>2 DEF Closers
<1>7. \A x \in Members : SupervisorInv(x)'
  BY <1>1, <1>2, <1>3 DEF IInv, SupervisorInv
<1>8. TraceInv' /\ CompletedIsSealed'
  BY <1>1, <1>2 DEF IInv, TraceInv, CompletedIsSealed
<1>9. BindInv'
  BY <1>1, <1>2, <1>3 DEF IInv, BindInv, LastOfBatch, Labels
<1> QED BY <1>4, <1>5, <1>6, <1>7, <1>8, <1>9 DEF IInv

LEMMA SealKeeps ==
    ASSUME IInv, NEW q \in Members, Seal(q)
    PROVE  IInv'
<1> DEFINE job == [at |-> IF LastOfBatch(q) THEN "gather" ELSE "done",
                   question |-> q, evidence |-> {}, lessons |-> FALSE]
<1>1. /\ PublicationTypeOK' /\ TraceInv' /\ trace'[q] # Missing
      /\ \A x \in Members : trace[x] # Missing => trace'[x] = trace[x]
  BY PublishStep DEF Seal, IInv, ClosureTypeOK
<1>2. /\ closing' = [closing EXCEPT !["scheduler"] = job]
      /\ UNCHANGED <<attributions, bankVars, closureVars>>
  BY DEF Seal
<1>3. /\ UNCHANGED <<manifest, result, handoff, review, promoted>>
      /\ UNCHANGED <<revision, audits, recorded, phase, board>>
  BY <1>2 DEF bankVars, closureVars
<1>4. /\ job \in SchedulerJobs /\ job.at \in {"gather", "done"} /\ job.question = q
      /\ ~job.lessons /\ (job.at = "done" => ~LastOfBatch(q))
  BY DEF SchedulerJobs, Labels
<1> HIDE DEF job
<1>5. "scheduler" \in Closers /\ "scheduler" \notin Members /\ Members \subseteq Closers
  BY BatchAssumption DEF Closers
<1>6. /\ ClosingTypeOK' /\ closing'["scheduler"] = job
      /\ \A x \in Members : closing'[x] = closing[x]
  BY <1>2, <1>4, <1>5, NextJobType DEF IInv
<1>7. ClosureTypeOK'
  BY <1>1, <1>2, <1>3, <1>6, BankUntouched DEF IInv, ClosureTypeOK, ClosingTypeOK
<1>8. BankInv'
  BY <1>2, BankUntouched DEF IInv, ClosureTypeOK
<1>9. ASSUME NEW p \in Closers PROVE CloserInv(p)'
  <2>1. CASE p \in Members
    BY <1>2, <1>6, <2>1, CloserUntouched DEF IInv
  <2>2. CASE p = "scheduler"
    BY <1>4, <1>5, <1>6, <2>2 DEF CloserInv
  <2> QED BY <2>1, <2>2 DEF Closers
<1>10. \A x \in Members : SupervisorInv(x)'
  BY <1>2, <1>3, <1>6 DEF IInv, SupervisorInv
<1>11. CompletedIsSealed'
  BY <1>1, <1>3 DEF IInv, CompletedIsSealed
<1>12. BindInv'
  BY <1>1, <1>3, <1>4, <1>6 DEF BindInv, LastOfBatch
<1> QED BY <1>1, <1>7, <1>8, <1>9, <1>10, <1>11, <1>12 DEF IInv

\* The last question is completed with the batch concluded, the others before it.
LEMMA CompleteKeeps ==
    ASSUME IInv, NEW q \in Members, Complete(q)
    PROVE  IInv'
<1>1. /\ closing["scheduler"].at = "done" /\ closing["scheduler"].question = q
      /\ board' = [board EXCEPT ![q] = "COMPLETED"]
      /\ closing' = [closing EXCEPT !["scheduler"] = Idle]
      /\ UNCHANGED <<attributions, bankVars, publicationVars, revision, audits, recorded, phase>>
  BY DEF Complete, Binding, Abandoned
<1>2. UNCHANGED <<manifest, result, handoff, review, promoted, family, extras, trace, staging>>
  BY <1>1 DEF bankVars, publicationVars
<1>3. /\ "scheduler" \in Closers /\ "scheduler" \notin Members /\ Members \subseteq Closers
      /\ Idle \in SchedulerJobs /\ Idle.at \notin Labels /\ Idle.at # "done"
  BY BatchAssumption DEF Closers, SchedulerJobs, Idle, Labels
<1>4. /\ ClosingTypeOK' /\ closing'["scheduler"] = Idle
      /\ \A x \in Members : closing'[x] = closing[x]
  BY <1>1, <1>3, NextJobType DEF IInv
<1>5. ClosureTypeOK'
  BY <1>1, <1>2, <1>4, BankUntouched DEF IInv, ClosureTypeOK, ClosingTypeOK, PublicationTypeOK
<1>6. BankInv'
  BY <1>1, BankUntouched DEF IInv, ClosureTypeOK
<1>7. ASSUME NEW p \in Closers PROVE CloserInv(p)'
  <2>1. CASE p \in Members
    BY <1>1, <1>4, <2>1, CloserUntouched DEF IInv
  <2>2. CASE p = "scheduler"
    BY <1>3, <1>4, <2>2 DEF CloserInv, Idle
  <2> QED BY <2>1, <2>2 DEF Closers
<1>8. \A x \in Members : SupervisorInv(x)'
  BY <1>1, <1>2, <1>4 DEF IInv, SupervisorInv
<1>9. TraceInv' /\ BindInv'
  BY <1>1, <1>2, <1>3, <1>4 DEF IInv, TraceInv, BindInv
<1>10. CompletedIsSealed'
  <2>1. trace[q] # Missing /\ trace[q].parts = Parts
    BY <1>1 DEF IInv, BindInv, TraceInv, Labels
  <2>2. (\A x \in Members : board'[x] = "COMPLETED") => LastOfBatch(q)
    BY <1>1 DEF LastOfBatch, IInv, ClosureTypeOK
  <2>3. (\A x \in Members : board'[x] = "COMPLETED") => result # NoFile
    BY <1>1, <2>2 DEF IInv, BindInv
  <2>4. \A x \in Members : x # q => board'[x] = board[x]
    BY <1>1 DEF IInv, ClosureTypeOK
  <2> QED BY <1>2, <2>1, <2>3, <2>4 DEF IInv, CompletedIsSealed
<1> QED BY <1>5, <1>6, <1>7, <1>8, <1>9, <1>10 DEF IInv

LEMMA IInvInit == Init => IInv
<1> SUFFICES ASSUME Init PROVE IInv
  OBVIOUS
<1>1. \A p \in Closers : closing[p] = Idle
  BY DEF Init, BatchInit
<1>2. Idle \in SupervisorJobs /\ Idle \in SchedulerJobs /\ Idle.at = "idle"
  BY DEF SupervisorJobs, SchedulerJobs, Idle
<1>3. ClosureTypeOK
  <2>1. BankTypeOK
    BY BatchAssumption DEF Init, BatchInit, BankTypeOK
  <2>2. PublicationTypeOK
    BY DEF Init, PublicationInit, PublicationTypeOK
  <2>3. closing = [p \in Closers |-> Idle] /\ Members \subseteq Closers /\ "scheduler" \in Closers
    BY DEF Init, BatchInit, Closers
  <2> HIDE DEF Idle
  <2> QED BY <1>2, <2>1, <2>2, <2>3 DEF Init, ClosureTypeOK
<1>4. BankInv /\ \A p \in Closers : CloserInv(p)
  BY <1>1, <1>2 DEF Init, BatchInit, BankInv, CloserInv
<1>5. \A q \in Members : SupervisorInv(q)
  BY <1>1, <1>2 DEF Init, SupervisorInv, Closers, Labels
<1>6. TraceInv /\ BindInv
  BY <1>1, <1>2, ClosureAssumption
     DEF Init, PublicationInit, TraceInv, BindInv, Closers, Labels
<1>7. CompletedIsSealed
  BY BatchAssumption DEF Init, CompletedIsSealed
<1> QED BY <1>3, <1>4, <1>5, <1>6, <1>7 DEF IInv

LEMMA IInvStep == IInv /\ [Next]_vars => IInv'
<1> SUFFICES ASSUME IInv, [Next]_vars PROVE IInv'
  OBVIOUS
<1>1. ASSUME NEW q \in Members, SupervisorStep(q)
      PROVE  IInv'
  BY <1>1, AuditKeeps, RecordLessonKeeps, RecordRevisionKeeps, FinishKeeps DEF SupervisorStep
<1>2. CASE SchedulerStep
  BY <1>2, StageKeeps, OutsideKeeps, SealKeeps, CompleteKeeps DEF SchedulerStep
<1>3. CASE BankStep /\ UNCHANGED <<publicationVars, closureVars>>
  BY <1>3, ReviewKeeps, CloseStepKeeps DEF BankStep
<1>4. CASE (\E q \in Members : EditFamily(q) \/ AddExtras(q))
           /\ UNCHANGED <<batchVars, closureVars>>
  BY <1>4, OutsideKeeps
<1>5. CASE \E p \in Closers : Abandon(p)
  BY <1>5, AbandonKeeps
<1>6. CASE UNCHANGED vars
  <2>1. /\ UNCHANGED <<attributions, manifest, result, handoff, review, promoted, closing>>
        /\ UNCHANGED <<family, extras, trace, staging, revision, audits, recorded, phase, board>>
    BY <1>6 DEF vars, batchVars, bankVars, publicationVars, closureVars
  <2>2. ClosureTypeOK'
    BY <2>1 DEF IInv, ClosureTypeOK, BankTypeOK, PublicationTypeOK
  <2>3. BankInv' /\ \A p \in Closers : CloserInv(p)'
    BY <2>1 DEF IInv, BankInv, CloserInv, Good, Gathered, Pattern, Tasks
  <2>4. (\A q \in Members : SupervisorInv(q)') /\ TraceInv' /\ BindInv' /\ CompletedIsSealed'
    BY <2>1 DEF IInv, SupervisorInv, TraceInv, BindInv, CompletedIsSealed, LastOfBatch
  <2> QED BY <2>2, <2>3, <2>4 DEF IInv
<1> QED BY <1>1, <1>2, <1>3, <1>4, <1>5, <1>6 DEF Next

THEOREM ClosureInvariant == Spec => []IInv
BY IInvInit, IInvStep, PTL DEF Spec

\* The files, the supervisors and the processes keep their types.
THEOREM ClosureTypeCorrect == Spec => []ClosureTypeOK
<1>1. IInv => ClosureTypeOK
  BY DEF IInv
<1> QED BY <1>1, ClosureInvariant, PTL

\* Whatever closings race, fail and are repeated, what is promoted is a pattern of two
\* questions' recorded lessons.
THEOREM PromotionIsEarned == Spec => []PromotedOnTwoQuestions
<1>1. IInv => PromotedOnTwoQuestions
  BY DEF IInv, BankInv, Good, Pattern, PromotedOnTwoQuestions
<1> QED BY <1>1, ClosureInvariant, PTL

\* What the board calls completed is sealed, and the last of a batch with its conclusion.
THEOREM CompletionIsSealed == Spec => []CompletedIsSealed
<1>1. IInv => CompletedIsSealed
  BY DEF IInv
<1> QED BY <1>1, ClosureInvariant, PTL

\* A finished supervisor leaves its revision attributed and its batch concluded.
THEOREM FinishConcludes == Spec => []FinishedIsConcluded
<1>1. IInv => FinishedIsConcluded
  BY DEF IInv, SupervisorInv, FinishedIsConcluded
<1> QED BY <1>1, ClosureInvariant, PTL

\* A final trace is all there from the first moment, and is never changed.
THEOREM TracesStand == Spec => TraceStands
<1> DEFINE Stands ==
        \A q \in Published :
            /\ trace[q] # Missing => trace'[q] = trace[q]
            /\ trace'[q] # Missing => trace'[q].parts = Parts
<1>1. ASSUME IInv, [Next]_vars
      PROVE  [Stands]_trace
  <2>1. TraceInv'
    BY <1>1, IInvStep DEF IInv
  <2>2. \A q \in Members : trace[q] # Missing => trace'[q] = trace[q]
    <3>1. ASSUME NEW x \in Members, Seal(x)
          PROVE  \A q \in Members : trace[q] # Missing => trace'[q] = trace[q]
      BY <1>1, <3>1, PublishStep DEF Seal, IInv, ClosureTypeOK
    <3>2. CASE UNCHANGED trace
      BY <3>2
    <3>3. UNCHANGED trace \/ \E x \in Members : Seal(x)
      BY <1>1
         DEF Next, SupervisorStep, Audit, RecordLesson, RecordRevision, Finish, Revise,
             SchedulerStep, SealStep, StageArtifacts, StageManifest, Stage, RunCompletes,
             BeginBind, Validate, Complete, EditFamily, AddExtras, Abandon, vars,
             publicationVars
    <3> QED BY <3>1, <3>2, <3>3
  <2> QED BY <2>1, <2>2, ClosureAssumption DEF TraceInv
<1>2. IInv /\ [Next]_vars => [Stands]_trace
  BY <1>1
<1> QED BY <1>2, ClosureInvariant, PTL DEF Spec, TraceStands
=============================================================================
