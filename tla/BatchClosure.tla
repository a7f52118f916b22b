---------------------------- MODULE BatchClosure ----------------------------
(***************************************************************************)
(* The end of a batch: the supervisor of each question applies the         *)
(* Teacher's attribution of its revision and closes the Skill batch        *)
(* (Supervisor._apply_terminal_attribution), and the scheduler binds each  *)
(* published family, reconciling the batch with the last one               *)
(* (QuestionScheduler.bind_published_family).                              *)
(*                                                                         *)
(* Supervisors of different questions run at the same time, and beside the *)
(* scheduler.  A supervisor holds the lock of its own question and the     *)
(* scheduler its own, so each of them does one thing at a time; nothing    *)
(* keeps them apart in the Skill Bank.  Any of them may die at any step.   *)
(***************************************************************************)
EXTENDS SkillBatch, Publication

CONSTANTS
    MaxRevisions    \* bound: revisions a question is attributed

ASSUME ClosureAssumption ==
    /\ Published = Members
    /\ MaxRevisions \in Nat
    /\ "EXCLUDED" \notin Lessons

VARIABLES
    revision,   \* question -> the revision it is at
    audits,     \* question -> the Teacher's attribution of it, or NoFile
    recorded,   \* revision attributions on record
    phase,      \* question -> its supervisor: RUNNING, ATTRIBUTION, FINISHED
    board       \* question -> LEASED; PUBLICATION_PENDING, its run is complete; COMPLETED

closureVars == <<revision, audits, recorded, phase, board>>
vars == <<batchVars, publicationVars, closureVars>>

Attributions == Lessons \cup {"EXCLUDED"}

-----------------------------------------------------------------------------
(* The supervisor of q.                                                      *)

\* Outside: the Teacher audits the revision.  Only a failure of the Skill is a
\* lesson.
Audit(q) ==
    /\ phase[q] = "RUNNING"
    /\ \E attribution \in Attributions : audits' = [audits EXCEPT ![q] = attribution]
    /\ phase' = [phase EXCEPT ![q] = "ATTRIBUTION"]
    /\ UNCHANGED <<batchVars, publicationVars, revision, recorded, board>>

\* record_revision_attribution(): the lesson goes into the pool first.  The evidence
\* it names is read again for the pool after it was checked; it is taken to be the
\* same then.
RecordLesson(q) ==
    /\ phase[q] = "ATTRIBUTION" /\ closing[q] = Idle
    /\ IF audits[q] \in Lessons THEN Record(q, audits[q]) ELSE UNCHANGED attributions
    /\ closing' = [closing EXCEPT ![q] = [at |-> "record"]]
    /\ UNCHANGED <<bankVars, publicationVars, closureVars>>

Begin == [at |-> "gather", evidence |-> {}, lessons |-> FALSE]

RecordRevision(q) ==
    /\ closing[q].at = "record"
    /\ recorded' = recorded \cup {<<q, revision[q], audits[q]>>}
    /\ closing' = [closing EXCEPT ![q] = Begin]
    /\ UNCHANGED <<attributions, bankVars, publicationVars, revision, audits, phase, board>>

\* A mutant for TLC: the supervisor is finished before the batch is closed.
FinishAtOnce(q) ==
    /\ closing[q].at = "gather"
    /\ phase' = [phase EXCEPT ![q] = "FINISHED"]
    /\ Abandoned(q)
    /\ UNCHANGED <<attributions, bankVars, publicationVars, revision, audits, recorded, board>>

Finish(q) ==
    /\ closing[q].at = "done"
    /\ phase' = [phase EXCEPT ![q] = "FINISHED"]
    /\ Abandoned(q)
    /\ UNCHANGED <<attributions, bankVars, publicationVars, revision, audits, recorded, board>>

\* Outside: the question is revised and a new supervision of it begins.
Revise(q) ==
    /\ phase[q] = "FINISHED" /\ board[q] = "LEASED"
    /\ revision[q] < MaxRevisions
    /\ revision' = [revision EXCEPT ![q] = @ + 1]
    /\ audits' = [audits EXCEPT ![q] = NoFile]
    /\ phase' = [phase EXCEPT ![q] = "RUNNING"]
    /\ UNCHANGED <<batchVars, publicationVars, recorded, board>>

-----------------------------------------------------------------------------
(* The scheduler, one bind at a time under its lock.                         *)

Binding == closing["scheduler"].at

\* Outside: the last revision of the question passed and its run is complete.
RunCompletes(q) ==
    /\ board[q] = "LEASED"
    /\ board' = [board EXCEPT ![q] = "PUBLICATION_PENDING"]
    /\ UNCHANGED <<batchVars, publicationVars, revision, audits, recorded, phase>>

\* The lease is live and the run is complete.
BeginBind(q) ==
    /\ closing["scheduler"] = Idle
    /\ board[q] = "PUBLICATION_PENDING"
    /\ Validate(q)
    /\ closing' = [closing EXCEPT !["scheduler"] = [at |-> "seal", question |-> q]]
    /\ UNCHANGED <<attributions, bankVars, closureVars>>

SealStep ==
    /\ Binding = "seal"
    /\ StageArtifacts \/ StageManifest
    /\ UNCHANGED <<batchVars, closureVars>>

\* A mutant for TLC: the last question does not count itself as completed.
LastOfBatchItself(q) == \A other \in Members : board[other] = "COMPLETED"

LastOfBatch(q) == \A other \in Members \ {q} : board[other] = "COMPLETED"

\* The trace is sealed; the batch is reconciled if all the others are completed.
Seal(q) ==
    /\ Binding = "seal"
    /\ Publish(q)
    /\ closing' = [closing EXCEPT !["scheduler"] =
           [at |-> IF LastOfBatch(q) THEN "gather" ELSE "done",
            question |-> q, evidence |-> {}, lessons |-> FALSE]]
    /\ UNCHANGED <<attributions, bankVars, closureVars>>

Complete(q) ==
    /\ Binding = "done" /\ closing["scheduler"].question = q
    /\ board' = [board EXCEPT ![q] = "COMPLETED"]
    /\ Abandoned("scheduler")
    /\ UNCHANGED <<attributions, bankVars, publicationVars, revision, audits, recorded, phase>>

-----------------------------------------------------------------------------
\* A process dies, or stops where the files are not what it demands.
Abandon(p) ==
    /\ closing[p] # Idle
    /\ Abandoned(p)
    /\ staging' = IF p = "scheduler" THEN Missing ELSE staging
    /\ UNCHANGED <<attributions, bankVars, family, extras, trace, closureVars>>

Init ==
    /\ BatchInit
    /\ PublicationInit
    /\ revision = [q \in Members |-> 1]
    /\ audits = [q \in Members |-> NoFile]
    /\ recorded = {}
    /\ phase = [q \in Members |-> "RUNNING"]
    /\ board = [q \in Members |-> "LEASED"]

SupervisorStep(q) ==
    Audit(q) \/ RecordLesson(q) \/ RecordRevision(q) \/ Finish(q) \/ Revise(q)

SchedulerStep ==
    \/ SealStep
    \/ \E q \in Members : RunCompletes(q) \/ BeginBind(q) \/ Seal(q) \/ Complete(q)

BankStep == Review \/ \E p \in Closers : CloseStep(p)

Next ==
    \/ \E q \in Members : SupervisorStep(q)
    \/ SchedulerStep
    \/ BankStep /\ UNCHANGED <<publicationVars, closureVars>>
    \/ (\E q \in Members : EditFamily(q) \/ AddExtras(q))
           /\ UNCHANGED <<batchVars, closureVars>>
    \/ \E p \in Closers : Abandon(p)

Spec == Init /\ [][Next]_vars

-----------------------------------------------------------------------------
SupervisorJobs ==
    {Idle, [at |-> "record"]}
    \cup [at : Labels, evidence : SUBSET Evidence, lessons : BOOLEAN]

SchedulerJobs ==
    {Idle} \cup [at : {"seal"}, question : Members]
    \cup [at : Labels, question : Members, evidence : SUBSET Evidence, lessons : BOOLEAN]

\* Every file, supervisor and process in its type.
ClosureTypeOK ==
    /\ BankTypeOK
    /\ closing \in [Closers -> SupervisorJobs \cup SchedulerJobs]
    /\ \A q \in Members : closing[q] \in SupervisorJobs
    /\ closing["scheduler"] \in SchedulerJobs
    /\ PublicationTypeOK
    /\ revision \in [Members -> Nat]
    /\ audits \in [Members -> Attributions \cup {NoFile}]
    /\ recorded \subseteq Members \X Nat \X Attributions
    /\ phase \in [Members -> {"RUNNING", "ATTRIBUTION", "FINISHED"}]
    /\ board \in [Members -> {"LEASED", "PUBLICATION_PENDING", "COMPLETED"}]

\* A question that the board calls completed has its final trace, all of it, and
\* when the last one of the batch is, the batch has its conclusion in the Skill
\* Bank, whatever process died on the way (scheduler.py:388-391).
CompletedIsSealed ==
    /\ \A q \in Members : board[q] = "COMPLETED" =>
           /\ trace[q] # Missing /\ trace[q].parts = Parts
    /\ (\A q \in Members : board[q] = "COMPLETED") => result # NoFile

\* A supervisor that is finished leaves its revision attributed: the lesson is in
\* the pool, the attribution on record and the batch concluded (supervisor.py:616-636).
FinishedIsConcluded ==
    \A q \in Members : phase[q] = "FINISHED" =>
        /\ audits[q] \in Lessons => audits[q] \in attributions[q]
        /\ <<q, revision[q], audits[q]>> \in recorded
        /\ result # NoFile

\* Not kept by the code: an attribution can be applied.  The batch is closed with the
\* first attribution of any of its questions, and a lesson of a later one, or a
\* process that dies between the manifest and the result, makes every closing refuse.
ClosingIsPossible ==
    (\A p \in Closers : closing[p] = Idle) =>
        IF Pattern(Gathered)
        THEN \/ manifest = NoFile /\ result = NoFile
             \/ manifest = Gathered /\ result # NoFile
        ELSE result \in {NoFile, Short(Gathered)}

\* Not kept by the code: a bind that was interrupted after the trace was sealed can be
\* repeated.  When the family or the runtime files changed, the trace differs.
SealedCanBind ==
    \A q \in Members : board[q] # "COMPLETED" /\ trace[q] # Missing =>
        family[q] = trace[q].family /\ extras[q] = trace[q].extras
=============================================================================
