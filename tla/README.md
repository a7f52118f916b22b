# TaskFoundry in TLA+

TaskFoundry (`src/src/taskfoundry`, Python) is the control plane of a campaign
that writes, validates and publishes questions. There is no server and no
database: every component keeps one JSON or JSONL file, changes it under an
advisory `flock` with an atomic `os.replace`, and any number of processes on the
host - the supervisor's loop, scheduler commands, dispatch workers, Researcher
workers, operators at the command line - open the same files. What can go wrong lies
between two such changes: a process reads one file, decides, and changes
another, while others act and while it may die.

All paths below are relative to `src/src/taskfoundry` unless they start with `docs/`.

## 1. The system

| component | state it keeps | operations | interacts with |
|---|---|---|---|
| Run journal (`store.py`) | `events.jsonl`, `state.json`, `run.lock` of one run | `initialize`, `read_snapshot` (with an unlocked repair), `commit` | read by everything; written by the workflow |
| Run workflow (`workflow.py`) | the run's snapshot: state, revision, attempts, evidence | about 20 guarded transitions, from the brief to publication | journal, session registry, capability store, Harbor evidence |
| Validation verdict (`validation.py`) | none | `decide_validation`, freshness rules | called by every recording |
| Session registry (`validation_session.py`) | `validation-sessions.jsonl`, shared by sibling runs | `reserve`, `close`, `reconcile` | workflow, before or after its own commit |
| Harbor evidence (`harbor_evidence.py`) | none (reads job directories) | `import_round`, `import_persistent_session` | workflow |
| Campaign scheduler (`scheduler.py`, `scheduler_state.py`) | `scheduler.json`: questions, leases, slots | enqueue, tick, configure, heartbeat, wait, resume, requeue, abandon, bind, dispatch claims | reads runs; Teachers; dispatch workers; Skill Bank |
| Dispatch worker (`scheduler_worker.py`, `codex_agent.py`) | none | `run_once`: tick, claim, send, record or recover | scheduler, Codex queue |
| Harbor queue (`harbor_queue.py`) | `harbor-queue.json`: FIFO of jobs, at most 200 active | submit, claim, claim_request, authorize, complete, reclaim_stale | Researcher workers, operators |
| Researcher worker and capability (`researcher.py`, `cli.py`) | `request.json`, `capability.json`, receipt | issue, redeem, revoke, platform recovery, handoff | queue, Harbor, workflow |
| Campaign supervisor (`supervisor*.py`) | `supervisor-state.json` of each question, worker processes | `run_once`, `resume`: launch, drive, retry, wait | workflow, worker processes, recovery ledger |
| Recovery ledger (`recovery.py`, `model_probe.py`) | failure counts, model circuit | record_failure, decide, claim/finish probe | supervisor |
| Validation control (`validation_control.py`, `persistent_*.py`) | decision and result files of a live session | decide, publish once | Teacher, agent in the sandbox |
| Skill Bank (`skillbank.py`) | of a batch: roster, attributions, evidence manifest, reconcile result, hand-off; of a question: activation, prompt and lock snapshot of each stage, archives | resolve, archive, freeze the roster, record an attribution, reconcile, close, evaluate | Teachers, workflow, supervisor, scheduler |
| Publication (`publication.py`) | published families, final traces | `validate_published_family`, `finalize_published_family` | scheduler |
| Labwright (`labwright.py`, `labwright_runtime.py`) | delta requests, receipts, seal plans, lifecycle and registry of Stable environments | request, claim, complete, resolve, create a seal plan, import | Researcher workers, operators |
| Package, launch, JobConfig, policies, question types, agent adapters | immutable documents | pure functions, one probe | workflow, capability store |

What each must guarantee: the journal loses no update and applies a key once;
the workflow gives only verdicts its rounds deserve, counts an execution once
and shows a round only within its session; the registry never lets an identity be used twice;
the scheduler never overbooks slots or Teachers and never revives a lease; a
grant is dispatched once; the queue bounds what really runs and replaces no
result; a batch works with one version of the Skills and changes them only on two
questions' failures; a published trace is complete and stays; an extension is
answered by whoever claimed it. Section 3 says how each is stated.

The hard behaviours are of five kinds. **Two files**: the workflow commits the
run and closes the registry in two steps, in either order. **Unlocked reads**:
`read_snapshot` reads, and repairs, without the lock. **Stale copies**: leases,
claims and snapshots are presented long after they were read. **Crashes**
between a claim and its completion, where recovery must neither repeat nor lose
work. **Several files, no lock**: an activation, a batch closing, a delta request and
an image import are series of files that nothing makes one, so that another process
or a death comes between any two. `PROJECT.json` lists them line by line under
`hazards`.

## 2. Modules

```
RunLog <-refines- RunStore
Scheduler <-extends- Dispatch
SessionRegistry <-extends- Workflow -extends-> Verdict
HarborQueue <-extends- ResearcherRun
Recovery, ValidationControl <-extends/instantiates- Supervisor -instantiates-> Verdict
Verdict <-extends- Sessions <-refines- Supervisor
SkillBatch, Publication <-extends- BatchClosure
SkillActivation        Labwright
```

The composed specifications have an `MC...` module that adds only a symmetry set,
and the `...Proofs` modules hold the theorems (section 5). Operators named after what a
plausible bug would do and commented as mutants (`CountAnew`,
`AgreesByRoster`, `PublishPartly`, ...) are no part of any specification; each shows that a
property notices that bug.

**RunStore** is one run directory at the granularity of file accesses. A
snapshot is the sequence of idempotency keys it results from, so "which updates
does this state contain" is visible. `pc` walks through `read_snapshot`
(`readFile`, `readJournal`, `recoverCheck`, `recoverReplace`), `initialize` and
`commit` (`acquire`, the same read under the lock, `decide`, append,
`writeCheck`, `writeReplace`). **RunLog** is what clients are promised: a
log to which operations are applied once, acknowledged after they were applied,
and observed monotonically.

**Scheduler** has one action per locked operation of `QuestionScheduler`; each
includes the trailing `_sync_and_fill` (expire, follow the run, fill slots). Run
states are grouped by what `_sync_run` does with them. A lease carries the time
it has left; `TimePasses` is the clock. Owners present any (owner, generation)
copy, including dead ones. **Dispatch** adds the workers' `run_once` around it,
with the 30-second send outside the lock.

**SessionRegistry** has `Reserve` and `Close`. **Workflow** has one action
per transition of `RunWorkflow` that reads the run once and touches only the run:
`RunStore` refuses a commit from an old snapshot, which `Behind` does to every other
process's pending commit, so reading and committing may be one step. The transitions
that also change the registry have two or three: `Freeze`/`ReserveStep`/`CommitStep`,
`Import`/`CloseStep`/`CommitStep`, `Migrate`/`CloseStep`/`CommitStep`,
`Reconcile`/`CloseStep`/`Revise` or `Finalize`. Recording a linear round reads the run
twice, and the comparison covers the second read only: `ReadRound` takes the session,
its receipts and the ledger of rounds (`rounds`, the code's `harbor_rounds`) from the
first read (`workflow.py:1008`), and `RecordStep` writes them over the second
(`workflow.py:1547`) and commits under that one's sequence, whatever was recorded,
migrated or frozen in between. `BindsSession` accepts a round that was shown no earlier
one as well, because without a repair ledger the digests of repaired rounds are the
empty tuple (`workflow.py:1035-1055`). `GiveUp` is a crash or a refusal in between.
`Sibling` is what other runs do to the shared registry. **Verdict** holds operators only: the verdict over a
ledger (`Decide`, `Fresh`) is the code's, with scores low or high; the rounds one
persistent trial can hold (`PersistentTrials`) and what the workflow makes of one
(`TrialVerdict`) are there because `Workflow` and `Supervisor` both speak of them.

**HarborQueue** has the operations of `HarborJobQueue`. **ResearcherRun** walks
each worker through `_execute_researcher_handoff`: authorize or submit and
claim, redeem, authorize again, Harbor, receipt, complete, with `Die` anywhere and
`Operate` for the operators' queue commands. Operators are assumed honest: they
reclaim a claim only if its worker is gone and left no receipt, and complete one
only as `RECOVERY_REQUIRED`. The code cannot check this (section 7).

**Recovery** is the failure ledger and the model circuit: one action for each
operation of `RecoveryLedger`, whose two files change under one lock.
**ValidationControl** is a live session: requests, the result and decision of each
round, receipts, and workers. Which decision may answer which result is the
controller's table; the workers are taken from what the supervisor and
`persistent_recovery.py` make of a Harbor trial: they publish rounds while
decisions continue, settle after a stop, fail with a stage, or vanish. **Supervisor**
has one action per handler of `_advance` and `resume`. A handler makes several
durable changes and stores the snapshot last (issue, start, store; import, clear,
store; evidence, count, store), so each such action has a parameter `k`: how many
of them are made before the process dies. What a process forgets then (`Orphaned`)
is which workers it started; `supervisor-resume` is a process of its own and
never knew any. Times to retry and to probe come some time. `retried` is a history
variable. Plans, paths and commands are left out, and operators do not revoke.
**Sessions** is what the three promise together, with neither workers nor circuit,
receipts nor crashes in it: for each question the rounds of the sessions opened for
it, the verdict and whether it is finished. A session is opened while there is no
verdict; a round is played, answered once with the decision that `Verdict` derives
from the rounds so far, or withdrawn if it failed; a verdict is settled once, from a
session that ended or broke off; a question is finished on it.

**SkillActivation** is what a Teacher works with. `resolve_teacher_activation` holds
no lock, so each of its file accesses is a step of a resolver, in the order of the
code: read the stable version (`Start`), create or join the batch's roster
(`CreateRoster`, `WriteRoster`, `JoinRoster`), look at the activation that is there
(`FindNone`, `FindOwn`, `FindOther`), move a superseded bundle into an archive file by
file and seal it, `Resolve` with the inputs of that moment, and publish prompt, lock
snapshot and activation one after the other. `Crash` stops it anywhere. The run's
transitions that depend on it (`AttachBrief`, `AcceptActivation`, `BeginAuthoring`,
`FreezePackage`, `BeginRevision`) are single commits with `KnowledgeHolds`, which is
`_revalidate_teacher_knowledge`. Around them the Teacher rewrites the Brief and other
batches promote the Bank. An activation is the fields later checks compare; a
prompt is the versions of the knowledge and of the input that are in it.

**SkillBatch** closes a batch: `Gather` reads all attributions and the files they are
compared with, then manifest, `skillfoundry reconcile` and result, or the short
result, are steps of their own, and then the hand-off or the evaluation.
**Publication** is `finalize_published_family`: validate, stage artifacts, stage
the manifest, rename, or compare with the trace that is there. **BatchClosure** puts
the two together under their real callers: `_apply_terminal_attribution` of each
question's supervisor (lesson, revision attribution, closing, phase: separate files)
and the scheduler's bind (seal, reconcile with the last question, board), each of
which may die at any step (`Abandon`); also a refusal is a death, for it leaves the
same files. What `skillfoundry` finds is its choice. `Reconcile` runs it on the manifest
that is on disk by then, which may be another closer's.

**Labwright** has the steps of `request_delta` and `import_stable`, which hold no
lock, and of `claim` and `complete`, which hold the request's (`Unlocked`). The lock
goes with its worker (`WorkerDies`), the fence does not. Evidence is a version:
`checked` when it is validated, `digest` when the receipt binds it.

## 3. Runs

Passing runs, with the bound that makes the interesting case happen.

| run | instance | what it shows |
|---|---|---|
| `store_race` | 2 processes, 3 keys, 2 payloads, 1 crash | `RunLog` is implemented (`LogSpec`): no update is lost, every reader sees a state that was |
| `store_crash` | 1 process at a time, 3 crashes | the journal is at most one ahead (`Rebuildable`), the file catches up (`LagRepaired`) |
| `scheduler_board` | 2 questions of one batch, 2 Teachers, 1-2 slots, leases of 2 ticks, 2 grants, all classes of run state | slots and owners never overbooked, stale leases stay stale, ticks fill slots and leave no leased question with an expired lease (`TickSettles`), batches reconciled |
| `dispatch` | 1 question, 2 workers that stop anywhere, leases of 2 ticks, 3 grants, all classes of run state | one message for a grant; a lease is called sent only if its own grant was delivered (`SentWasDelivered`); a claim whose worker died is never taken up again, and ends with its grant (`StrandedStaysStranded`) |
| `workflow_linear` | 2 processes, 2 revisions and sessions, 4 requests and attempts, low, high and timed-out rounds | `VerdictsEarned`, `HistoryStaysInSession`, `ExecutionCountedOnce`, `ClosureIsCurrent`, `LedgerOnlyGrows` |
| `workflow_siblings` | 2 runs, 3 sessions, 2 threads, linear rounds mixed with persistent trials of up to 4 rounds, incomplete evidence | `SessionIsReserved` and `ThreadCarriesNothingOver` under crashes and races, `VerdictsEarned` for trials imported whole |
| `harbor_workers` | 3 requests (1 runtime-owned), 2 workers, 2 slots, 3 claims | slots (`SlotsBounded`), an execution under the current claim, an eligible job stays eligible, a receipt written once |
| `supervisor_recovery` | 1 question, 2 requests, 3 workers, a budget of 1 retry, 2 failures of a round, 3 stages, deaths anywhere | retries stay in the budget, no session is started twice, a hinted session is never launched anew, only science finishes a question; `Sessions` is implemented (`SessionsSpec`): answers are given once and fit, verdicts are deserved and final |
| `skill_activation` | 2 questions of 2 batches, 1 attempt, 1 resolver each, 2 Briefs, 2 Bank versions, 4 resolutions, 1 death | one version for each batch, bundles are whole, nothing is frozen from another Brief, an activation stands until its batch is superseded |
| `batch_closure` | 2 questions and their supervisors, the scheduler, 1 lesson, 1 family, 2 revisions, deaths anywhere | a Skill changes only on two questions' lessons, a completed question has its whole trace, a finished one its attribution, traces stand |
| `labwright` | 2 requests, 2 contents, 1 requester, 2 workers, 2 evidence versions, 1 importer, 2 fences, deaths anywhere | a receipt answers its claim, READY is final, only a whole promotion is registered |

Type invariants are not repeated in the runs where they are proved for every
instance (section 5).

Why these bounds are enough: the hazards need two actors and at most three
steps of one inside another's window; two processes, two workers or two runs
give that. Four attempts reach the pass (three low blinds and a high hint) and
two consecutive timeouts; two grants or three claims are enough for a stale copy
of an earlier one, and the third grant of `dispatch` for a worker that is two behind; two revisions are enough to carry something over.
For the supervisor one question is enough, as questions share only the circuit;
two requests give a retry, three workers a retry and a continuation, two failures one
more than the budget, and `RetryBudget` stands for the length of `TRANSIENT_DELAYS_SEC`. A batch needs two
questions for a failure pattern and for a question that is not the last; four
resolutions resolve both stages of one question for two batches, or of both questions
for one, and two Briefs or Bank versions make the first one stale. Two fences of two workers are
enough for a claim that is not one's own.

`MaxAttempts` bounds the attempts of a revision and the receipts of a session.
`MaxRequests`, `MaxWorkers`, `MaxFailures`, `MaxAttempts`, `MaxDeltas`,
`MaxGeneration`, `MaxClaims`, `MaxBriefs`, `MaxResolutions`, `MaxFamily`,
`MaxRevisions`, `MaxEvidence` and `MaxCrashes` bound counters that grow for ever in the
code; where the bound stops the model, deadlock is not reported
(`CHECK_DEADLOCK FALSE`). In the workflow the runs also end in `COMPLETED`, where the
code has nothing left to do. Symmetry is used only where a run checks no liveness.

Two bounds are assumptions. `Teachers = 1`: one resolving process for each question;
and one requester and one importer of Labwright. With two of them the properties
fail (section 7), because the code has no lock there.

One run ends in a violation, with its finding in `PROJECT.json`:

* `store_rebuildable`: the unlocked repair of `read_snapshot` (`store.py:57`)
  checks, another process commits, and it puts an old snapshot back: the journal is
  two entries ahead for good, and every later read fails. In this run only one process
  initializes (`Initializers`), so TLC's trace is the one of the repair. Two processes
  that initialize at once, as in `store_race`, reach the same end another way: a
  delayed replace of the empty snapshot (`store.py:38-39`) after two commits.

## 4. Fairness

Only where the code schedules again by itself. `RunStore.FairSpec`: a process
inside a call goes on, and somebody opens the run again (the supervisor's loop when it
starts or records a session, every later command); a crash is never fair.

The scheduler has no loop. `scheduler-tick` and `scheduler-work-once` are commands that
do their work once (`cli.py:325`, `358`), and the supervisor calls neither, so that a
tick comes is the operator's part: for `Scheduler` and `Dispatch` no fairness is
assumed and no liveness claimed. What one tick does when it comes is stated instead
(`TickSettles`, `TickFillsSlots`), and that a claim whose worker died stays unsent and
unconfirmed until then (`StrandedStaysStranded`). The supervisor has a loop
(`CampaignSupervisor.run_forever`), but what it would have to promise it does not keep:
its waits may last for ever (section 7). `HintedSessionContinues` is not liveness; it
says that a hinted session is never launched anew. Everything else - workflow, queue,
resolutions, closings, Labwright - goes on when somebody calls it, and no liveness is
claimed. `ResearcherRun.QuietSpec` (a configuration of section 7 only): workers that
are left alone make their steps.

## 5. Proofs

TLAPS checks these for every value of the constants, from the named
assumptions of the modules: finite sets of questions, positive limits, and null
values (`None`, `Unused`) outside the sets they stand next to.

* **RunStoreProofs** (`TypeCorrect`, `NoLostUpdate`, `ExactlyOnce`,
  `SnapshotFaithful`, `SoloRebuildable`, `Refinement`). `JournalLinear` alone is not
  inductive: an append is safe because the process in `decide` holds the lock and its snapshot is the
  whole journal. `IInv` therefore says of every process what it knows at its `pc`:
  what is in its memory is faithful to a prefix of the journal, and past
  `decide` it is the journal itself. The refinement maps the journal to its
  operations; each file access is a stutter, an application, an observation or an
  acknowledgement. `SoloRebuildable` assumes one process at a time (`Alone`), killed
  as often as one likes; the run `store_rebuildable` shows that two are too many.
* **SchedulerProofs** (`TypeCorrect`, `BoardAlwaysValid`, `OneLeaseEach`,
  `SlotsRespected`, `StaleStaysStale`). The hard lemma is `FilledBoard`: what the fill
  loop activates, stated as a set, adds at most the free slots and no owner twice; it
  needs the last question of a finite set (`LastQuestion`) and counting lemmas.
  `OneLeasePerOwner` must be proved with leases awaiting publication counted, which
  `validate` does not do. `NoSlotIdle` is the converse of the fill lemma (`FilledUp`):
  what the loop passes over while a slot is left has a Teacher who is leased.
  `FillIsDetermined` justifies that the loop is stated as a set: on any board exactly
  one set fits (`FillsExists` builds it by counting slots, `FillsUnique` compares two at
  the first question they differ in), so `SyncAndFill` blocks no operation. `TicksSettle`
  says that a tick follows time and runs before it fills.
  `BatchesReconciled` needs only that a completion and the reconciliation of its
  batch are one commit. Then the worker (`NoDoubleDispatch`, `ConfirmedWasDelivered`,
  `StrandedGrantsEnd`): a worker about to send is tied to the board by the lease,
  which is `SENDING` under its name or its generation is over. For `StrandedGrantsEnd`
  every operation of the board is shown to leave a lease alone, to age it, to renew it
  for a Teacher that was told of it, to drop it or to grant it anew (`Quiet`): none of
  these gives a claim nobody will send to another worker.
* **WorkflowProofs**. First the registry for any number of sibling runs
  (`RegistryTypeCorrect`, `OneSessionEach`, `NothingCarriedOver`, `PermanentIdentity`);
  then the run (`WorkflowTypeCorrect`, `SessionAlwaysReserved`, `LedgerKept`,
  `ThreadsStayWithTheirRun`). A commit is computed long before it is made, so `Inv`
  says of every *pending* operation that its snapshot extends the present one,
  that its session is reserved or is about to be, and that requests name real
  attempts. A round that is being recorded is not tied to the present run at all: of it
  `Inv` says only that its session was reserved when it was read, and a reservation is
  never taken back. Hence the session of a run is reserved for the revision it was
  frozen with (`SessionIsReserved`), which may be another one than the run's by now
  (`SessionIsCurrent`, section 7). `EvidenceInv` says of every snapshot, committed,
  pending or read by a record, what its ledger stands for (`VerdictsAreEarned`,
  `ExecutionsCountOnce`, `ClosuresAreCurrent`) and which rounds its receipts name
  (`InHistory`, from which `HistoriesStayInSession`): while rounds may still be recorded
  the accepted ones are fresh, numbered without a gap and none is high (`Open`), so the
  next one is the highest number and the only one that can end the validation. That
  needs no session to be current, because a ledger is checked anew with each round, and
  with the second read's attempts. `Judged` is the part that speaks of states and not of
  decisions: a run that was passed, finalized, published or too easy got there by a
  computed verdict or by the Teacher's stop. `TrialsCanBeImported` says that a persistent
  trial is never refused when it ends: after any failures recorded before, its rounds are
  fresh and of one session, and their verdict agrees with the Teacher's terminal action
  (`TerminalAgrees`, which the code checks and raises otherwise). For linear requests the
  like is false (`Workflow_IssuedRequestIsLegal`).
* **ResearcherRunProofs** (`RunTypeCorrect`, `SlotsNeverOverrun`,
  `ExecutionUnderClaim`, `FirstComeFirstServed`, `FinishedStaysFinished`,
  `ReceiptNeverReplaced`, `QueueingIsFree`). The queue first: that a claim of many
  jobs fits into the free slots needs ranks to be distinct (`RankOrder`) and the
  pigeonhole principle (`FewRanks`), hence positions in order and claims distinct in
  the invariant (`QueueInv`). The operations are then two kinds of change,
  `Takes` and `Leaves`. For the workers `RunInv` adds that no two have the same
  claim, that whoever is beyond its claim still holds it, and that a request with
  a receipt never waits again and its holder has only to complete. The
  theorems assume the honest operators of the model (`Orphaned`).
* **SupervisorProofs** (`TypeCorrect`, `RetriesStayBounded`, `SessionsLaunchedOnce`,
  `PublishedDecisionsStand`, `HintedSessionsContinue`, `QuestionsFinishOnScience`,
  `SessionsAreTrials`, `SupervisorImplementsSessions`). `IInv` relates the snapshot, which
  is stored last, to what was made before it: its attempt was issued
  (`AttemptsIssued`), a scheduled retry was counted (`LedgerInv`), and a published hint
  is either in the snapshot or the snapshot is still at the Teacher's round three
  (`HintsNoticed`). Decisions stand because only the last round can lack one
  (`RoundsOrdered`), so an archived round never carried any. For each action one
  lemma shows `StepKeeps`: the invariant and both action properties. `VerdictInv`
  adds what a run's imports stand for (`QuestionsFinishOnScience`): a session imported
  as a failure without any scientific round has no worker left that could still publish
  one (`WorkersFit`), so a later verdict can only be that of a session that was stopped,
  and a stop is never taken back (`Steady`). `RoundsLegal` is the controller's
  progression as an invariant of every session, restarted and continued ones included:
  only the last round is other than low, a platform failure ends the session and each
  decision is one its result allows. From it `SessionsAreTrials`: a session that is over
  is one of `Verdict`'s `PersistentTrials`, so the trials that `Workflow` imports are
  just those the supervisor and the controller make. `SupervisorImplementsSessions`
  puts all of it together. The refinement mapping forgets workers, receipts, snapshots
  and circuit, so most steps stutter and each of the rest is one step of `Sessions`:
  publishing a decision again, archiving a round that is not there, or importing a
  session twice is a stutter, for any number of questions, requests and deaths. That an
  answer fits (`DecisionFits`) needs `RoundsLegal`; that a finished question has a session
  with its verdict needs `VerdictInv`.
* **SkillActivationProofs** (`ActivationTypeCorrect`, `OneVersionForBatch`,
  `FrozenOnItsBrief`, `BundlesStayWhole`, `AttemptsStand`). For the roster the
  invariant follows the version from the roster to what each process has in its
  memory and to every desk and archive (`RosterInv`). For the bundles it
  says which of a desk's three files may be there at each step of its one resolver
  (`DeskInv`), hence the assumption `Teachers = 1`; the rest holds for any number.
* **BatchClosureProofs** (`ClosureTypeCorrect`, `PromotionIsEarned`, `CompletionIsSealed`,
  `FinishConcludes`, `TracesStand`). Lessons only grow, so what a closing found stays
  a part of what there is: every pattern in a manifest, whoever wrote it, in a hand-off
  or in a process is earned by then (`BankInv`, `CloserInv`).
* **LabwrightProofs** (`LabTypeCorrect`; with one requester `ReceiptsAnswerClaims` and
  `ReadyStands`; with one importer `RegisteredStaysStable`). `DeltaInv` is the argument
  why a fence is enough: whoever is in a completion still holds the claim it read, so a
  second receipt can only come from the same worker for the same content.

Only model-checked: the one liveness property (`LagRepaired`), and whatever needs
ENABLED, which the prover cannot do. `KeysUnique`, `FinishedIsFinal`,
`QueueingConsumesNothing`, `SessionsSettled`, `TrialsImportable` and `DecisionsStand`
(which `SessionsSpec` contains) are proved for every instance and no listed run repeats
them.

## 6. Plan

Done, in the order of importance for the system: `RunStore` and `RunLog`; `Scheduler`
and `Dispatch`; `SessionRegistry` and `Workflow`; `HarborQueue` and `ResearcherRun`;
`Recovery`, `ValidationControl`, `Supervisor` and `Sessions`; `SkillActivation`; `SkillBatch`,
`Publication` and `BatchClosure`; `Labwright`.

Left:

1. Compositions: `Supervisor` over `ResearcherRun`'s queue (a worker told QUEUED is
   taken for lost, section 7), and `Scheduler`'s bind shown to be implemented by
   `BatchClosure`, of which it is the abstraction (`reconciled`, `sealed`).
2. The two repairs of the workflow (section 8).

## 7. Further disagreements

Found while modelling and not part of the runs listed in `PROJECT.json`; each is a
definition of its module that says "not kept". A `..._NotKept` configuration lists
several of them: TLC stops at the first, so leave one in to see its trace.

| configuration | definition | what it shows |
|---|---|---|
| `RunStore_NotKept` | `ReadsNeverFail` | a reader without the lock sees `state.json` and `events.jsonl` of different times (`store.py:44-52`) and fails while another process commits |
| | `ConflictMeansNotApplied` | `SequenceConflict` for an operation that is already in the journal (`store.py:147`) |
| `RunStoreTorn_ReadsNeverFail` | `ReadsNeverFail` | a half-written line is never dropped, every later read fails (`store.py:81`) |
| `Scheduler_NotKept` | `ExpiredCanBeReleased` | one unreadable run makes every tick fail, so that no expired lease of the board can be released (`scheduler.py:496`) |
| | `TickExpiresLeases` | a lease that awaits publication never expires and holds its slot (`scheduler.py:439`; line 132 says "expire stale leases") |
| `Workflow_IssuedRequestIsLegal` | | after a hint round times out, the state is `DEFERRED_TIMEOUT` and `issue_researcher_request` (`workflow.py:399`) derives a blind round, whose score can then never be recorded |
| `Workflow_NotKept` | `ReceiptsAreTheRounds` | a round recorded between the two reads of another record (`workflow.py:1008`, `1547`) loses its receipt, and the next request does not show it; a round that was shown no earlier one binds as well (`workflow.py:1035-1055`) |
| | `RoundsAreLedgered` | such a round also loses its evidence in `harbor_rounds`, without which publication refuses the run (`publication.py:172-175`) |
| | `SessionIsCurrent` | a migration and a freeze between the two reads: the old revision's session is written into the new revision's run (`workflow.py:1090-1115`, `1579-1592`; `docs/design/direct-linear-validation-and-skill-evolution-v1.md:42` has the registry refuse the reuse of a session, and by line 46 changed scientific bytes close the old one) |
| | `EvidenceIsCurrent` | and the old revision's round is counted in the new one's ledger |
| | `SettledCanReconcile` | a session closed as migrated before a lost commit can never be reconciled (`workflow.py:1719-1730`, `docs/design/direct-linear-validation-and-skill-evolution-v1.md:45`) |
| | `FinalizedSessionIsClosed` | `begin_runtime_finalization` (`workflow.py:1483-1492`) reconciles the registry from the snapshot it read, and commits on a newer one: a verdict committed in between, whose process died before it closed the session, is finalized with the session open; a replay returns early (line 1849) and repairs nothing |
| | `SupersededSessionIsClosed` | a run that stops by the Teacher's decision leaves its session open in the registry (`workflow.py:1158-1168`, same document, line 46) |
| `ResearcherRun_RuntimeRequestRedeemed` | | `runtime-researcher-run` has no `--recovery-evidence` option but `cli.py:835` reads it, so a runtime-owned request claims a slot and dies |
| `Supervisor_NotKept` | `RetryOnlyBeforeScience` | a new request is issued although an earlier one has a scientific round: a lost worker's file closes it (`supervisor.py:661-681`; `workflow.py:481` says "retry is allowed only before any scientific round") |
| | `LostMeansGone` | a restarted supervisor knows no workers and takes living ones for lost (`supervisor_process.py:65-73` against its docstring, line 26) |
| | `AttemptIdempotent` | after a crash between issuing a request and storing the snapshot, or after a wait that followed a lost worker, the launch is refused for ever (`supervisor.py:661-667`; `docs/design/campaign-supervisor-and-skill-evolution-v1.md:58`) |
| | `HalfOpenIsOwned` | when the owner of a probe dies the circuit stays HALF_OPEN: nobody may finish or claim the probe (`recovery.py:261-296`) |
| `SkillActivation_NotKept` | `InputSetBinds` | `input_set_sha256` is taken before the inputs are read for the prompt: a Brief rewritten in between gives an activation whose digest is of other inputs (`skillbank.py:461`) |
| | `ArchiveComplete` | a death while a bundle is archived leaves an unsealed archive without its prompt, which the next resolution overwrites (`skillbank.py:629`) |
| | `RosterUsable` | a death after `open("xb")` leaves an empty roster, which nobody accepts or replaces (`skillbank.py:579`) |
| `SkillActivation` with `Teachers = 2` | `BundlesWhole`, `AttemptStands` | two resolutions of one desk both find no activation and both publish; the second replaces, or mixes with, what the first returned (`docs/design/self-contained-teacher-skill-runtime-v1.md:42`) |
| `BatchClosure_NotKept` | `ClosingIsPossible` | every attribution closes the batch, not the last one only: a later lesson, or a death between manifest and result, makes every closing of the batch refuse (`supervisor.py:628`; `docs/design/direct-linear-validation-and-skill-evolution-v1.md:30` has the batch aggregated once, at its end) |
| | `ResultStands`, `ResultOfManifest` | closings that race write manifest and result of different evidence, the staler one perhaps last (`skillbank.py:777`) |
| | `SealedCanBind` | a bind that died after the trace was sealed cannot be repeated when the family or a runtime file changed since (`publication.py:133`) |
| | `SealedWasValidated` | the family is digested after it was validated, and may have changed in between |
| `Labwright_NotKept` | `CheckedIsBound` | evidence is validated, and digested for the receipt later (`labwright_runtime.py:291`) |
| | `PlannedReceiptsStand` | a worker that died before READY completes again, with another receipt than a seal plan already has |
| | `PromotionIdempotent` | half a promotion can never be completed, not even by its own fence (`labwright.py:267`; line 252 says "幂等", idempotent) |
| `Labwright_Unlocked` | `ReceiptOfItsClaim`, `RegisteredIsStable` | with two requesters a late write resets a delta that was claimed or answered (`labwright.py:331`); with two importers a registered environment goes back to CANDIDATE |

These are in the model of the supervisor as the code has them: a stop decision
moves the snapshot to the round after it, so `clear_round` clears that round and not
the one that failed (`supervisor.py:271`, `449`); the evidence of a lost worker has
the time in it, so after a crash it differs from the file on disk and the question
raises for ever (`supervisor.py:710-732`, the guards of `LoseWorker`);
`last_decided_round` survives a new request, whose first rounds are then never
answered; and the Teacher's `STOP_BLOCKED` for a question without a worker is
published before the snapshot turns out to be invalid (`TeacherAct`). `run_once`
lets the exception of one question end the pass, which the model cannot show,
because it lets any question advance at any time.

Read in the code and not yet modelled: a worker that is told QUEUED exits without
a receipt, the supervisor takes it for lost and issues a new request
(`supervisor.py:214-227`), and its old entry stays WAITING; as many such entries
as free slots and `claim_request` (`harbor_queue.py:196`) serves nobody. ADR
`docs/decisions/0004-dynamic-teacher-and-harbor-concurrency.md:32` asks that an
interrupted job is not rerun merely because its process is gone. `reclaim_stale`
measures an age that a live worker never refreshes (`harbor_queue.py:272`).

## 8. Not modelled, and why

* `skillfoundry`, the program that resolves, reconciles and evaluates Skills, is
  external: what it finds and whether a candidate passes is its choice. What is in a
  prompt, a lesson or a question-pack is abstracted; of `validate_published_family`
  only whether there is a family is left.
* A Labwright claim never expires, and only the holder of its fence may go on with it:
  a delta whose worker is gone stays APPLYING (`labwright_runtime.py:221`). A property
  would only restate that no action releases a claim. `FAILED` is set by nobody.
* Pairs of accesses taken as one in the Skill Bank, where a third process could come
  between: the two reads of `stable.lock` when a resolution starts (`skillbank.py:447`,
  `453`); the two reads of the attributions and the look at the files in `Gather`
  (`803`, `754`, `777`); the look at a hand-off and its write (`867-870`); the two reads
  of a failure's evidence (`669`, `701`). And whoever evaluates candidates is assumed to
  evaluate those that were handed off: `close_skill_batch` compares no plan with the
  hand-off (`852-875`).
* What a Harbor trial does inside (agents, sandbox restoration, grading): the
  worker of `ValidationControl` is its contract. The failure it reports through
  `runtime-researcher-run` is taken as intended, although that command fails
  (section 7).
* Of the workflow before AUTHORING only what `SkillActivation` has of it. Of its
  repairs, `repair_validation_history_delivery` and
  `recover_validation_session_from_request` are left out: single guarded commits
  without concurrency of their own, which may be added to `Workflow`.
* Contents: digests, paths, transcripts, JobConfigs, prompts. A request stands
  for its job, trial and sandboxes, a revision for the frozen package
  (`freeze_package_snapshot` refuses other bytes).
* Package checks, policies, question types, rendering, agent adapters: pure
  functions and glue without state.
* `flock`, `os.replace` and `O_APPEND` are taken to work as the kernel promises.
