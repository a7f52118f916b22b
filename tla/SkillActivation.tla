--------------------------- MODULE SkillActivation ---------------------------
(***************************************************************************)
(* What a Teacher works with: the frozen Skill activation of each stage of *)
(* a question (skillbank.resolve_teacher_activation), the roster that its  *)
(* batch shares, the archive of superseded activations, and the run that   *)
(* binds activations and the Brief and checks them again before it freezes *)
(* a package (workflow.py).                                                *)
(*                                                                         *)
(* None of these files is written under a lock.  A resolution is a series  *)
(* of file steps, so every one of them is an action, and the process may   *)
(* die in between.  Bytes are abstracted: stable.lock by its generation, a *)
(* Brief by its version, a prompt by the knowledge and the input that are  *)
(* in it, an activation by the fields that later checks compare.           *)
(***************************************************************************)
EXTENDS Naturals, FiniteSets

CONSTANTS
    Questions,
    Batches,
    Rosters,        \* batch memberships that callers ask for
    Attempts,
    Teachers,       \* resolving processes that one question has at a time
    MaxGeneration,  \* bound: promotions of the Skill Bank
    MaxBriefs,      \* bound: versions of a Brief
    MaxResolutions, \* bound: resolutions begun
    MaxCrashes,     \* bound: processes that die
    NoFile          \* absent; Empty: created and not yet written

Stages == {"outline", "author"}
Desks == Questions \X Stages
Resolvers == Questions \X (1 .. Teachers)

Empty == [questions |-> {}, generation |-> 0]

Prompts == [generation : Nat, input : Nat]
Activations ==
    [batch : Batches, roster : Rosters, attempt : Attempts, generation : Nat,
     inputSet : Nat, prompt : Prompts]

ASSUME ActivationAssumption ==
    /\ Rosters \subseteq SUBSET Questions
    /\ {Teachers, MaxGeneration, MaxBriefs, MaxResolutions, MaxCrashes} \subseteq Nat
    /\ NoFile \notin Activations
    /\ NoFile \notin Prompts
    /\ NoFile \notin Nat
    /\ NoFile \notin [questions : SUBSET Questions, generation : Nat]

VARIABLES
    stable,     \* the generation of .skillbank/stable.lock
    rosters,    \* batch -> its frozen roster
    briefs,     \* question -> version of QuestionDesignBrief.json and .md; 0: none
    bundles,    \* desk -> the activation, prompt and lock snapshot on disk
    archives,   \* the archive directories
    runs,       \* question -> its run: state, bound Brief and bound activations
    pc,         \* resolver -> what it is doing
    begun,      \* resolutions begun
    crashes

files == <<stable, rosters, briefs, bundles, archives, runs>>
counts == <<begun, crashes>>
skillVars == <<stable, rosters, briefs, bundles, archives, runs, pc, counts>>

Idle == [at |-> "idle"]
Desk(r) == <<r[1], pc[r].stage>>

\* The bytes of a stage's task inputs.  The author works from the latest Brief;
\* what the outline is made from does not change.
InputOf(desk) == IF desk[2] = "author" THEN briefs[desk[1]] ELSE 0

Goto(r, label) == pc' = [pc EXCEPT ![r].at = label]
Stop(r) == pc' = [pc EXCEPT ![r] = Idle]

-----------------------------------------------------------------------------
(* The roster of the batch.                                                  *)

\* The stable lock is read here.  The code reads it twice in a row, for the roster
\* and for the activation, which are of one version only if no promotion comes in
\* between; the two reads are taken as one.
Start(r, stage, batch, roster, attempt) ==
    /\ pc[r] = Idle
    /\ begun < MaxResolutions
    /\ begun' = begun + 1
    /\ r[1] \in roster
    /\ stage = "author" => briefs[r[1]] > 0
    /\ pc' = [pc EXCEPT ![r] =
           [at |-> "freeze", stage |-> stage, batch |-> batch, roster |-> roster,
            attempt |-> attempt, generation |-> stable, inputSet |-> 0,
            staged |-> NoFile]]
    /\ UNCHANGED <<files, crashes>>

Contract(job) == [questions |-> job.roster, generation |-> job.generation]

\* open("xb"): the first process creates the file.
CreateRoster(r) ==
    /\ pc[r].at = "freeze" /\ rosters[pc[r].batch] = NoFile
    /\ rosters' = [rosters EXCEPT ![pc[r].batch] = Empty]
    /\ Goto(r, "writeRoster")
    /\ UNCHANGED <<stable, briefs, bundles, archives, runs, counts>>

WriteRoster(r) ==
    /\ pc[r].at = "writeRoster"
    /\ rosters' = [rosters EXCEPT ![pc[r].batch] = Contract(pc[r])]
    /\ Goto(r, "decide")
    /\ UNCHANGED <<stable, briefs, bundles, archives, runs, counts>>

\* A mutant for TLC: a member of the batch brings its own stable version.
AgreesByRoster(job) ==
    rosters[job.batch] # NoFile /\ rosters[job.batch].questions = job.roster

Agrees(job) == rosters[job.batch] = Contract(job)

\* The file is there: it must be the same contract, a half-written one is not.
JoinRoster(r) ==
    /\ pc[r].at = "freeze" /\ rosters[pc[r].batch] # NoFile
    /\ IF Agrees(pc[r]) THEN Goto(r, "decide") ELSE Stop(r)
    /\ UNCHANGED <<files, counts>>

-----------------------------------------------------------------------------
(* The activation that is there already.                                     *)

Activation(desk) == bundles[desk].activation

\* validate_activation(): the prompt and the lock snapshot are the activation's
\* own, and its task input is still the one on disk.
Valid(desk) ==
    /\ Activation(desk) # NoFile
    /\ bundles[desk].prompt = Activation(desk).prompt
    /\ bundles[desk].lock = Activation(desk).generation
    /\ Activation(desk).prompt.input = InputOf(desk)

\* A mutant for TLC: an activation that is no longer valid is resolved anew.
FindNoneValid(r) ==
    /\ pc[r].at = "decide" /\ ~Valid(Desk(r))
    /\ pc' = [pc EXCEPT ![r].at = "resolve", ![r].inputSet = InputOf(Desk(r))]
    /\ UNCHANGED <<files, counts>>

\* The digest of the input set is taken now, long before the inputs are read
\* again for the prompt.
FindNone(r) ==
    /\ pc[r].at = "decide" /\ Activation(Desk(r)) = NoFile
    /\ pc' = [pc EXCEPT ![r].at = "resolve", ![r].inputSet = InputOf(Desk(r))]
    /\ UNCHANGED <<files, counts>>

\* The activation of this batch: returned if it is this attempt's, valid and
\* unchanged, otherwise refused.  Nothing changes.
FindOwn(r) ==
    /\ pc[r].at = "decide" /\ Activation(Desk(r)) # NoFile
    /\ Activation(Desk(r)).batch = pc[r].batch
    /\ Stop(r)
    /\ UNCHANGED <<files, counts>>

Archived(desk, activation) ==
    \E archive \in archives : archive.desk = desk /\ archive.identity = activation

BundleComplete(desk) == bundles[desk].prompt # NoFile /\ bundles[desk].lock # NoFile

\* An activation of another batch: it is superseded, if its bundle is complete and
\* no archive has its digest (mkdir with exist_ok=False).
FindOther(r) ==
    LET desk == Desk(r) IN
    /\ pc[r].at = "decide" /\ Activation(desk) # NoFile
    /\ Activation(desk).batch # pc[r].batch
    /\ IF BundleComplete(desk) /\ ~Archived(desk, Activation(desk))
       THEN /\ archives' = archives \cup
                   {[desk |-> desk, identity |-> Activation(desk),
                     activation |-> NoFile, prompt |-> NoFile, lock |-> NoFile,
                     sealed |-> FALSE]}
            /\ pc' = [pc EXCEPT ![r].at = "moveActivation",
                                ![r].inputSet = InputOf(desk),
                                ![r].staged = Activation(desk)]
       ELSE Stop(r) /\ UNCHANGED archives
    /\ UNCHANGED <<stable, rosters, briefs, bundles, runs, counts>>

\* The archive that r fills.
InHand(r) ==
    {archive \in archives : archive.desk = Desk(r) /\ archive.identity = pc[r].staged}

Change(r, field, value) ==
    archives' = (archives \ InHand(r)) \cup
                {[archive EXCEPT ![field] = value] : archive \in InHand(r)}

\* os.replace() into the archive.  The activation goes first, so what is left of
\* a bundle whose archiving was interrupted is never taken for a bundle.
MoveActivation(r) ==
    /\ pc[r].at = "moveActivation"
    /\ Activation(Desk(r)) # NoFile
    /\ Change(r, "activation", Activation(Desk(r)))
    /\ bundles' = [bundles EXCEPT ![Desk(r)].activation = NoFile]
    /\ Goto(r, "movePrompt")
    /\ UNCHANGED <<stable, rosters, briefs, runs, counts>>

MovePrompt(r) ==
    /\ pc[r].at = "movePrompt"
    /\ Change(r, "prompt", bundles[Desk(r)].prompt)
    /\ bundles' = [bundles EXCEPT ![Desk(r)].prompt = NoFile]
    /\ Goto(r, "moveLock")
    /\ UNCHANGED <<stable, rosters, briefs, runs, counts>>

MoveLock(r) ==
    /\ pc[r].at = "moveLock"
    /\ Change(r, "lock", bundles[Desk(r)].lock)
    /\ bundles' = [bundles EXCEPT ![Desk(r)].lock = NoFile]
    /\ Goto(r, "seal")
    /\ UNCHANGED <<stable, rosters, briefs, runs, counts>>

\* ARCHIVE_MANIFEST.json
Seal(r) ==
    /\ pc[r].at = "seal"
    /\ Change(r, "sealed", TRUE)
    /\ Goto(r, "resolve")
    /\ UNCHANGED <<stable, rosters, briefs, bundles, runs, counts>>

-----------------------------------------------------------------------------
(* A new activation.                                                         *)

\* skillfoundry resolve, in a staging directory: from the stable version of that
\* moment, which must still be the one read first, and the inputs of that moment.
Resolve(r) ==
    /\ pc[r].at = "resolve"
    /\ IF stable = pc[r].generation
       THEN pc' = [pc EXCEPT ![r].at = "writePrompt", ![r].staged =
                [batch |-> pc[r].batch, roster |-> pc[r].roster,
                 attempt |-> pc[r].attempt, generation |-> stable,
                 inputSet |-> pc[r].inputSet,
                 prompt |-> [generation |-> stable, input |-> InputOf(Desk(r))]]]
       ELSE Stop(r)
    /\ UNCHANGED <<files, counts>>

WritePrompt(r) ==
    /\ pc[r].at = "writePrompt"
    /\ bundles' = [bundles EXCEPT ![Desk(r)].prompt = pc[r].staged.prompt]
    /\ Goto(r, "writeLock")
    /\ UNCHANGED <<stable, rosters, briefs, archives, runs, counts>>

WriteLock(r) ==
    /\ pc[r].at = "writeLock"
    /\ bundles' = [bundles EXCEPT ![Desk(r)].lock = pc[r].staged.generation]
    /\ Goto(r, "writeActivation")
    /\ UNCHANGED <<stable, rosters, briefs, archives, runs, counts>>

\* A mutant for TLC: the activation is published before its prompt.
WriteActivationFirst(r) ==
    /\ pc[r].at = "writePrompt"
    /\ bundles' = [bundles EXCEPT ![Desk(r)].activation = pc[r].staged]
    /\ Stop(r)
    /\ UNCHANGED <<stable, rosters, briefs, archives, runs, counts>>

\* Last, so that a bundle is published complete or not at all.
WriteActivation(r) ==
    /\ pc[r].at = "writeActivation"
    /\ bundles' = [bundles EXCEPT ![Desk(r)].activation = pc[r].staged]
    /\ Stop(r)
    /\ UNCHANGED <<stable, rosters, briefs, archives, runs, counts>>

\* The process dies, or raises where it leaves the same files behind: skillfoundry
\* fails, a file to be moved is gone, the disk is full.
Crash(r) ==
    /\ pc[r] # Idle
    /\ crashes < MaxCrashes
    /\ crashes' = crashes + 1
    /\ Stop(r)
    /\ UNCHANGED <<files, begun>>

-----------------------------------------------------------------------------
(* The run.  Each operation reads the files and commits once; the run journal  *)
(* refuses a commit that is behind (RunStore).                                 *)

Open(q) == runs[q].state \in {"DESIGNING", "AUTHORING"}

AttachBrief(q) ==
    /\ Open(q)
    /\ runs[q].contract["outline"] # NoFile
    /\ briefs[q] > 0
    /\ runs' = [runs EXCEPT ![q].brief = briefs[q]]
    /\ UNCHANGED <<stable, rosters, briefs, bundles, archives, pc, counts>>

\* accept_teacher_skill_activation()
AcceptActivation(q, stage) ==
    /\ Open(q)
    /\ stage = "author" => runs[q].brief > 0
    /\ Valid(<<q, stage>>)
    /\ runs' = [runs EXCEPT ![q].contract[stage] = Activation(<<q, stage>>)]
    /\ UNCHANGED <<stable, rosters, briefs, bundles, archives, pc, counts>>

Bound(q, stage) == runs[q].contract[stage]

\* A mutant for TLC: the Brief is not compared with the one that was bound.
KnowledgeWithoutBrief(q) ==
    /\ \A stage \in Stages :
           Activation(<<q, stage>>) = Bound(q, stage) /\ Valid(<<q, stage>>)
    /\ Bound(q, "outline").batch = Bound(q, "author").batch

\* _revalidate_teacher_knowledge(): both activations are bound, unchanged, valid
\* and of one batch, roster and version, and the Brief is the bound one.
KnowledgeHolds(q) ==
    /\ \A stage \in Stages :
           Activation(<<q, stage>>) = Bound(q, stage) /\ Valid(<<q, stage>>)
    /\ Bound(q, "outline").batch = Bound(q, "author").batch
    /\ Bound(q, "outline").roster = Bound(q, "author").roster
    /\ Bound(q, "outline").generation = Bound(q, "author").generation
    /\ runs[q].brief > 0
    /\ runs[q].brief = briefs[q]

BeginAuthoring(q) ==
    /\ runs[q].state = "DESIGNING"
    /\ KnowledgeHolds(q)
    /\ runs' = [runs EXCEPT ![q].state = "AUTHORING"]
    /\ UNCHANGED <<stable, rosters, briefs, bundles, archives, pc, counts>>

\* freeze_and_start_validation_session(), which Workflow models on.
FreezePackage(q) ==
    /\ runs[q].state = "AUTHORING"
    /\ KnowledgeHolds(q)
    /\ runs' = [runs EXCEPT ![q].state = "FROZEN"]
    /\ UNCHANGED <<stable, rosters, briefs, bundles, archives, pc, counts>>

\* begin_revision(): the Skill contract and the Brief are no revision-scoped
\* evidence, they are kept.
BeginRevision(q) ==
    /\ runs[q].state = "FROZEN"
    /\ runs' = [runs EXCEPT ![q].state = "AUTHORING"]
    /\ UNCHANGED <<stable, rosters, briefs, bundles, archives, pc, counts>>

-----------------------------------------------------------------------------
(* Around them: the Teacher writes the Brief, the first time with the outline's  *)
(* prompt in hand, and an evaluation of another batch promotes a candidate.      *)

WriteBrief(q) ==
    /\ briefs[q] < MaxBriefs
    /\ briefs[q] = 0 => Activation(<<q, "outline">>) # NoFile
    /\ briefs' = [briefs EXCEPT ![q] = @ + 1]
    /\ UNCHANGED <<stable, rosters, bundles, archives, runs, pc, counts>>

Promote ==
    /\ stable < MaxGeneration
    /\ stable' = stable + 1
    /\ UNCHANGED <<rosters, briefs, bundles, archives, runs, pc, counts>>

-----------------------------------------------------------------------------
ActivationInit ==
    /\ stable = 1
    /\ rosters = [b \in Batches |-> NoFile]
    /\ briefs = [q \in Questions |-> 0]
    /\ bundles = [desk \in Desks |->
           [activation |-> NoFile, prompt |-> NoFile, lock |-> NoFile]]
    /\ archives = {}
    /\ runs = [q \in Questions |->
           [state |-> "DESIGNING", brief |-> 0,
            contract |-> [stage \in Stages |-> NoFile]]]
    /\ pc = [r \in Resolvers |-> Idle]
    /\ begun = 0
    /\ crashes = 0

ResolverStep(r) ==
    \/ \E stage \in Stages, b \in Batches, roster \in Rosters, a \in Attempts :
           Start(r, stage, b, roster, a)
    \/ CreateRoster(r) \/ WriteRoster(r) \/ JoinRoster(r)
    \/ FindNone(r) \/ FindOwn(r) \/ FindOther(r)
    \/ MoveActivation(r) \/ MovePrompt(r) \/ MoveLock(r) \/ Seal(r)
    \/ Resolve(r) \/ WritePrompt(r) \/ WriteLock(r) \/ WriteActivation(r)
    \/ Crash(r)

RunStep(q) ==
    \/ AttachBrief(q)
    \/ \E stage \in Stages : AcceptActivation(q, stage)
    \/ BeginAuthoring(q) \/ FreezePackage(q) \/ BeginRevision(q)
    \/ WriteBrief(q)

ActivationNext ==
    \/ \E r \in Resolvers : ResolverStep(r)
    \/ \E q \in Questions : RunStep(q)
    \/ Promote

ActivationSpec == ActivationInit /\ [][ActivationNext]_skillVars

-----------------------------------------------------------------------------
Optional(S) == S \cup {NoFile}

Jobs ==
    [at : {"freeze", "writeRoster", "decide", "moveActivation", "movePrompt",
           "moveLock", "seal", "resolve", "writePrompt", "writeLock",
           "writeActivation"},
     stage : Stages, batch : Batches, roster : Rosters, attempt : Attempts,
     generation : Nat, inputSet : Nat, staged : Optional(Activations)]

Archives ==
    [desk : Desks, identity : Activations, activation : Optional(Activations),
     prompt : Optional(Prompts), lock : Optional(Nat), sealed : BOOLEAN]

\* Every file and every process in its type; a job that is beyond staging, or is
\* archiving, has an activation in its hands.
ActivationTypeOK ==
    /\ stable \in Nat
    /\ rosters \in [Batches ->
           Optional([questions : SUBSET Questions, generation : Nat])]
    /\ briefs \in [Questions -> Nat]
    /\ bundles \in [Desks ->
           [activation : Optional(Activations), prompt : Optional(Prompts),
            lock : Optional(Nat)]]
    /\ archives \subseteq Archives
    /\ runs \in [Questions ->
           [state : {"DESIGNING", "AUTHORING", "FROZEN"}, brief : Nat,
            contract : [Stages -> Optional(Activations)]]]
    /\ pc \in [Resolvers -> Jobs \cup {Idle}]
    /\ {begun, crashes} \subseteq Nat
    /\ \A r \in Resolvers :
           /\ pc[r] # Idle
           /\ pc[r].at \in {"writePrompt", "writeLock", "writeActivation",
                            "moveActivation", "movePrompt", "moveLock", "seal"}
           => pc[r].staged # NoFile

\* Every activation there is: on disk, in an archive, bound to a run.
Everywhere ==
    (({Activation(desk) : desk \in Desks}
      \cup {archive.activation : archive \in archives})
      \cup {Bound(q, stage) : q \in Questions, stage \in Stages}) \ {NoFile}

\* A batch has one roster and one stable version: all questions of it, in both
\* stages, on disk, archived or bound, were given the knowledge its roster froze,
\* however often the Skill Bank is promoted and whoever dies in between
\* (docs/design/direct-linear-validation-and-skill-evolution-v1.md:28).
BatchOneVersion ==
    \A activation \in Everywhere :
        rosters[activation.batch] =
            [questions |-> activation.roster, generation |-> activation.generation]

BundleCoherent ==
    \A desk \in Desks : Activation(desk) # NoFile =>
        /\ bundles[desk].prompt = Activation(desk).prompt
        /\ bundles[desk].lock = Activation(desk).generation

ArchiveFaithful ==
    \A archive \in archives : archive.sealed =>
        /\ archive.activation = archive.identity
        /\ archive.prompt = archive.identity.prompt
        /\ archive.lock = archive.identity.generation

\* An activation on disk has the prompt and the lock snapshot it was published with
\* beside it, and an archive with a manifest is the whole bundle of the activation
\* that names it: a process that dies while it publishes or archives leaves nothing
\* that passes for a bundle and is mixed of two (skillbank.py:554-556, 608, 629-649).
BundlesWhole == BundleCoherent /\ ArchiveFaithful

\* What is frozen was authored from the very Brief the run has bound, and with
\* both stages in one batch, after any number of rewritten Briefs, new batches and
\* revisions.
FrozenFromItsBrief ==
    \A q \in Questions : runs[q].state = "FROZEN" =>
        /\ Bound(q, "author") # NoFile /\ Bound(q, "outline") # NoFile
        /\ Bound(q, "author").prompt.input = runs[q].brief
        /\ Bound(q, "author").batch = Bound(q, "outline").batch

\* A running stage keeps its activation: no other attempt of the batch replaces it,
\* only a new batch supersedes it, and then it is archived first
\* (docs/design/self-contained-teacher-skill-runtime-v1.md:42).
AttemptStands ==
    [][\A desk \in Desks :
         Activation(desk) \notin {NoFile, Activation(desk)'} =>
             /\ Activation(desk)' = NoFile
             /\ \E archive \in archives' : archive.activation = Activation(desk)]_skillVars

\* Not kept by the code: input_set_sha256 is taken before the inputs are read for
\* the prompt, and is never compared with them.
InputSetBinds ==
    \A desk \in Desks : Activation(desk) # NoFile =>
        Activation(desk).inputSet = Activation(desk).prompt.input

\* Not kept by the code: a process that dies while it archives leaves an archive
\* that lacks the prompt, which the next resolution overwrites.
ArchiveComplete ==
    \A archive \in archives :
        \/ archive.sealed
        \/ \E r \in Resolvers : pc[r] # Idle /\ pc[r].staged = archive.identity

\* Not kept by the code: a process that dies between creating a roster and writing
\* it leaves an empty file, which no later resolution accepts or replaces.
RosterUsable ==
    \A b \in Batches : rosters[b] = Empty =>
        \E r \in Resolvers : pc[r].at = "writeRoster" /\ pc[r].batch = b
=============================================================================
