------------------------ MODULE SkillActivationProofs ------------------------
(***************************************************************************)
(* The knowledge a Teacher is given, for any number of questions, batches, *)
(* promotions, rewritten Briefs and processes that die.  A roster is the   *)
(* contract of every process that passed it, which is what makes a batch   *)
(* one version; a desk with one process at a time is published and         *)
(* archived file by file, and the invariant says how far each is.          *)
(***************************************************************************)
EXTENDS SkillActivation, TLAPS

Publishing == {"writePrompt", "writeLock", "writeActivation"}
Archiving == {"moveActivation", "movePrompt", "moveLock", "seal"}

-----------------------------------------------------------------------------
(* Types.                                                                    *)

\* A process that is doing something has a job at a desk, and holds an activation
\* when it publishes or archives one.
LEMMA JobOfResolver ==
    ASSUME ActivationTypeOK, NEW r \in Resolvers, pc[r].at # "idle"
    PROVE  /\ pc[r] \in Jobs
           /\ Desk(r) \in Desks
           /\ r[1] \in Questions
           /\ pc[r].at \in Publishing \cup Archiving => pc[r].staged \in Activations
<1>1. pc[r] # Idle
  BY DEF Idle
<1>2. pc[r] \in Jobs
  BY <1>1 DEF ActivationTypeOK
<1>3. r[1] \in Questions /\ Desk(r) \in Desks
  BY <1>2 DEF Resolvers, Desk, Desks, Jobs
<1>4. pc[r].at \in Publishing \cup Archiving => pc[r].staged # NoFile
  BY <1>1 DEF ActivationTypeOK, Publishing, Archiving
<1> QED BY <1>2, <1>3, <1>4 DEF Jobs, Optional

LEMMA InputType ==
    ASSUME ActivationTypeOK, NEW desk \in Desks
    PROVE  InputOf(desk) \in Nat
BY DEF InputOf, Desks, ActivationTypeOK

\* The files after a step of a process that only moves on.
LEMMA GotoType ==
    ASSUME ActivationTypeOK, NEW r \in Resolvers, pc[r].at # "idle",
           NEW label \in {"decide", "seal", "resolve", "movePrompt", "moveLock",
                          "writeLock", "writeActivation", "writeRoster"},
           label \in Publishing \cup Archiving => pc[r].at \in Publishing \cup Archiving,
           Goto(r, label)
    PROVE  /\ pc' \in [Resolvers -> Jobs \cup {Idle}]
           /\ \A x \in Resolvers :
                  pc'[x] # Idle /\ pc'[x].at \in Publishing \cup Archiving
                  => pc'[x].staged # NoFile
<1>1. pc[r] \in Jobs
  BY JobOfResolver
<1>2. [pc[r] EXCEPT !.at = label] \in Jobs
  BY <1>1 DEF Jobs
<1>3. /\ pc' = [pc EXCEPT ![r] = [pc[r] EXCEPT !.at = label]]
      /\ pc \in [Resolvers -> Jobs \cup {Idle}]
  BY DEF Goto, ActivationTypeOK
<1>4. pc' \in [Resolvers -> Jobs \cup {Idle}]
  BY <1>2, <1>3
<1>5. ASSUME NEW x \in Resolvers, pc'[x] # Idle, pc'[x].at \in Publishing \cup Archiving
      PROVE  pc'[x].staged # NoFile
  <2>1. CASE x = r
    <3>1. pc'[r].at = label /\ pc'[r].staged = pc[r].staged
      BY <1>1, <1>3 DEF Jobs
    <3>2. pc[r].at \in Publishing \cup Archiving
      BY <2>1, <3>1, <1>5
    <3> QED BY <2>1, <3>1, <3>2, JobOfResolver, ActivationAssumption
  <2>2. CASE x # r
    <3>1. pc'[x] = pc[x]
      BY <1>3, <2>2
    <3> QED BY <3>1, <1>5 DEF ActivationTypeOK, Publishing, Archiving
  <2> QED BY <2>1, <2>2
<1> QED BY <1>4, <1>5

LEMMA StopType ==
    ASSUME ActivationTypeOK, NEW r \in Resolvers, Stop(r)
    PROVE  /\ pc' \in [Resolvers -> Jobs \cup {Idle}]
           /\ \A x \in Resolvers :
                  pc'[x] # Idle /\ pc'[x].at \in Publishing \cup Archiving
                  => pc'[x].staged # NoFile
BY DEF Stop, ActivationTypeOK, Publishing, Archiving

\* A step that leaves the files alone and the jobs well typed.
LEMMA JobStepType ==
    ASSUME ActivationTypeOK, UNCHANGED <<stable, rosters, briefs, bundles, archives, runs>>,
           begun' \in Nat, crashes' \in Nat,
           pc' \in [Resolvers -> Jobs \cup {Idle}],
           \A x \in Resolvers :
                  pc'[x] # Idle /\ pc'[x].at \in Publishing \cup Archiving
                  => pc'[x].staged # NoFile
    PROVE  ActivationTypeOK'
BY DEF ActivationTypeOK, Publishing, Archiving

LEMMA StartType ==
    ASSUME ActivationTypeOK, NEW r \in Resolvers, NEW stage \in Stages,
           NEW batch \in Batches, NEW roster \in Rosters, NEW attempt \in Attempts,
           Start(r, stage, batch, roster, attempt)
    PROVE  ActivationTypeOK'
<1> DEFINE job == [at |-> "freeze", stage |-> stage, batch |-> batch,
                   roster |-> roster, attempt |-> attempt, generation |-> stable,
                   inputSet |-> 0, staged |-> NoFile]
<1>1. job \in Jobs
  BY DEF Jobs, Optional, ActivationTypeOK
<1>2. pc' = [pc EXCEPT ![r] = job] /\ begun' = begun + 1 /\ crashes' = crashes
  BY DEF Start
<1>3. pc' \in [Resolvers -> Jobs \cup {Idle}]
  BY <1>1, <1>2 DEF ActivationTypeOK
<1>4. ASSUME NEW x \in Resolvers, pc'[x] # Idle, pc'[x].at \in Publishing \cup Archiving
      PROVE  pc'[x].staged # NoFile
  BY <1>2, <1>4 DEF ActivationTypeOK, Publishing, Archiving
<1>5. begun' \in Nat /\ crashes' \in Nat
  BY <1>2 DEF ActivationTypeOK
<1>6. UNCHANGED <<stable, rosters, briefs, bundles, archives, runs>>
  BY DEF Start, files
<1> HIDE DEF job
<1> QED BY <1>3, <1>4, <1>5, <1>6, JobStepType

\* A process finds no activation, or one to supersede, and goes on with its input.
LEMMA FindType ==
    ASSUME ActivationTypeOK, NEW r \in Resolvers, FindNone(r) \/ FindOther(r)
    PROVE  ActivationTypeOK'
<1>1. /\ pc[r] \in Jobs /\ Desk(r) \in Desks /\ InputOf(Desk(r)) \in Nat
  BY JobOfResolver, InputType DEF FindNone, FindOther
<1>2. CASE FindNone(r)
  <2>1. [pc[r] EXCEPT !.at = "resolve", !.inputSet = InputOf(Desk(r))] \in Jobs
    BY <1>1 DEF Jobs
  <2>2. pc' = [pc EXCEPT ![r] =
                   [pc[r] EXCEPT !.at = "resolve", !.inputSet = InputOf(Desk(r))]]
    BY <1>2 DEF FindNone, ActivationTypeOK
  <2>3. pc' \in [Resolvers -> Jobs \cup {Idle}]
    BY <2>1, <2>2 DEF ActivationTypeOK
  <2>4. ASSUME NEW x \in Resolvers, pc'[x] # Idle, pc'[x].at \in Publishing \cup Archiving
        PROVE  pc'[x].staged # NoFile
    <3>1. x # r
      BY <1>1, <2>1, <2>2, <2>4 DEF ActivationTypeOK, Publishing, Archiving, Jobs
    <3> QED BY <2>2, <2>4, <3>1 DEF ActivationTypeOK, Publishing, Archiving
  <2>5. /\ UNCHANGED <<stable, rosters, briefs, bundles, archives, runs>>
        /\ begun' \in Nat /\ crashes' \in Nat
    BY <1>2 DEF FindNone, files, counts, ActivationTypeOK
  <2> QED BY <2>3, <2>4, <2>5, JobStepType
<1>3. CASE FindOther(r)
  <2> DEFINE activation == Activation(Desk(r))
             fresh == [desk |-> Desk(r), identity |-> activation, activation |-> NoFile,
                       prompt |-> NoFile, lock |-> NoFile, sealed |-> FALSE]
             job == [pc[r] EXCEPT !.at = "moveActivation", !.inputSet = InputOf(Desk(r)),
                                  !.staged = activation]
  <2>1. activation \in Activations
    BY <1>1, <1>3 DEF FindOther, Activation, ActivationTypeOK, Optional
  <2>2. fresh \in Archives /\ job \in Jobs /\ job.staged # NoFile
    BY <1>1, <2>1, ActivationAssumption DEF Archives, Jobs, Optional
  <2>3. \/ archives' = archives /\ Stop(r)
        \/ archives' = archives \cup {fresh} /\ pc' = [pc EXCEPT ![r] = job]
    BY <1>3 DEF FindOther, ActivationTypeOK
  <2>4. archives' \subseteq Archives
    BY <2>2, <2>3 DEF ActivationTypeOK
  <2>5. /\ pc' \in [Resolvers -> Jobs \cup {Idle}]
        /\ \A x \in Resolvers :
               pc'[x] # Idle /\ pc'[x].at \in Publishing \cup Archiving
               => pc'[x].staged # NoFile
    <3>1. CASE Stop(r)
      BY <3>1, StopType
    <3>2. CASE pc' = [pc EXCEPT ![r] = job]
      <4> HIDE DEF job
      <4> QED BY <2>2, <3>2 DEF ActivationTypeOK, Publishing, Archiving
    <3> QED BY <2>3, <3>1, <3>2
  <2> QED BY <1>3, <2>4, <2>5 DEF FindOther, ActivationTypeOK, counts, Publishing, Archiving
<1> QED BY <1>2, <1>3

LEMMA ArchivingType ==
    ASSUME ActivationTypeOK, NEW r \in Resolvers,
           MoveActivation(r) \/ MovePrompt(r) \/ MoveLock(r) \/ Seal(r)
    PROVE  ActivationTypeOK'
<1>1. pc[r].at \in Archiving
  BY DEF MoveActivation, MovePrompt, MoveLock, Seal, Archiving
<1>2. Desk(r) \in Desks /\ pc[r] \in Jobs
  BY <1>1, JobOfResolver DEF Archiving
<1>3. bundles[Desk(r)] \in
          [activation : Optional(Activations), prompt : Optional(Prompts), lock : Optional(Nat)]
  BY <1>2 DEF ActivationTypeOK
<1>4. InHand(r) \subseteq archives
  BY DEF InHand
<1>5. archives' \subseteq Archives
  <2>1. CASE MoveActivation(r)
    BY <2>1, <1>3, <1>4 DEF MoveActivation, Change, Activation, ActivationTypeOK, Archives
  <2>2. CASE MovePrompt(r)
    BY <2>2, <1>3, <1>4 DEF MovePrompt, Change, ActivationTypeOK, Archives
  <2>3. CASE MoveLock(r)
    BY <2>3, <1>3, <1>4 DEF MoveLock, Change, ActivationTypeOK, Archives
  <2>4. CASE Seal(r)
    <3>1. \A archive \in archives : [archive EXCEPT !["sealed"] = TRUE] \in Archives
      BY DEF ActivationTypeOK, Archives
    <3>2. archives' = (archives \ InHand(r)) \cup
                      {[archive EXCEPT !["sealed"] = TRUE] : archive \in InHand(r)}
      BY <2>4 DEF Seal, Change
    <3> QED BY <1>4, <3>1, <3>2 DEF ActivationTypeOK
  <2> QED BY <2>1, <2>2, <2>3, <2>4
<1>6. bundles' \in [Desks -> [activation : Optional(Activations),
                              prompt : Optional(Prompts), lock : Optional(Nat)]]
  <2>1. CASE MoveActivation(r)
    BY <2>1, <1>2, <1>3 DEF MoveActivation, ActivationTypeOK, Optional
  <2>2. CASE MovePrompt(r)
    BY <2>2, <1>2, <1>3 DEF MovePrompt, ActivationTypeOK, Optional
  <2>3. CASE MoveLock(r)
    BY <2>3, <1>2, <1>3 DEF MoveLock, ActivationTypeOK, Optional
  <2>4. CASE Seal(r)
    BY <2>4 DEF Seal, ActivationTypeOK
  <2> QED BY <2>1, <2>2, <2>3, <2>4
<1>7. /\ pc' \in [Resolvers -> Jobs \cup {Idle}]
      /\ \A x \in Resolvers :
             pc'[x] # Idle /\ pc'[x].at \in Publishing \cup Archiving
             => pc'[x].staged # NoFile
  BY <1>1, GotoType DEF MoveActivation, MovePrompt, MoveLock, Seal, Archiving
<1> QED BY <1>5, <1>6, <1>7
        DEF MoveActivation, MovePrompt, MoveLock, Seal, counts, ActivationTypeOK,
            Publishing, Archiving

LEMMA PublishingType ==
    ASSUME ActivationTypeOK, NEW r \in Resolvers,
           WritePrompt(r) \/ WriteLock(r) \/ WriteActivation(r)
    PROVE  ActivationTypeOK'
<1>1. pc[r].at \in Publishing
  BY DEF WritePrompt, WriteLock, WriteActivation, Publishing
<1>2. Desk(r) \in Desks /\ pc[r].staged \in Activations
  BY <1>1, JobOfResolver DEF Publishing
<1>3. bundles' \in [Desks -> [activation : Optional(Activations),
                              prompt : Optional(Prompts), lock : Optional(Nat)]]
  BY <1>2 DEF WritePrompt, WriteLock, WriteActivation, ActivationTypeOK, Optional, Activations
<1>4. /\ pc' \in [Resolvers -> Jobs \cup {Idle}]
      /\ \A x \in Resolvers :
             pc'[x] # Idle /\ pc'[x].at \in Publishing \cup Archiving
             => pc'[x].staged # NoFile
  BY <1>1, GotoType, StopType DEF WritePrompt, WriteLock, WriteActivation, Publishing
<1> QED BY <1>3, <1>4
        DEF WritePrompt, WriteLock, WriteActivation, counts, ActivationTypeOK,
            Publishing, Archiving

LEMMA ResolveType ==
    ASSUME ActivationTypeOK, NEW r \in Resolvers, Resolve(r)
    PROVE  ActivationTypeOK'
<1> DEFINE staged == [batch |-> pc[r].batch, roster |-> pc[r].roster,
                 attempt |-> pc[r].attempt, generation |-> stable,
                 inputSet |-> pc[r].inputSet,
                 prompt |-> [generation |-> stable, input |-> InputOf(Desk(r))]]
           job == [pc[r] EXCEPT !.at = "writePrompt", !.staged = staged]
<1>1. /\ pc[r] \in Jobs /\ Desk(r) \in Desks /\ InputOf(Desk(r)) \in Nat
  BY JobOfResolver, InputType DEF Resolve
<1>2. staged \in Activations
  BY <1>1 DEF Activations, Prompts, Jobs, ActivationTypeOK
<1>3. pc' = [pc EXCEPT ![r] = job] \/ Stop(r)
  BY DEF Resolve, ActivationTypeOK
<1> HIDE DEF staged
<1>4. job \in Jobs /\ job.staged # NoFile
  BY <1>1, <1>2, ActivationAssumption DEF Jobs, Optional
<1> HIDE DEF job
<1>5. /\ pc' \in [Resolvers -> Jobs \cup {Idle}]
      /\ \A x \in Resolvers :
             pc'[x] # Idle /\ pc'[x].at \in Publishing \cup Archiving
             => pc'[x].staged # NoFile
  <2>1. CASE Stop(r)
    BY <2>1, StopType
  <2>2. CASE pc' = [pc EXCEPT ![r] = job]
    BY <1>4, <2>2 DEF ActivationTypeOK, Publishing, Archiving
  <2> QED BY <1>3, <2>1, <2>2
<1>6. /\ UNCHANGED <<stable, rosters, briefs, bundles, archives, runs>>
      /\ begun' \in Nat /\ crashes' \in Nat
  BY DEF Resolve, files, counts, ActivationTypeOK
<1> QED BY <1>5, <1>6, JobStepType

LEMMA RosterType ==
    ASSUME ActivationTypeOK, NEW r \in Resolvers,
           CreateRoster(r) \/ WriteRoster(r) \/ JoinRoster(r)
    PROVE  ActivationTypeOK'
<1>1. pc[r] \in Jobs
  BY JobOfResolver DEF CreateRoster, WriteRoster, JoinRoster
<1>2. /\ pc' \in [Resolvers -> Jobs \cup {Idle}]
      /\ \A x \in Resolvers :
             pc'[x] # Idle /\ pc'[x].at \in Publishing \cup Archiving
             => pc'[x].staged # NoFile
  BY GotoType, StopType DEF CreateRoster, WriteRoster, JoinRoster, Publishing, Archiving
<1>3. rosters' \in [Batches -> Optional([questions : SUBSET Questions, generation : Nat])]
  <2>1. Contract(pc[r]) \in [questions : SUBSET Questions, generation : Nat]
    BY <1>1, ActivationAssumption DEF Contract, Jobs
  <2>2. Empty \in [questions : SUBSET Questions, generation : Nat]
    BY DEF Empty
  <2> QED BY <1>1, <2>1, <2>2
          DEF CreateRoster, WriteRoster, JoinRoster, files, Jobs, ActivationTypeOK, Optional
<1> QED BY <1>2, <1>3
        DEF CreateRoster, WriteRoster, JoinRoster, files, counts, ActivationTypeOK,
            Publishing, Archiving

LEMMA RunStepType ==
    ASSUME ActivationTypeOK, NEW q \in Questions, RunStep(q)
    PROVE  ActivationTypeOK'
<1> DEFINE Runs == [state : {"DESIGNING", "AUTHORING", "FROZEN"}, brief : Nat,
                    contract : [Stages -> Optional(Activations)]]
<1>1. runs[q] \in Runs
  BY DEF ActivationTypeOK
<1>2. /\ runs' \in [Questions -> Runs]
      /\ briefs' \in [Questions -> Nat]
      /\ UNCHANGED <<stable, rosters, bundles, archives, pc, counts>>
  <2>1. CASE AttachBrief(q)
    BY <1>1, <2>1 DEF AttachBrief, ActivationTypeOK
  <2>2. ASSUME NEW stage \in Stages, AcceptActivation(q, stage)
        PROVE  /\ runs' \in [Questions -> Runs]
               /\ briefs' \in [Questions -> Nat]
               /\ UNCHANGED <<stable, rosters, bundles, archives, pc, counts>>
    <3>1. Activation(<<q, stage>>) \in Optional(Activations)
      BY DEF Activation, Desks, ActivationTypeOK
    <3> QED BY <1>1, <2>2, <3>1 DEF AcceptActivation, ActivationTypeOK
  <2>3. CASE BeginAuthoring(q) \/ FreezePackage(q) \/ BeginRevision(q)
    BY <1>1, <2>3 DEF BeginAuthoring, FreezePackage, BeginRevision, ActivationTypeOK
  <2>4. CASE WriteBrief(q)
    BY <1>1, <2>4 DEF WriteBrief, ActivationTypeOK
  <2> QED BY <2>1, <2>2, <2>3, <2>4 DEF RunStep
<1> QED BY <1>2 DEF ActivationTypeOK, counts

\* Every reachable state is well typed, for any number of questions and processes.
THEOREM ActivationTypeCorrect == ActivationSpec => []ActivationTypeOK
<1>1. ActivationInit => ActivationTypeOK
  BY DEF ActivationInit, ActivationTypeOK, Optional, Idle
<1>2. ActivationTypeOK /\ [ActivationNext]_skillVars => ActivationTypeOK'
  <2> SUFFICES ASSUME ActivationTypeOK, [ActivationNext]_skillVars
               PROVE  ActivationTypeOK'
    OBVIOUS
  <2>1. ASSUME NEW r \in Resolvers, ResolverStep(r) PROVE ActivationTypeOK'
    <3>1. CASE \E stage \in Stages, b \in Batches, roster \in Rosters, a \in Attempts :
                   Start(r, stage, b, roster, a)
      BY <3>1, StartType
    <3>2. CASE CreateRoster(r) \/ WriteRoster(r) \/ JoinRoster(r)
      BY <3>2, RosterType
    <3>3. CASE FindNone(r) \/ FindOther(r)
      BY <3>3, FindType
    <3>4. CASE FindOwn(r) \/ Crash(r)
      <4>1. UNCHANGED <<stable, rosters, briefs, bundles, archives, runs>>
            /\ begun' \in Nat /\ crashes' \in Nat /\ Stop(r)
        BY <3>4 DEF FindOwn, Crash, files, counts, ActivationTypeOK
      <4> QED BY <4>1, StopType, JobStepType
    <3>5. CASE MoveActivation(r) \/ MovePrompt(r) \/ MoveLock(r) \/ Seal(r)
      BY <3>5, ArchivingType
    <3>6. CASE WritePrompt(r) \/ WriteLock(r) \/ WriteActivation(r)
      BY <3>6, PublishingType
    <3>7. CASE Resolve(r)
      BY <3>7, ResolveType
    <3> QED BY <2>1, <3>1, <3>2, <3>3, <3>4, <3>5, <3>6, <3>7 DEF ResolverStep
  <2>2. ASSUME NEW q \in Questions, RunStep(q) PROVE ActivationTypeOK'
    BY <2>2, RunStepType
  <2>3. CASE Promote
    <3>1. stable' \in Nat
      BY <2>3 DEF Promote, ActivationTypeOK
    <3> QED BY <2>3, <3>1 DEF Promote, counts, ActivationTypeOK
  <2>4. CASE UNCHANGED skillVars
    BY <2>4 DEF skillVars, counts, ActivationTypeOK
  <2> QED BY <2>1, <2>2, <2>3, <2>4 DEF ActivationNext
<1> QED BY <1>1, <1>2, PTL DEF ActivationSpec

-----------------------------------------------------------------------------
(* One version for each batch.                                               *)

PastRoster == {"decide", "resolve"} \cup Archiving \cup Publishing

GivenBy(activation) ==
    /\ rosters[activation.batch] =
           [questions |-> activation.roster, generation |-> activation.generation]
    /\ activation.generation > 0

\* A batch whose roster is being written is nobody's yet; whoever is past it works
\* with its contract, and so does everything that was published.
RosterInv ==
    /\ stable > 0
    /\ \A activation \in Everywhere : GivenBy(activation)
    /\ \A r \in Resolvers :
           /\ pc[r].at # "idle" => pc[r].generation > 0
           /\ pc[r].at = "writeRoster" => rosters[pc[r].batch] = Empty
           /\ pc[r].at \in PastRoster => rosters[pc[r].batch] = Contract(pc[r])
           /\ pc[r].at \in Publishing =>
                  /\ pc[r].staged.batch = pc[r].batch
                  /\ pc[r].staged.roster = pc[r].roster
                  /\ pc[r].staged.generation = pc[r].generation
    /\ \A r, x \in Resolvers :
           /\ pc[r].at = "writeRoster" /\ pc[x].at = "writeRoster"
           /\ pc[r].batch = pc[x].batch
           => r = x

\* A roster changes only while it is missing or empty.
LEMMA RosterStep ==
    ASSUME ActivationTypeOK, RosterInv, [ActivationNext]_skillVars, NEW b \in Batches
    PROVE  rosters'[b] = rosters[b] \/ rosters[b] = NoFile \/ rosters[b] = Empty
<1>1. ASSUME NEW r \in Resolvers, CreateRoster(r) \/ WriteRoster(r)
      PROVE  rosters'[b] = rosters[b] \/ rosters[b] = NoFile \/ rosters[b] = Empty
  BY <1>1 DEF CreateRoster, WriteRoster, ActivationTypeOK, RosterInv
<1>2. CASE UNCHANGED rosters
  BY <1>2
<1> QED BY <1>1, <1>2
    DEF ActivationNext, ResolverStep, RunStep, Start, JoinRoster, FindNone, FindOwn,
        FindOther, MoveActivation, MovePrompt, MoveLock, Seal, Resolve, WritePrompt,
        WriteLock, WriteActivation, Crash, AttachBrief, AcceptActivation, BeginAuthoring,
        FreezePackage, BeginRevision, WriteBrief, Promote, files, skillVars

\* A contract that was written stands.
LEMMA ContractStands ==
    ASSUME ActivationTypeOK, RosterInv, [ActivationNext]_skillVars, NEW b \in Batches,
           NEW questions \in SUBSET Questions, NEW generation \in Nat \ {0},
           rosters[b] = [questions |-> questions, generation |-> generation]
    PROVE  rosters'[b] = rosters[b]
<1>1. rosters[b] # NoFile
  BY ActivationAssumption
<1>2. rosters[b] # Empty
  BY DEF Empty
<1> QED BY <1>1, <1>2, RosterStep

\* Whatever is somewhere after a step was somewhere before it, or is published now.
LEMMA NothingNew ==
    ASSUME ActivationTypeOK, [ActivationNext]_skillVars, NEW activation \in Everywhere'
    PROVE  \/ activation \in Everywhere
           \/ \E r \in Resolvers :
                  pc[r].at = "writeActivation" /\ activation = pc[r].staged
<1> DEFINE Before == \/ activation \in Everywhere
                     \/ \E r \in Resolvers :
                            pc[r].at = "writeActivation" /\ activation = pc[r].staged
<1>0. activation # NoFile
  BY DEF Everywhere
<1>1. ASSUME NEW desk \in Desks, activation = Activation(desk)'
      PROVE  Before
  <2>1. CASE Activation(desk)' = Activation(desk)
    BY <1>0, <1>1, <2>1 DEF Everywhere
  <2>2. ASSUME NEW r \in Resolvers, MoveActivation(r) \/ WriteActivation(r) PROVE Before
    <3>1. Desk(r) \in Desks
      BY <2>2, JobOfResolver DEF MoveActivation, WriteActivation
    <3>2. CASE MoveActivation(r)
      <4>1. bundles'[desk] = IF desk = Desk(r)
                             THEN [bundles[desk] EXCEPT !.activation = NoFile]
                             ELSE bundles[desk]
        BY <3>1, <3>2 DEF MoveActivation, ActivationTypeOK
      <4>2. bundles'[desk].activation \in {bundles[desk].activation, NoFile}
        BY <4>1 DEF ActivationTypeOK
      <4> QED BY <1>0, <1>1, <2>1, <4>2 DEF Activation
    <3>3. CASE WriteActivation(r)
      <4>1. bundles'[desk] = IF desk = Desk(r)
                             THEN [bundles[desk] EXCEPT !.activation = pc[r].staged]
                             ELSE bundles[desk]
        BY <3>1, <3>3 DEF WriteActivation, ActivationTypeOK
      <4>2. bundles'[desk].activation \in {bundles[desk].activation, pc[r].staged}
        BY <4>1 DEF ActivationTypeOK
      <4> QED BY <1>1, <2>1, <3>3, <4>2 DEF Activation, WriteActivation
    <3> QED BY <2>2, <3>2, <3>3
  <2>3. ASSUME NEW r \in Resolvers,
               MovePrompt(r) \/ MoveLock(r) \/ WritePrompt(r) \/ WriteLock(r)
        PROVE  Activation(desk)' = Activation(desk)
    <3>1. Desk(r) \in Desks
      BY <2>3, JobOfResolver DEF MovePrompt, MoveLock, WritePrompt, WriteLock
    <3>2. CASE MovePrompt(r)
      BY <3>1, <3>2 DEF MovePrompt, Activation, ActivationTypeOK
    <3>3. CASE MoveLock(r)
      BY <3>1, <3>3 DEF MoveLock, Activation, ActivationTypeOK
    <3>4. CASE WritePrompt(r)
      BY <3>1, <3>4 DEF WritePrompt, Activation, ActivationTypeOK
    <3>5. CASE WriteLock(r)
      BY <3>1, <3>5 DEF WriteLock, Activation, ActivationTypeOK
    <3> QED BY <2>3, <3>2, <3>3, <3>4, <3>5
  <2>4. UNCHANGED bundles => Activation(desk)' = Activation(desk)
    BY DEF Activation
  <2> QED BY <2>1, <2>2, <2>3, <2>4
      DEF ActivationNext, ResolverStep, RunStep, Start, CreateRoster, WriteRoster,
          JoinRoster, FindNone, FindOwn, FindOther, Seal, Resolve, Crash, AttachBrief,
          AcceptActivation, BeginAuthoring, FreezePackage, BeginRevision, WriteBrief,
          Promote, files, skillVars
<1>2. ASSUME NEW archive \in archives', activation = archive.activation
      PROVE  Before
  <2>1. CASE archive \in archives
    BY <1>0, <1>2, <2>1 DEF Everywhere
  <2>2. ASSUME NEW r \in Resolvers, FindOther(r) PROVE Before
    <3>1. archive \in archives \/ archive.activation = NoFile
      BY <2>2 DEF FindOther
    <3> QED BY <1>0, <1>2, <2>1, <3>1
  <2>3. ASSUME NEW r \in Resolvers, MovePrompt(r) \/ MoveLock(r) \/ Seal(r) PROVE Before
    <3>1. PICK old \in archives : archive.activation = old.activation
      BY <2>3 DEF MovePrompt, MoveLock, Seal, Change, InHand, ActivationTypeOK, Archives
    <3> QED BY <1>0, <1>2, <3>1 DEF Everywhere
  <2>4. ASSUME NEW r \in Resolvers, MoveActivation(r) PROVE Before
    <3>1. archive \in archives \/ archive.activation = Activation(Desk(r))
      BY <2>4 DEF MoveActivation, Change, InHand, ActivationTypeOK, Archives
    <3>2. Desk(r) \in Desks
      BY <2>4, JobOfResolver DEF MoveActivation
    <3> QED BY <1>0, <1>2, <2>1, <3>1, <3>2 DEF Everywhere
  <2>5. UNCHANGED archives => Before
    BY <1>2, <2>1
  <2> QED BY <2>2, <2>3, <2>4, <2>5
      DEF ActivationNext, ResolverStep, RunStep, Start, CreateRoster, WriteRoster,
          JoinRoster, FindNone, FindOwn, Resolve, WritePrompt, WriteLock, WriteActivation,
          Crash, AttachBrief, AcceptActivation, BeginAuthoring, FreezePackage,
          BeginRevision, WriteBrief, Promote, files, skillVars
<1>3. ASSUME NEW q \in Questions, NEW stage \in Stages, activation = Bound(q, stage)'
      PROVE  Before
  <2>1. CASE Bound(q, stage)' = Bound(q, stage)
    BY <1>0, <1>3, <2>1 DEF Everywhere
  <2>2. ASSUME NEW p \in Questions, NEW s \in Stages, AcceptActivation(p, s) PROVE Before
    <3>1. Bound(q, stage)' = Bound(q, stage) \/ Bound(q, stage)' = Activation(<<p, s>>)
      BY <2>2 DEF AcceptActivation, Bound, ActivationTypeOK
    <3>2. <<p, s>> \in Desks
      BY DEF Desks
    <3> QED BY <1>0, <1>3, <2>1, <3>1, <3>2 DEF Everywhere
  <2>3. ASSUME NEW p \in Questions,
               AttachBrief(p) \/ BeginAuthoring(p) \/ FreezePackage(p) \/ BeginRevision(p)
        PROVE  Bound(q, stage)' = Bound(q, stage)
    BY <2>3 DEF AttachBrief, BeginAuthoring, FreezePackage, BeginRevision, Bound,
                ActivationTypeOK
  <2>4. UNCHANGED runs => Bound(q, stage)' = Bound(q, stage)
    BY DEF Bound
  <2> QED BY <2>1, <2>2, <2>3, <2>4
      DEF ActivationNext, ResolverStep, RunStep, Start, CreateRoster, WriteRoster,
          JoinRoster, FindNone, FindOwn, FindOther, MoveActivation, MovePrompt, MoveLock,
          Seal, Resolve, WritePrompt, WriteLock, WriteActivation, Crash, WriteBrief,
          Promote, files, skillVars
<1> QED BY <1>1, <1>2, <1>3 DEF Everywhere

\* A step of a process leaves the jobs of the others alone.
LEMMA OthersWait ==
    ASSUME ActivationTypeOK, NEW r \in Resolvers, NEW x \in Resolvers, x # r,
           ResolverStep(x)
    PROVE  pc'[r] = pc[r]
BY DEF ResolverStep, Start, CreateRoster, WriteRoster, JoinRoster, FindNone, FindOwn,
       FindOther, MoveActivation, MovePrompt, MoveLock, Seal, Resolve, WritePrompt,
       WriteLock, WriteActivation, Crash, Goto, Stop, files, ActivationTypeOK

\* The steps of a job after its roster: it keeps what it is about, and stages what
\* its own contract says.
Continued(r) ==
    /\ pc[r].at \in PastRoster /\ pc'[r].at \in PastRoster
    /\ pc'[r].batch = pc[r].batch
    /\ pc'[r].roster = pc[r].roster
    /\ pc'[r].generation = pc[r].generation
    /\ UNCHANGED rosters
    /\ pc'[r].at \in Publishing =>
           \/ pc[r].at \in Publishing /\ pc'[r].staged = pc[r].staged
           \/ /\ pc'[r].staged.batch = pc[r].batch
              /\ pc'[r].staged.roster = pc[r].roster
              /\ pc'[r].staged.generation = pc[r].generation

JobMoves(r) ==
    \/ pc'[r] = Idle /\ UNCHANGED rosters
    \/ \E stage \in Stages, b \in Batches, roster \in Rosters, a \in Attempts :
           Start(r, stage, b, roster, a)
    \/ CreateRoster(r) \/ WriteRoster(r)
    \/ JoinRoster(r) /\ Agrees(pc[r]) /\ Goto(r, "decide")
    \/ Continued(r)

LEMMA JobStep ==
    ASSUME ActivationTypeOK, NEW r \in Resolvers, ResolverStep(r)
    PROVE  JobMoves(r)
<1>1. CASE FindOwn(r) \/ WriteActivation(r) \/ Crash(r) \/ (JoinRoster(r) /\ ~Agrees(pc[r]))
  BY <1>1 DEF FindOwn, WriteActivation, Crash, JoinRoster, Stop, files, ActivationTypeOK, JobMoves
<1>2. CASE JoinRoster(r) /\ Agrees(pc[r])
  BY <1>2 DEF JoinRoster, JobMoves
<1>3. CASE FindNone(r)
  <2>1. pc[r] \in Jobs
    BY <1>3, JobOfResolver DEF FindNone
  <2>2. pc'[r] = [pc[r] EXCEPT !.at = "resolve", !.inputSet = InputOf(Desk(r))]
    BY <1>3 DEF FindNone, ActivationTypeOK
  <2>3. UNCHANGED rosters /\ pc[r].at = "decide"
    BY <1>3 DEF FindNone, files
  <2>4. /\ pc'[r].at = "resolve" /\ pc'[r].batch = pc[r].batch
        /\ pc'[r].roster = pc[r].roster /\ pc'[r].generation = pc[r].generation
    BY <2>1, <2>2 DEF Jobs
  <2> QED BY <2>3, <2>4 DEF Continued, PastRoster, Publishing, JobMoves
<1>4. CASE FindOther(r)
  <2>1. pc[r] \in Jobs
    BY <1>4, JobOfResolver DEF FindOther
  <2>2. \/ pc'[r] = Idle
        \/ pc'[r] = [pc[r] EXCEPT !.at = "moveActivation", !.inputSet = InputOf(Desk(r)),
                                  !.staged = Activation(Desk(r))]
    BY <1>4 DEF FindOther, Stop, ActivationTypeOK
  <2> QED BY <1>4, <2>1, <2>2
          DEF FindOther, Jobs, Continued, PastRoster, Publishing, Archiving, JobMoves
<1>5. CASE MoveActivation(r) \/ MovePrompt(r) \/ MoveLock(r) \/ Seal(r) \/ WritePrompt(r)
           \/ WriteLock(r)
  <2>1. /\ pc[r].at \in Archiving \cup {"writePrompt", "writeLock"}
        /\ UNCHANGED rosters
    BY <1>5 DEF MoveActivation, MovePrompt, MoveLock, Seal, WritePrompt, WriteLock, Archiving
  <2>2. pc[r] \in Jobs
    BY <2>1, JobOfResolver DEF Archiving
  <2>3. PICK label \in {"movePrompt", "moveLock", "seal", "resolve", "writeLock",
                        "writeActivation"} :
            /\ pc'[r] = [pc[r] EXCEPT !.at = label]
            /\ label \in Publishing => pc[r].at \in Publishing
    BY <1>5 DEF MoveActivation, MovePrompt, MoveLock, Seal, WritePrompt, WriteLock, Goto,
                Publishing, ActivationTypeOK
  <2> QED BY <2>1, <2>2, <2>3 DEF Jobs, Continued, PastRoster, Publishing, Archiving, JobMoves
<1>6. CASE Resolve(r)
  <2>1. pc[r] \in Jobs
    BY <1>6, JobOfResolver DEF Resolve
  <2> DEFINE staged == [batch |-> pc[r].batch, roster |-> pc[r].roster,
                 attempt |-> pc[r].attempt, generation |-> stable,
                 inputSet |-> pc[r].inputSet,
                 prompt |-> [generation |-> stable, input |-> InputOf(Desk(r))]]
  <2>2. \/ pc'[r] = Idle
        \/ /\ stable = pc[r].generation
           /\ pc'[r] = [pc[r] EXCEPT !.at = "writePrompt", !.staged = staged]
    BY <1>6 DEF Resolve, Stop, ActivationTypeOK
  <2>3. UNCHANGED rosters /\ pc[r].at = "resolve"
    BY <1>6 DEF Resolve, files
  <2>4. CASE pc'[r] = Idle
    BY <2>3, <2>4 DEF JobMoves
  <2>5. CASE pc'[r] # Idle
    <3>1. /\ pc'[r].at = "writePrompt" /\ pc'[r].batch = pc[r].batch
          /\ pc'[r].roster = pc[r].roster /\ pc'[r].generation = pc[r].generation
          /\ pc'[r].staged = staged /\ staged.generation = pc[r].generation
      BY <2>1, <2>2, <2>5 DEF Jobs
    <3> QED BY <2>3, <3>1 DEF Continued, PastRoster, Publishing, JobMoves
  <2> QED BY <2>4, <2>5
<1>7. CASE \E stage \in Stages, b \in Batches, roster \in Rosters, a \in Attempts :
               Start(r, stage, b, roster, a)
  BY <1>7 DEF JobMoves
<1>8. CASE CreateRoster(r) \/ WriteRoster(r)
  BY <1>8 DEF JobMoves
<1>9. CASE JoinRoster(r)
  BY <1>1, <1>2, <1>9
<1> QED BY <1>1, <1>3, <1>4, <1>5, <1>6, <1>7, <1>8, <1>9 DEF ResolverStep

LEMMA EverywhereTyped ==
    ASSUME ActivationTypeOK
    PROVE  Everywhere \subseteq Activations
BY DEF Everywhere, Activation, Bound, ActivationTypeOK, Archives, Optional

LEMMA ActivationFields ==
    ASSUME NEW activation \in Activations
    PROVE  /\ activation.batch \in Batches
           /\ activation.roster \in SUBSET Questions
           /\ activation.generation \in Nat
BY ActivationAssumption DEF Activations

LEMMA GivenStands ==
    ASSUME ActivationTypeOK, RosterInv, [ActivationNext]_skillVars,
           NEW activation \in Activations, GivenBy(activation)
    PROVE  GivenBy(activation)'
BY ActivationFields, ContractStands DEF GivenBy

\* The jobs after a step, one by one.
LEMMA JobsAfter ==
    ASSUME ActivationTypeOK, ActivationTypeOK', RosterInv, [ActivationNext]_skillVars,
           NEW r \in Resolvers
    PROVE  /\ pc'[r].at # "idle" => pc'[r].generation > 0
           /\ pc'[r].at = "writeRoster" => rosters'[pc'[r].batch] = Empty
           /\ pc'[r].at \in PastRoster => rosters'[pc'[r].batch] = Contract(pc'[r])
           /\ pc'[r].at \in Publishing =>
                  /\ pc'[r].staged.batch = pc'[r].batch
                  /\ pc'[r].staged.roster = pc'[r].roster
                  /\ pc'[r].staged.generation = pc'[r].generation
<1>1. CASE pc'[r] = pc[r]
  <2>1. SUFFICES ASSUME pc[r].at # "idle", pc[r] \in Jobs
                 PROVE  /\ pc[r].at = "writeRoster" => rosters'[pc[r].batch] = Empty
                        /\ pc[r].at \in PastRoster => rosters'[pc[r].batch] = Contract(pc[r])
    BY <1>1, JobOfResolver DEF RosterInv, Contract, PastRoster, Publishing, Archiving
  <2>2. ASSUME pc[r].at \in PastRoster
        PROVE  rosters'[pc[r].batch] = Contract(pc[r])
    <3>1. /\ pc[r].roster \in SUBSET Questions /\ pc[r].generation \in Nat \ {0}
          /\ pc[r].batch \in Batches
      BY <2>1, ActivationAssumption DEF RosterInv, Jobs
    <3>2. rosters[pc[r].batch] = [questions |-> pc[r].roster, generation |-> pc[r].generation]
      BY <2>2 DEF RosterInv, Contract
    <3> QED BY <3>1, <3>2, ContractStands DEF Contract
  <2>3. ASSUME pc[r].at = "writeRoster"
        PROVE  rosters'[pc[r].batch] = Empty
    <3>1. rosters[pc[r].batch] = Empty /\ Empty # NoFile /\ pc[r].batch \in Batches
      BY <2>1, <2>3, ActivationAssumption DEF RosterInv, Empty, Jobs
    <3>2. ASSUME NEW x \in Resolvers, CreateRoster(x) \/ WriteRoster(x)
          PROVE  rosters'[pc[r].batch] = Empty
      <4>1. CASE CreateRoster(x)
        BY <3>1, <4>1 DEF CreateRoster, ActivationTypeOK
      <4>2. CASE WriteRoster(x)
        <5>1. pc'[x].at = "decide"
          <6>1. pc[x] \in Jobs
            BY <4>2, JobOfResolver DEF WriteRoster
          <6> QED BY <4>2, <6>1 DEF WriteRoster, Goto, Jobs, ActivationTypeOK
        <5>2. x # r
          BY <1>1, <2>3, <5>1
        <5>3. pc[x].batch # pc[r].batch
          BY <2>3, <4>2, <5>2 DEF WriteRoster, RosterInv
        <5> QED BY <3>1, <4>2, <5>3 DEF WriteRoster, ActivationTypeOK
      <4> QED BY <3>2, <4>1, <4>2
    <3>3. CASE UNCHANGED rosters
      BY <3>1, <3>3
    <3> QED BY <3>2, <3>3
        DEF ActivationNext, ResolverStep, RunStep, Start, JoinRoster, FindNone, FindOwn,
            FindOther, MoveActivation, MovePrompt, MoveLock, Seal, Resolve, WritePrompt,
            WriteLock, WriteActivation, Crash, AttachBrief, AcceptActivation,
            BeginAuthoring, FreezePackage, BeginRevision, WriteBrief, Promote, files,
            skillVars
  <2> QED BY <2>2, <2>3
<1>2. CASE pc'[r] = Idle
  BY <1>2 DEF Idle, PastRoster, Publishing, Archiving
<1>3. CASE ResolverStep(r) /\ pc'[r] # Idle
  <2>1. ASSUME NEW stage \in Stages, NEW b \in Batches, NEW roster \in Rosters,
               NEW a \in Attempts, Start(r, stage, b, roster, a)
        PROVE  pc'[r].at = "freeze" /\ pc'[r].generation > 0
    BY <2>1 DEF Start, RosterInv, ActivationTypeOK
  <2>2. CreateRoster(r) \/ WriteRoster(r) \/ (JoinRoster(r) /\ Goto(r, "decide"))
        =>     /\ pc[r] \in Jobs /\ pc[r].at # "idle"
               /\ CreateRoster(r) => pc'[r].at = "writeRoster"
               /\ ~CreateRoster(r) => pc'[r].at = "decide"
               /\ pc'[r].batch = pc[r].batch
               /\ pc'[r].roster = pc[r].roster
               /\ pc'[r].generation = pc[r].generation
    <3> SUFFICES ASSUME CreateRoster(r) \/ WriteRoster(r) \/ (JoinRoster(r) /\ Goto(r, "decide"))
                 PROVE  /\ pc[r] \in Jobs /\ pc[r].at # "idle"
                        /\ CreateRoster(r) => pc'[r].at = "writeRoster"
                        /\ ~CreateRoster(r) => pc'[r].at = "decide"
                        /\ pc'[r].batch = pc[r].batch
                        /\ pc'[r].roster = pc[r].roster
                        /\ pc'[r].generation = pc[r].generation
      OBVIOUS
    <3>1. pc[r] \in Jobs /\ pc[r].at \in {"freeze", "writeRoster"}
      BY JobOfResolver DEF CreateRoster, WriteRoster, JoinRoster
    <3>2. \/ CreateRoster(r) /\ pc' = [pc EXCEPT ![r] = [pc[r] EXCEPT !.at = "writeRoster"]]
          \/ ~CreateRoster(r) /\ pc' = [pc EXCEPT ![r] = [pc[r] EXCEPT !.at = "decide"]]
      BY DEF CreateRoster, WriteRoster, JoinRoster, Goto, ActivationTypeOK
    <3> QED BY <3>1, <3>2 DEF Jobs, ActivationTypeOK
  <2>3. CASE CreateRoster(r)
    <3>1. rosters'[pc[r].batch] = Empty
      BY <2>2, <2>3 DEF CreateRoster, ActivationTypeOK, Jobs
    <3>2. pc[r].generation > 0
      BY <2>2, <2>3 DEF RosterInv
    <3> QED BY <2>2, <2>3, <3>1, <3>2 DEF PastRoster, Publishing, Archiving
  <2>4. CASE WriteRoster(r)
    <3>1. rosters'[pc[r].batch] = Contract(pc[r])
      BY <2>2, <2>4 DEF WriteRoster, ActivationTypeOK, Jobs
    <3>2. ~CreateRoster(r)
      BY <2>4 DEF CreateRoster, WriteRoster
    <3>3. pc[r].generation > 0
      BY <2>2, <2>4 DEF RosterInv
    <3> QED BY <2>2, <2>4, <3>1, <3>2, <3>3 DEF Publishing, Contract
  <2>5. CASE JoinRoster(r) /\ Agrees(pc[r]) /\ Goto(r, "decide")
    <3>1. rosters'[pc[r].batch] = Contract(pc[r]) /\ ~CreateRoster(r)
      BY <2>5 DEF JoinRoster, CreateRoster, Agrees, files
    <3> QED BY <2>2, <2>5, <3>1 DEF RosterInv, Publishing, Contract
  <2>6. CASE Continued(r)
    BY <2>6 DEF Continued, RosterInv, PastRoster, Publishing, Archiving, Contract
  <2> QED BY <1>3, <2>1, <2>3, <2>4, <2>5, <2>6, JobStep DEF JobMoves, PastRoster, Publishing, Archiving
<1>4. ASSUME NEW x \in Resolvers, ResolverStep(x)
      PROVE  pc'[r] = pc[r] \/ ResolverStep(r)
  BY <1>4, OthersWait
<1>5. (\E q \in Questions : RunStep(q)) \/ Promote \/ UNCHANGED skillVars => pc'[r] = pc[r]
  BY DEF RunStep, AttachBrief, AcceptActivation, BeginAuthoring, FreezePackage,
         BeginRevision, WriteBrief, Promote, skillVars
<1> QED BY <1>1, <1>2, <1>3, <1>4, <1>5 DEF ActivationNext

\* Only one process fills the roster of a batch.
LEMMA OneWriter ==
    ASSUME ActivationTypeOK, ActivationTypeOK', RosterInv, [ActivationNext]_skillVars,
           NEW r \in Resolvers, NEW x \in Resolvers,
           pc'[r].at = "writeRoster", pc'[x].at = "writeRoster",
           pc'[r].batch = pc'[x].batch
    PROVE  r = x
<1> DEFINE Kept(y) == pc'[y] = pc[y]
           Created(y) == CreateRoster(y) /\ pc'[y].batch = pc[y].batch
<1>1. ASSUME NEW y \in Resolvers, pc'[y].at = "writeRoster"
      PROVE  Kept(y) \/ Created(y)
  <2>1. ASSUME ResolverStep(y) PROVE Kept(y) \/ Created(y)
    <3>1. ASSUME NEW stage \in Stages, NEW b \in Batches, NEW roster \in Rosters,
                 NEW a \in Attempts, Start(y, stage, b, roster, a)
          PROVE  pc'[y].at = "freeze"
      BY <3>1 DEF Start, ActivationTypeOK
    <3>2. WriteRoster(y) \/ (JoinRoster(y) /\ Goto(y, "decide")) => pc'[y].at = "decide"
      <4>1. WriteRoster(y) \/ JoinRoster(y) => pc[y] \in Jobs
        BY JobOfResolver DEF WriteRoster, JoinRoster
      <4> QED BY <4>1 DEF WriteRoster, Goto, Jobs, ActivationTypeOK
    <3>3. CreateRoster(y) => Created(y)
      <4>1. CreateRoster(y) => pc[y] \in Jobs
        BY JobOfResolver DEF CreateRoster
      <4> QED BY <4>1 DEF CreateRoster, Goto, Jobs, ActivationTypeOK
    <3> QED BY <1>1, <2>1, <3>1, <3>2, <3>3, JobStep
            DEF JobMoves, Idle, Continued, PastRoster, Publishing, Archiving
  <2>2. ASSUME NEW z \in Resolvers, ResolverStep(z) PROVE Kept(y) \/ Created(y)
    BY <2>1, <2>2, OthersWait
  <2>3. (\E q \in Questions : RunStep(q)) \/ Promote \/ UNCHANGED skillVars => pc'[y] = pc[y]
    BY DEF RunStep, AttachBrief, AcceptActivation, BeginAuthoring, FreezePackage,
           BeginRevision, WriteBrief, Promote, skillVars
  <2> QED BY <2>2, <2>3 DEF ActivationNext
<1>2. ASSUME NEW y \in Resolvers, NEW z \in Resolvers, y # z, CreateRoster(y),
             pc'[z].at = "writeRoster", pc'[z].batch = pc[y].batch
      PROVE  FALSE
  <2>1. ResolverStep(y)
    BY <1>2 DEF ResolverStep
  <2>2. pc'[z] = pc[z]
    BY <1>2, <2>1, OthersWait
  <2>3. rosters[pc[z].batch] = Empty /\ rosters[pc[z].batch] = NoFile
    BY <1>2, <2>2 DEF CreateRoster, RosterInv
  <2> QED BY <2>3, ActivationAssumption DEF Empty
<1> QED BY <1>1, <1>2 DEF RosterInv

LEMMA RosterInvStep ==
    ASSUME ActivationTypeOK, ActivationTypeOK', RosterInv, [ActivationNext]_skillVars
    PROVE  RosterInv'
<1>1. (stable > 0)'
  <2>1. stable' = stable \/ stable' = stable + 1
    BY DEF ActivationNext, ResolverStep, RunStep, Start, CreateRoster, WriteRoster,
           JoinRoster, FindNone, FindOwn, FindOther, MoveActivation, MovePrompt, MoveLock,
           Seal, Resolve, WritePrompt, WriteLock, WriteActivation, Crash, AttachBrief,
           AcceptActivation, BeginAuthoring, FreezePackage, BeginRevision, WriteBrief,
           Promote, files, skillVars
  <2> QED BY <2>1 DEF ActivationTypeOK, RosterInv
<1>2. ASSUME NEW activation \in Everywhere' PROVE GivenBy(activation)'
  <2>1. activation \in Activations
    BY <1>2, EverywhereTyped DEF Everywhere, Activation, Bound, ActivationTypeOK, Archives,
                                 Optional
  <2>2. GivenBy(activation)
    <3>1. CASE activation \in Everywhere
      BY <3>1 DEF RosterInv
    <3>2. ASSUME NEW r \in Resolvers, pc[r].at = "writeActivation", activation = pc[r].staged
          PROVE  GivenBy(activation)
      BY <3>2 DEF RosterInv, GivenBy, Contract, PastRoster, Publishing
    <3> QED BY <3>1, <3>2, NothingNew
  <2> QED BY <2>1, <2>2, GivenStands
<1> QED BY <1>1, <1>2, JobsAfter, OneWriter DEF RosterInv

\* A batch is one version for all of its questions, in both stages, whatever is
\* promoted meanwhile and whoever dies, for any number of concurrent resolutions.
THEOREM OneVersionForBatch == ActivationSpec => []BatchOneVersion
<1>1. ActivationInit => RosterInv
  <2> SUFFICES ASSUME ActivationInit PROVE RosterInv
    OBVIOUS
  <2>1. stable > 0 /\ \A r \in Resolvers : pc[r].at = "idle"
    BY DEF ActivationInit, Idle
  <2>2. Everywhere = {}
    BY DEF ActivationInit, Everywhere, Activation, Bound
  <2> QED BY <2>1, <2>2 DEF RosterInv, PastRoster, Publishing, Archiving
<1>2. RosterInv => BatchOneVersion
  BY DEF RosterInv, BatchOneVersion, GivenBy
<1> QED BY <1>1, <1>2, ActivationTypeCorrect, RosterInvStep, PTL DEF ActivationSpec

-----------------------------------------------------------------------------
(* What is frozen.                                                           *)

\* A frozen run is bound to its Brief and to two activations of one batch, for any
\* number of rewritten Briefs, superseding batches and revisions.
THEOREM FrozenOnItsBrief == ActivationSpec => []FrozenFromItsBrief
<1>1. ActivationInit => FrozenFromItsBrief
  BY DEF ActivationInit, FrozenFromItsBrief
<1>2. ActivationTypeOK /\ FrozenFromItsBrief /\ [ActivationNext]_skillVars
      => FrozenFromItsBrief'
  <2> SUFFICES ASSUME ActivationTypeOK, FrozenFromItsBrief, [ActivationNext]_skillVars,
                      NEW q \in Questions, runs'[q].state = "FROZEN"
               PROVE  /\ runs'[q].contract["author"] # NoFile
                      /\ runs'[q].contract["outline"] # NoFile
                      /\ runs'[q].contract["author"].prompt.input = runs'[q].brief
                      /\ runs'[q].contract["author"].batch = runs'[q].contract["outline"].batch
    BY DEF FrozenFromItsBrief, Bound
  <2>1. CASE runs'[q] = runs[q]
    BY <2>1 DEF FrozenFromItsBrief, Bound
  <2>2. CASE FreezePackage(q)
    <3>1. /\ runs'[q].contract = runs[q].contract /\ runs'[q].brief = runs[q].brief
          /\ KnowledgeHolds(q)
      BY <2>2 DEF FreezePackage, ActivationTypeOK
    <3>2. Activation(<<q, "author">>).prompt.input = briefs[q]
      BY <3>1 DEF KnowledgeHolds, Valid, InputOf, Stages
    <3> QED BY <3>1, <3>2 DEF KnowledgeHolds, Valid, Bound, Stages
  <2>3. ASSUME NEW p \in Questions, RunStep(p), runs'[q] # runs[q]
        PROVE  FreezePackage(q)
    <3>1. AttachBrief(p) \/ (\E stage \in Stages : AcceptActivation(p, stage))
          \/ BeginAuthoring(p) \/ BeginRevision(p) => runs'[q].state # "FROZEN"
      BY <2>3 DEF AttachBrief, AcceptActivation, BeginAuthoring, BeginRevision, Open,
                  ActivationTypeOK
    <3>2. FreezePackage(p) => p = q
      BY <2>3 DEF FreezePackage, ActivationTypeOK
    <3>3. ~WriteBrief(p)
      BY <2>3 DEF WriteBrief
    <3> QED BY <2>3, <3>1, <3>2, <3>3 DEF RunStep
  <2>4. (\E r \in Resolvers : ResolverStep(r)) \/ Promote \/ UNCHANGED skillVars
        => runs'[q] = runs[q]
    BY DEF ResolverStep, Start, CreateRoster, WriteRoster, JoinRoster, FindNone, FindOwn,
           FindOther, MoveActivation, MovePrompt, MoveLock, Seal, Resolve, WritePrompt,
           WriteLock, WriteActivation, Crash, Promote, files, skillVars
  <2> QED BY <2>1, <2>2, <2>3, <2>4 DEF ActivationNext
<1> QED BY <1>1, <1>2, ActivationTypeCorrect, PTL DEF ActivationSpec

-----------------------------------------------------------------------------
(* One desk with one process at a time.                                      *)

Whole(bundle) ==
    bundle.activation # NoFile =>
        /\ bundle.prompt = bundle.activation.prompt
        /\ bundle.lock = bundle.activation.generation

Faithful(archive) ==
    archive.sealed =>
        /\ archive.activation = archive.identity
        /\ archive.prompt = archive.identity.prompt
        /\ archive.lock = archive.identity.generation

\* How far the process at a desk is with the three files it publishes ...
Published(r) ==
    /\ pc[r].at \in {"resolve", "movePrompt", "moveLock", "seal"} \cup Publishing =>
           bundles[Desk(r)].activation = NoFile
    /\ pc[r].at \in {"writeLock", "writeActivation"} =>
           bundles[Desk(r)].prompt = pc[r].staged.prompt
    /\ pc[r].at = "writeActivation" =>
           bundles[Desk(r)].lock = pc[r].staged.generation

\* ... or archives.
Moved(r) ==
    /\ pc[r].at = "moveActivation" =>
           bundles[Desk(r)].activation = pc[r].staged /\ InHand(r) # {}
    /\ pc[r].at = "movePrompt" => bundles[Desk(r)].prompt = pc[r].staged.prompt
    /\ pc[r].at \in {"movePrompt", "moveLock"} =>
           bundles[Desk(r)].lock = pc[r].staged.generation
    /\ pc[r].at \in Archiving => \A archive \in InHand(r) : ~archive.sealed
    /\ pc[r].at \in {"movePrompt", "moveLock", "seal"} =>
           \A archive \in InHand(r) : archive.activation = archive.identity
    /\ pc[r].at \in {"moveLock", "seal"} =>
           \A archive \in InHand(r) : archive.prompt = archive.identity.prompt
    /\ pc[r].at = "seal" =>
           \A archive \in InHand(r) : archive.lock = archive.identity.generation

DeskInv ==
    /\ \A desk \in Desks : Whole(bundles[desk])
    /\ \A archive \in archives : Faithful(archive)
    /\ \A r \in Resolvers : Published(r) /\ Moved(r)

LEMMA OwnDesk ==
    ASSUME Teachers = 1, NEW r \in Resolvers, NEW x \in Resolvers, x # r
    PROVE  Desk(x) # Desk(r)
BY DEF Resolvers, Desk

BundleType == [activation : Optional(Activations), prompt : Optional(Prompts),
               lock : Optional(Nat)]

\* What a process changes is at its own desk.
LEMMA BundleStep ==
    ASSUME ActivationTypeOK, NEW r \in Resolvers, ResolverStep(r), NEW desk \in Desks,
           desk # Desk(r)
    PROVE  bundles'[desk] = bundles[desk]
<1>1. CASE MoveActivation(r) \/ MovePrompt(r) \/ MoveLock(r) \/ WritePrompt(r)
           \/ WriteLock(r) \/ WriteActivation(r)
  BY <1>1 DEF MoveActivation, MovePrompt, MoveLock, WritePrompt, WriteLock,
              WriteActivation, ActivationTypeOK
<1>2. CASE UNCHANGED bundles
  BY <1>2
<1> QED BY <1>1, <1>2
    DEF ResolverStep, Start, CreateRoster, WriteRoster, JoinRoster, FindNone, FindOwn,
        FindOther, Seal, Resolve, Crash, files

\* The archives after a step: kept, begun empty, or changed in one field by the
\* process that has them in hand.
LEMMA ArchiveStep ==
    ASSUME ActivationTypeOK, NEW r \in Resolvers, ResolverStep(r), NEW archive \in archives'
    PROVE  \/ archive \in archives
           \/ archive.desk = Desk(r) /\ pc[r].at \in Archiving \cup {"decide"}
<1>1. CASE MoveActivation(r) \/ MovePrompt(r) \/ MoveLock(r) \/ Seal(r)
  BY <1>1 DEF MoveActivation, MovePrompt, MoveLock, Seal, Change, InHand, Archiving,
              ActivationTypeOK, Archives
<1>2. CASE FindOther(r)
  BY <1>2 DEF FindOther
<1>3. CASE UNCHANGED archives
  BY <1>3
<1> QED BY <1>1, <1>2, <1>3
    DEF ResolverStep, Start, CreateRoster, WriteRoster, JoinRoster, FindNone, FindOwn,
        Resolve, WritePrompt, WriteLock, WriteActivation, Crash, files

LEMMA ArchivesOfOthers ==
    ASSUME ActivationTypeOK, NEW r \in Resolvers, ResolverStep(r), NEW archive \in archives,
           archive.desk # Desk(r)
    PROVE  archive \in archives'
<1>1. CASE MoveActivation(r) \/ MovePrompt(r) \/ MoveLock(r) \/ Seal(r)
  BY <1>1 DEF MoveActivation, MovePrompt, MoveLock, Seal, Change, InHand
<1>2. CASE FindOther(r)
  BY <1>2 DEF FindOther
<1>3. CASE UNCHANGED archives
  BY <1>3
<1> QED BY <1>1, <1>2, <1>3
    DEF ResolverStep, Start, CreateRoster, WriteRoster, JoinRoster, FindNone, FindOwn,
        Resolve, WritePrompt, WriteLock, WriteActivation, Crash, files

LEMMA OthersUntouched ==
    ASSUME ActivationTypeOK, Teachers = 1, DeskInv, NEW r \in Resolvers,
           NEW x \in Resolvers, x # r, ResolverStep(x)
    PROVE  Published(r)' /\ Moved(r)'
<1>1. pc'[r] = pc[r]
  BY OthersWait
<1>2. CASE pc[r].at = "idle"
  BY <1>1, <1>2 DEF Published, Moved, Publishing, Archiving
<1>3. CASE pc[r].at # "idle"
  <2>1. Desk(r) \in Desks /\ Desk(r)' = Desk(r) /\ Desk(r) # Desk(x)
    BY <1>1, <1>3, JobOfResolver, OwnDesk DEF Desk
  <2>2. bundles'[Desk(r)] = bundles[Desk(r)]
    BY <2>1, BundleStep
  <2>3. InHand(r)' = InHand(r)
    <3>1. \A archive \in archives' : archive.desk = Desk(r) => archive \in archives
      BY <2>1, ArchiveStep
    <3>2. \A archive \in archives : archive.desk = Desk(r) => archive \in archives'
      BY <2>1, ArchivesOfOthers
    <3> QED BY <1>1, <2>1, <3>1, <3>2 DEF InHand
  <2>4. Published(r)'
    BY <1>1, <2>1, <2>2 DEF DeskInv, Published
  <2>5. Moved(r)'
    BY <1>1, <2>1, <2>2, <2>3 DEF DeskInv, Moved
  <2> QED BY <2>4, <2>5
<1> QED BY <1>2, <1>3

Ordered == /\ \A desk \in Desks : Whole(bundles[desk])
           /\ \A archive \in archives : Faithful(archive)

LEMMA QuietStep ==
    ASSUME ActivationTypeOK, DeskInv, NEW r \in Resolvers,
           UNCHANGED <<bundles, archives>>,
           pc'[r].at \in {"idle", "freeze", "writeRoster", "decide"}
    PROVE  Published(r)' /\ Moved(r)' /\ Ordered'
BY DEF DeskInv, Published, Moved, Ordered, Publishing, Archiving

\* The job of a process that goes on, field by field.
LEMMA GotoFields ==
    ASSUME ActivationTypeOK, NEW r \in Resolvers, pc[r].at # "idle", NEW label,
           Goto(r, label)
    PROVE  /\ pc'[r].at = label
           /\ pc'[r].staged = pc[r].staged
           /\ Desk(r)' = Desk(r)
<1>1. pc[r] \in Jobs
  BY JobOfResolver
<1>2. pc'[r] = [pc[r] EXCEPT !.at = label]
  BY DEF Goto, ActivationTypeOK
<1> QED BY <1>1, <1>2 DEF Jobs, Desk

LEMMA ResolvingStep ==
    ASSUME ActivationTypeOK, DeskInv, NEW r \in Resolvers, FindNone(r) \/ Resolve(r)
    PROVE  Published(r)' /\ Moved(r)' /\ Ordered'
<1>1. pc[r] \in Jobs /\ UNCHANGED <<bundles, archives>>
  BY JobOfResolver DEF FindNone, Resolve, files
<1>2. bundles[Desk(r)].activation = NoFile
  BY DEF FindNone, Resolve, DeskInv, Published, Activation
<1>3. pc'[r] = Idle \/ (pc'[r].at \in {"resolve", "writePrompt"} /\ Desk(r)' = Desk(r))
  BY <1>1 DEF FindNone, Resolve, Stop, Jobs, Desk, ActivationTypeOK
<1>4. CASE pc'[r] = Idle
  BY <1>1, <1>4, QuietStep DEF Idle
<1>5. CASE pc'[r].at \in {"resolve", "writePrompt"} /\ Desk(r)' = Desk(r)
  BY <1>1, <1>2, <1>5 DEF DeskInv, Published, Moved, Ordered, Publishing, Archiving
<1> QED BY <1>3, <1>4, <1>5

LEMMA SupersedingStep ==
    ASSUME ActivationTypeOK, DeskInv, NEW r \in Resolvers, FindOther(r)
    PROVE  Published(r)' /\ Moved(r)' /\ Ordered'
<1> DEFINE fresh == [desk |-> Desk(r), identity |-> Activation(Desk(r)),
                     activation |-> NoFile, prompt |-> NoFile, lock |-> NoFile,
                     sealed |-> FALSE]
<1>1. pc[r] \in Jobs /\ UNCHANGED bundles
  BY JobOfResolver DEF FindOther
<1>2. CASE UNCHANGED archives /\ Stop(r)
  <2>1. pc'[r].at = "idle"
    BY <1>2 DEF Stop, Idle, ActivationTypeOK
  <2> QED BY <1>1, <1>2, <2>1, QuietStep
<1>3. CASE /\ ~Archived(Desk(r), Activation(Desk(r)))
           /\ archives' = archives \cup {fresh}
           /\ pc' = [pc EXCEPT ![r].at = "moveActivation", ![r].inputSet = InputOf(Desk(r)),
                               ![r].staged = Activation(Desk(r))]
  <2>1. /\ pc'[r].at = "moveActivation" /\ pc'[r].staged = Activation(Desk(r))
        /\ Desk(r)' = Desk(r)
    BY <1>1, <1>3 DEF Jobs, Desk, ActivationTypeOK
  <2>2. InHand(r)' = {fresh}
    <3>1. \A archive \in archives :
              ~(archive.desk = Desk(r) /\ archive.identity = Activation(Desk(r)))
      BY <1>3 DEF Archived
    <3> QED BY <1>3, <2>1, <3>1 DEF InHand
  <2>3. ~fresh.sealed
    OBVIOUS
  <2>4. Ordered'
    BY <1>1, <1>3, <2>3 DEF DeskInv, Ordered, Faithful
  <2>5. Published(r)'
    BY <2>1 DEF Published, Publishing
  <2>6. Moved(r)'
    <3> HIDE DEF fresh
    <3> QED BY <1>1, <2>1, <2>2, <2>3 DEF Moved, Archiving, Activation
  <2> QED BY <2>4, <2>5, <2>6
<1> QED BY <1>2, <1>3 DEF FindOther

\* What becomes of the archives when the one in hand changes in one field.
LEMMA ChangedArchives ==
    ASSUME NEW r \in Resolvers, Desk(r)' = Desk(r), pc'[r].staged = pc[r].staged,
           NEW field, NEW value, Change(r, field, value)
    PROVE  /\ \A archive \in archives' :
                  \/ archive \in archives
                  \/ \E old \in InHand(r) : archive = [old EXCEPT ![field] = value]
           /\ \A archive \in InHand(r)' :
                  \E old \in InHand(r) : archive = [old EXCEPT ![field] = value]
BY DEF Change, InHand

LEMMA InHandTyped ==
    ASSUME ActivationTypeOK, NEW r \in Resolvers, NEW archive \in InHand(r)
    PROVE  archive \in archives /\ archive \in Archives /\ archive.identity = pc[r].staged
BY DEF InHand, ActivationTypeOK

LEMMA MoveActivationStep ==
    ASSUME ActivationTypeOK, DeskInv, NEW r \in Resolvers, MoveActivation(r)
    PROVE  Published(r)' /\ Moved(r)' /\ Ordered'
<1> DEFINE bundle == bundles[Desk(r)]
<1>1. /\ pc[r].at = "moveActivation" /\ pc'[r].at = "movePrompt"
      /\ pc'[r].staged = pc[r].staged /\ Desk(r)' = Desk(r) /\ Desk(r) \in Desks
      /\ pc[r].staged \in Activations
  BY GotoFields, JobOfResolver DEF MoveActivation, Archiving
<1>2. /\ bundle.activation = pc[r].staged /\ bundle.prompt = pc[r].staged.prompt
      /\ bundle.lock = pc[r].staged.generation
  BY <1>1 DEF DeskInv, Moved, Whole, MoveActivation, Activation
<1>3. /\ bundles'[Desk(r)].activation = NoFile
      /\ bundles'[Desk(r)].prompt = bundle.prompt /\ bundles'[Desk(r)].lock = bundle.lock
      /\ \A desk \in Desks : desk # Desk(r) => bundles'[desk] = bundles[desk]
  BY <1>1 DEF MoveActivation, ActivationTypeOK
<1>4. /\ \A archive \in archives' :
             \/ archive \in archives
             \/ \E old \in InHand(r) : archive = [old EXCEPT !["activation"] = pc[r].staged]
      /\ \A archive \in InHand(r)' :
             \E old \in InHand(r) : archive = [old EXCEPT !["activation"] = pc[r].staged]
  BY <1>1, <1>2, ChangedArchives DEF MoveActivation, Activation
<1>5. \A old \in InHand(r) :
          LET archive == [old EXCEPT !["activation"] = pc[r].staged] IN
          ~archive.sealed /\ archive.activation = archive.identity
  <2> TAKE old \in InHand(r)
  <2>1. old \in Archives /\ old.identity = pc[r].staged
    BY InHandTyped
  <2>2. ~old.sealed
    BY <1>1 DEF DeskInv, Moved, Archiving
  <2> QED BY <2>1, <2>2 DEF Archives
<1>6. Published(r)'
  BY <1>1, <1>3 DEF Published, Publishing
<1>7. Moved(r)'
  BY <1>1, <1>2, <1>3, <1>4, <1>5 DEF Moved, Archiving
<1>8. Ordered'
  <2>1. \A archive \in archives' : Faithful(archive)
    BY <1>4, <1>5 DEF DeskInv, Faithful
  <2>2. \A desk \in Desks : Whole(bundles'[desk])
    BY <1>3 DEF DeskInv, Whole
  <2> QED BY <2>1, <2>2 DEF Ordered
<1> QED BY <1>6, <1>7, <1>8

LEMMA MovePromptStep ==
    ASSUME ActivationTypeOK, DeskInv, NEW r \in Resolvers, MovePrompt(r)
    PROVE  Published(r)' /\ Moved(r)' /\ Ordered'
<1> DEFINE bundle == bundles[Desk(r)]
<1>1. /\ pc[r].at = "movePrompt" /\ pc'[r].at = "moveLock"
      /\ pc'[r].staged = pc[r].staged /\ Desk(r)' = Desk(r) /\ Desk(r) \in Desks
      /\ pc[r].staged \in Activations
  BY GotoFields, JobOfResolver DEF MovePrompt, Archiving
<1>2. /\ bundle.activation = NoFile /\ bundle.prompt = pc[r].staged.prompt
      /\ bundle.lock = pc[r].staged.generation
  BY <1>1 DEF DeskInv, Moved, Published
<1>3. /\ bundles'[Desk(r)].activation = NoFile /\ bundles'[Desk(r)].lock = bundle.lock
      /\ \A desk \in Desks : desk # Desk(r) => bundles'[desk] = bundles[desk]
  BY <1>1, <1>2 DEF MovePrompt, ActivationTypeOK
<1>4. /\ \A archive \in archives' :
             \/ archive \in archives
             \/ \E old \in InHand(r) : archive = [old EXCEPT !["prompt"] = bundle.prompt]
      /\ \A archive \in InHand(r)' :
             \E old \in InHand(r) : archive = [old EXCEPT !["prompt"] = bundle.prompt]
  BY <1>1, ChangedArchives DEF MovePrompt
<1>5. \A old \in InHand(r) :
          LET archive == [old EXCEPT !["prompt"] = bundle.prompt] IN
          /\ ~archive.sealed /\ archive.activation = archive.identity
          /\ archive.prompt = archive.identity.prompt
  <2> TAKE old \in InHand(r)
  <2>1. old \in Archives /\ old.identity = pc[r].staged
    BY InHandTyped
  <2>2. ~old.sealed /\ old.activation = old.identity
    BY <1>1 DEF DeskInv, Moved, Archiving
  <2> QED BY <1>2, <2>1, <2>2 DEF Archives
<1>6. Published(r)'
  BY <1>1, <1>3 DEF Published, Publishing
<1>7. Moved(r)'
  <2>1. \A archive \in InHand(r)' :
            /\ ~archive.sealed /\ archive.activation = archive.identity
            /\ archive.prompt = archive.identity.prompt
    BY <1>4, <1>5
  <2>2. bundles'[Desk(r)].lock = pc[r].staged.generation
    BY <1>2, <1>3
  <2> QED BY <1>1, <2>1, <2>2 DEF Moved, Archiving
<1>8. Ordered'
  <2>1. \A archive \in archives' : Faithful(archive)
    BY <1>4, <1>5 DEF DeskInv, Faithful
  <2>2. \A desk \in Desks : Whole(bundles'[desk])
    BY <1>3 DEF DeskInv, Whole
  <2> QED BY <2>1, <2>2 DEF Ordered
<1> QED BY <1>6, <1>7, <1>8

LEMMA MoveLockStep ==
    ASSUME ActivationTypeOK, DeskInv, NEW r \in Resolvers, MoveLock(r)
    PROVE  Published(r)' /\ Moved(r)' /\ Ordered'
<1> DEFINE bundle == bundles[Desk(r)]
<1>1. /\ pc[r].at = "moveLock" /\ pc'[r].at = "seal"
      /\ pc'[r].staged = pc[r].staged /\ Desk(r)' = Desk(r) /\ Desk(r) \in Desks
      /\ pc[r].staged \in Activations
  BY GotoFields, JobOfResolver DEF MoveLock, Archiving
<1>2. bundle.activation = NoFile /\ bundle.lock = pc[r].staged.generation
  BY <1>1 DEF DeskInv, Moved, Published
<1>3. /\ bundles'[Desk(r)].activation = NoFile
      /\ \A desk \in Desks : desk # Desk(r) => bundles'[desk] = bundles[desk]
  BY <1>1, <1>2 DEF MoveLock, ActivationTypeOK
<1>4. /\ \A archive \in archives' :
             \/ archive \in archives
             \/ \E old \in InHand(r) : archive = [old EXCEPT !["lock"] = bundle.lock]
      /\ \A archive \in InHand(r)' :
             \E old \in InHand(r) : archive = [old EXCEPT !["lock"] = bundle.lock]
  BY <1>1, ChangedArchives DEF MoveLock
<1>5. \A old \in InHand(r) :
          LET archive == [old EXCEPT !["lock"] = bundle.lock] IN
          /\ ~archive.sealed /\ archive.activation = archive.identity
          /\ archive.prompt = archive.identity.prompt
          /\ archive.lock = archive.identity.generation
  <2> TAKE old \in InHand(r)
  <2>1. old \in Archives /\ old.identity = pc[r].staged
    BY InHandTyped
  <2>2. /\ ~old.sealed /\ old.activation = old.identity
        /\ old.prompt = old.identity.prompt
    BY <1>1 DEF DeskInv, Moved, Archiving
  <2> QED BY <1>2, <2>1, <2>2 DEF Archives
<1>6. Published(r)'
  BY <1>1, <1>3 DEF Published, Publishing
<1>7. Moved(r)'
  BY <1>1, <1>4, <1>5 DEF Moved, Archiving
<1>8. Ordered'
  <2>1. \A archive \in archives' : Faithful(archive)
    BY <1>4, <1>5 DEF DeskInv, Faithful
  <2>2. \A desk \in Desks : Whole(bundles'[desk])
    BY <1>3 DEF DeskInv, Whole
  <2> QED BY <2>1, <2>2 DEF Ordered
<1> QED BY <1>6, <1>7, <1>8

LEMMA SealStep ==
    ASSUME ActivationTypeOK, DeskInv, NEW r \in Resolvers, Seal(r)
    PROVE  Published(r)' /\ Moved(r)' /\ Ordered'
<1>1. /\ pc[r].at = "seal" /\ pc'[r].at = "resolve"
      /\ pc'[r].staged = pc[r].staged /\ Desk(r)' = Desk(r)
      /\ UNCHANGED bundles
  BY GotoFields DEF Seal, Archiving
<1>2. bundles[Desk(r)].activation = NoFile
  BY <1>1 DEF DeskInv, Published
<1>3. \A archive \in archives' :
          \/ archive \in archives
          \/ archive \in {[old EXCEPT !["sealed"] = TRUE] : old \in InHand(r)}
  BY DEF Seal, Change
<1>4. \A old \in InHand(r) : Faithful([old EXCEPT !["sealed"] = TRUE])
  <2> TAKE old \in InHand(r)
  <2>1. old \in Archives
    BY InHandTyped
  <2>2. /\ old.activation = old.identity /\ old.prompt = old.identity.prompt
        /\ old.lock = old.identity.generation
    BY <1>1 DEF DeskInv, Moved
  <2> QED BY <2>1, <2>2 DEF Archives, Faithful
<1>5. Published(r)'
  BY <1>1, <1>2 DEF Published, Publishing
<1>6. Moved(r)'
  BY <1>1 DEF Moved, Archiving
<1>7. Ordered'
  BY <1>1, <1>3, <1>4 DEF DeskInv, Ordered
<1> QED BY <1>5, <1>6, <1>7

LEMMA WritePromptStep ==
    ASSUME ActivationTypeOK, DeskInv, NEW r \in Resolvers, WritePrompt(r) \/ WriteLock(r)
    PROVE  Published(r)' /\ Moved(r)' /\ Ordered'
<1>1. pc[r].at \in {"writePrompt", "writeLock"}
  BY DEF WritePrompt, WriteLock
<1>2. /\ pc'[r].at = IF pc[r].at = "writePrompt" THEN "writeLock" ELSE "writeActivation"
      /\ pc'[r].staged = pc[r].staged /\ Desk(r)' = Desk(r) /\ Desk(r) \in Desks
  BY <1>1, GotoFields, JobOfResolver DEF WritePrompt, WriteLock
<1>3. /\ bundles[Desk(r)].activation = NoFile
      /\ pc[r].at = "writeLock" => bundles[Desk(r)].prompt = pc[r].staged.prompt
  BY <1>1 DEF DeskInv, Published, Publishing
<1>4. /\ bundles'[Desk(r)].activation = NoFile
      /\ bundles'[Desk(r)].prompt = pc[r].staged.prompt
      /\ pc[r].at = "writeLock" => bundles'[Desk(r)].lock = pc[r].staged.generation
      /\ \A desk \in Desks : desk # Desk(r) => bundles'[desk] = bundles[desk]
  <2>1. CASE WritePrompt(r)
    BY <1>2, <1>3, <2>1 DEF WritePrompt, ActivationTypeOK
  <2>2. CASE WriteLock(r)
    BY <1>2, <1>3, <2>2 DEF WriteLock, ActivationTypeOK
  <2> QED BY <2>1, <2>2
<1>5. UNCHANGED archives
  BY DEF WritePrompt, WriteLock
<1>6. Published(r)' /\ Moved(r)'
  BY <1>1, <1>2, <1>4 DEF Published, Moved, Publishing, Archiving
<1>7. Ordered'
  <2>1. \A desk \in Desks : Whole(bundles'[desk])
    BY <1>4 DEF DeskInv, Whole
  <2> QED BY <1>5, <2>1 DEF Ordered, DeskInv
<1> QED BY <1>6, <1>7

LEMMA WriteActivationStep ==
    ASSUME ActivationTypeOK, DeskInv, NEW r \in Resolvers, WriteActivation(r)
    PROVE  Published(r)' /\ Moved(r)' /\ Ordered'
<1>1. /\ pc[r].at = "writeActivation" /\ Desk(r) \in Desks /\ pc'[r].at = "idle"
      /\ UNCHANGED archives
  BY JobOfResolver DEF WriteActivation, Stop, Idle, ActivationTypeOK
<1>2. /\ bundles[Desk(r)].prompt = pc[r].staged.prompt
      /\ bundles[Desk(r)].lock = pc[r].staged.generation
  BY <1>1 DEF DeskInv, Published
<1>3. /\ bundles'[Desk(r)].activation = pc[r].staged
      /\ bundles'[Desk(r)].prompt = pc[r].staged.prompt
      /\ bundles'[Desk(r)].lock = pc[r].staged.generation
      /\ \A desk \in Desks : desk # Desk(r) => bundles'[desk] = bundles[desk]
  BY <1>1, <1>2 DEF WriteActivation, ActivationTypeOK
<1>4. Published(r)' /\ Moved(r)'
  BY <1>1 DEF Published, Moved, Publishing, Archiving
<1>5. Ordered'
  <2>1. \A desk \in Desks : Whole(bundles'[desk])
    BY <1>3 DEF DeskInv, Whole
  <2> QED BY <1>1, <2>1 DEF Ordered, DeskInv
<1> QED BY <1>4, <1>5

LEMMA DeskStep ==
    ASSUME ActivationTypeOK, DeskInv, NEW r \in Resolvers, ResolverStep(r)
    PROVE  Published(r)' /\ Moved(r)' /\ Ordered'
<1>1. ASSUME NEW stage \in Stages, NEW batch \in Batches, NEW roster \in Rosters,
             NEW attempt \in Attempts, Start(r, stage, batch, roster, attempt)
      PROVE  Published(r)' /\ Moved(r)' /\ Ordered'
  <2>1. UNCHANGED <<bundles, archives>> /\ pc'[r].at = "freeze"
    BY <1>1 DEF Start, files, ActivationTypeOK
  <2> QED BY <2>1, QuietStep
<1>2. CASE CreateRoster(r) \/ WriteRoster(r) \/ JoinRoster(r) \/ FindOwn(r) \/ Crash(r)
  <2>1. UNCHANGED <<bundles, archives>>
    BY <1>2 DEF CreateRoster, WriteRoster, JoinRoster, FindOwn, Crash, files
  <2>2. CASE CreateRoster(r) \/ WriteRoster(r)
    <3>1. pc'[r].at \in {"writeRoster", "decide"}
      BY <2>2, GotoFields DEF CreateRoster, WriteRoster
    <3> QED BY <2>1, <3>1, QuietStep
  <2>3. CASE JoinRoster(r) \/ FindOwn(r) \/ Crash(r)
    <3>1. CASE Stop(r)
      BY <2>1, <3>1, QuietStep DEF Stop, Idle, ActivationTypeOK
    <3>2. CASE JoinRoster(r) /\ Goto(r, "decide")
      <4>1. pc'[r].at = "decide"
        BY <3>2, GotoFields DEF JoinRoster
      <4> QED BY <2>1, <4>1, QuietStep
    <3> QED BY <2>3, <3>1, <3>2 DEF JoinRoster, FindOwn, Crash
  <2> QED BY <1>2, <2>2, <2>3
<1>3. CASE FindNone(r) \/ Resolve(r)
  BY <1>3, ResolvingStep
<1>4. CASE FindOther(r)
  BY <1>4, SupersedingStep
<1>5. CASE MoveActivation(r) \/ MovePrompt(r) \/ MoveLock(r) \/ Seal(r)
  BY <1>5, MoveActivationStep, MovePromptStep, MoveLockStep, SealStep
<1>6. CASE WritePrompt(r) \/ WriteLock(r) \/ WriteActivation(r)
  BY <1>6, WritePromptStep, WriteActivationStep
<1> QED BY <1>1, <1>2, <1>3, <1>4, <1>5, <1>6 DEF ResolverStep

LEMMA DeskInvStep ==
    ASSUME ActivationTypeOK, Teachers = 1, DeskInv, [ActivationNext]_skillVars
    PROVE  DeskInv'
<1>1. ASSUME NEW r \in Resolvers, ResolverStep(r)
      PROVE  DeskInv'
  <2>1. Published(r)' /\ Moved(r)' /\ Ordered'
    BY <1>1, DeskStep
  <2>2. \A x \in Resolvers : x # r => Published(x)' /\ Moved(x)'
    BY <1>1, OthersUntouched
  <2> QED BY <2>1, <2>2 DEF DeskInv, Ordered
<1>2. CASE (\E q \in Questions : RunStep(q)) \/ Promote \/ UNCHANGED skillVars
  <2>1. UNCHANGED <<bundles, archives, pc>>
    BY <1>2 DEF RunStep, AttachBrief, AcceptActivation, BeginAuthoring, FreezePackage,
                BeginRevision, WriteBrief, Promote, skillVars
  <2>2. \A r \in Resolvers : Desk(r)' = Desk(r) /\ InHand(r)' = InHand(r)
    BY <2>1 DEF Desk, InHand
  <2> QED BY <2>1, <2>2 DEF DeskInv, Published, Moved, Whole, Faithful
<1> QED BY <1>1, <1>2 DEF ActivationNext

LEMMA DeskInvInit == ActivationInit => DeskInv
<1> SUFFICES ASSUME ActivationInit PROVE DeskInv
  OBVIOUS
<1>1. \A r \in Resolvers : pc[r].at = "idle"
  BY DEF ActivationInit, Idle
<1>2. archives = {} /\ \A desk \in Desks : bundles[desk].activation = NoFile
  BY DEF ActivationInit
<1> QED BY <1>1, <1>2 DEF DeskInv, Published, Moved, Whole, Publishing, Archiving

\* With one resolving process for a desk at a time, a published bundle is one bundle
\* and a sealed archive is the whole of the one that names it, wherever the processes
\* die.
THEOREM BundlesStayWhole ==
    ASSUME Teachers = 1
    PROVE  ActivationSpec => []BundlesWhole
<1>1. DeskInv => BundlesWhole
  BY DEF DeskInv, Whole, Faithful, BundlesWhole, BundleCoherent, ArchiveFaithful, Activation
<1>2. ActivationTypeOK /\ DeskInv /\ [ActivationNext]_skillVars => DeskInv'
  BY DeskInvStep
<1> QED BY <1>1, <1>2, DeskInvInit, ActivationTypeCorrect, PTL DEF ActivationSpec

\* And an activation leaves its desk only into an archive that holds it.
THEOREM AttemptsStand ==
    ASSUME Teachers = 1
    PROVE  ActivationSpec => AttemptStands
<1> DEFINE Stands(desk) ==
        Activation(desk) \notin {NoFile, Activation(desk)'} =>
            /\ Activation(desk)' = NoFile
            /\ \E archive \in archives' : archive.activation = Activation(desk)
<1>1. ActivationTypeOK /\ DeskInv /\ [ActivationNext]_skillVars
      => [\A desk \in Desks : Stands(desk)]_skillVars
  <2> SUFFICES ASSUME ActivationTypeOK, DeskInv, [ActivationNext]_skillVars,
                      NEW desk \in Desks, Activation(desk) \notin {NoFile, Activation(desk)'}
               PROVE  /\ Activation(desk)' = NoFile
                      /\ \E archive \in archives' : archive.activation = Activation(desk)
    OBVIOUS
  <2>1. UNCHANGED bundles => FALSE
    BY DEF Activation
  <2>2. PICK r \in Resolvers : ResolverStep(r)
    BY <2>1 DEF ActivationNext, RunStep, AttachBrief, AcceptActivation, BeginAuthoring,
                FreezePackage, BeginRevision, WriteBrief, Promote, skillVars
  <2>3. desk = Desk(r)
    BY <2>2, BundleStep DEF Activation
  <2>4. ~(MovePrompt(r) \/ MoveLock(r) \/ WritePrompt(r) \/ WriteLock(r))
    BY <2>3 DEF MovePrompt, MoveLock, WritePrompt, WriteLock, Activation, ActivationTypeOK
  <2>5. ~WriteActivation(r)
    BY <2>3 DEF WriteActivation, DeskInv, Published, Publishing, Activation
  <2>6. MoveActivation(r)
    BY <2>1, <2>2, <2>4, <2>5
       DEF ResolverStep, Start, CreateRoster, WriteRoster, JoinRoster, FindNone, FindOwn,
           FindOther, Seal, Resolve, Crash, files
  <2>7. PICK old \in InHand(r) : TRUE
    BY <2>6 DEF MoveActivation, DeskInv, Moved
  <2>8. [old EXCEPT !["activation"] = Activation(desk)] \in archives'
    BY <2>3, <2>6, <2>7 DEF MoveActivation, Change
  <2>9. [old EXCEPT !["activation"] = Activation(desk)].activation = Activation(desk)
    BY <2>7, InHandTyped DEF Archives
  <2>10. Activation(desk)' = NoFile
    BY <2>3, <2>6 DEF MoveActivation, Activation, ActivationTypeOK
  <2> QED BY <2>8, <2>9, <2>10
<1>2. ActivationTypeOK /\ DeskInv /\ [ActivationNext]_skillVars => DeskInv'
  BY DeskInvStep
<1> QED BY <1>1, <1>2, DeskInvInit, ActivationTypeCorrect, PTL
        DEF ActivationSpec, AttemptStands
=============================================================================
