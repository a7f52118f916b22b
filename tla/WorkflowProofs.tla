--------------------------- MODULE WorkflowProofs ---------------------------
(***************************************************************************)
(* What holds of a run for any number of processes, requests, revisions    *)
(* and sessions.  The invariants of the workflow are not inductive alone:  *)
(* a process that read the run and has yet to commit holds a snapshot that *)
(* must already be well formed, continue the present ledger and name a     *)
(* session that is (or is about to be) reserved.  Inv says so of every     *)
(* pending operation; RunStore's comparison of sequence numbers (Behind)   *)
(* is what keeps it when another process commits first.                    *)
(*                                                                         *)
(* EvidenceInv says of the same snapshots what their ledger stands for:    *)
(* while rounds may be recorded the accepted ones are numbered without a   *)
(* gap and none is high, which is what the next verdict rests on.  And of  *)
(* a round that was read and is not yet recorded, that its receipts are of *)
(* its own session: it will write them whatever the run has become.        *)
(*                                                                         *)
(* First the registry alone, with any number of runs, sessions and         *)
(* threads.  The workflow changes it only by its operations.               *)
(***************************************************************************)
EXTENDS Workflow, FiniteSetTheorems, TLAPS

-----------------------------------------------------------------------------
(* The registry: its type, one session per revision and the rule on threads, *)
(* each inductive together with the type.                                    *)

\* A record of a new reservation is a record.
LEMMA NewRecordType ==
    ASSUME NEW owner \in Runs, NEW revision \in Revisions, NEW thread \in Threads
    PROVE  NewRecord(owner, revision, thread) \in ValidationSessionRecord
BY DEF NewRecord, ValidationSessionRecord, Statuses

-----------------------------------------------------------------------------
\* What one reservation or closing does to the registry, seen from any session.
LEMMA ReserveEffect ==
    ASSUME RegistryTypeOK,
           NEW owner \in Runs, NEW revision \in Revisions, NEW thread \in Threads,
           NEW session \in Sessions, Reserve(owner, revision, session, thread)
    PROVE  \/ registry' = registry
           \/ /\ Register(owner, revision, session, thread)
              /\ registry'[session] = NewRecord(owner, revision, thread)
              /\ \A s \in Sessions \ {session} : registry'[s] = registry[s]
              /\ session \notin Registered
              /\ Registered' = Registered \cup {session}
<1>1. CASE Repeat(owner, revision, session, thread)
  BY <1>1 DEF Repeat
<1>2. CASE Register(owner, revision, session, thread)
  <2>1. /\ registry'[session] = NewRecord(owner, revision, thread)
        /\ \A s \in Sessions \ {session} : registry'[s] = registry[s]
    BY <1>2 DEF Register, RegistryTypeOK
  <2>2. NewRecord(owner, revision, thread) # Unused
    BY NewRecordType, UnusedAssumption
  <2>3. session \notin Registered /\ Registered' = Registered \cup {session}
    BY <1>2, <2>1, <2>2 DEF Register, Registered
  <2> QED BY <1>2, <2>1, <2>3
<1> QED BY <1>1, <1>2 DEF Reserve

LEMMA CloseEffect ==
    ASSUME RegistryTypeOK, NEW session \in Sessions, NEW status \in Closings,
           Close(session, status)
    PROVE  /\ session \in Registered
           /\ registry[session] \in ValidationSessionRecord
           /\ registry'[session] = [registry[session] EXCEPT !.status = status]
           /\ registry'[session] \in ValidationSessionRecord
           /\ \A s \in Sessions \ {session} : registry'[s] = registry[s]
           /\ Registered' = Registered
<1>1. session \in Registered /\ registry[session] \in ValidationSessionRecord
  BY DEF Close, MayClose, Registered, RegistryTypeOK
<1>2. /\ registry'[session] = [registry[session] EXCEPT !.status = status]
      /\ \A s \in Sessions \ {session} : registry'[s] = registry[s]
  BY DEF Close, RegistryTypeOK
<1>3. registry'[session] \in ValidationSessionRecord
  BY <1>1, <1>2 DEF ValidationSessionRecord, Statuses
<1>4. Registered' = Registered
  BY <1>1, <1>2, <1>3, UnusedAssumption DEF Registered
<1> QED BY <1>1, <1>2, <1>3, <1>4

-----------------------------------------------------------------------------
\* The registry holds only records, one step of any caller at a time.
LEMMA TypeStep == RegistryTypeOK /\ [RegistryNext]_registry => RegistryTypeOK'
<1> SUFFICES ASSUME RegistryTypeOK, [RegistryNext]_registry
             PROVE  RegistryTypeOK'
  OBVIOUS
<1>1. CASE UNCHANGED registry
  BY <1>1 DEF RegistryTypeOK
<1>2. ASSUME NEW s \in Sessions, NEW owner \in Runs, NEW revision \in Revisions,
             NEW thread \in Threads, Reserve(owner, revision, s, thread)
      PROVE  RegistryTypeOK'
  BY <1>2, NewRecordType DEF Reserve, Repeat, Register, RegistryTypeOK
<1>3. ASSUME NEW s \in Sessions, NEW status \in Closings, Close(s, status)
      PROVE  RegistryTypeOK'
  <2>1. [registry[s] EXCEPT !.status = status] \in ValidationSessionRecord
    BY <1>3, CloseEffect
  <2> QED BY <1>3, <2>1 DEF Close, RegistryTypeOK
<1> QED BY <1>1, <1>2, <1>3 DEF RegistryNext

\* Every record in the registry is one of the code's records, in every state.
THEOREM RegistryTypeCorrect == RegistrySpec => []RegistryTypeOK
<1>1. RegistryInit => RegistryTypeOK
  BY DEF RegistryInit, RegistryTypeOK
<1> QED BY <1>1, TypeStep, PTL DEF RegistrySpec

-----------------------------------------------------------------------------
LEMMA SessionStep ==
    RegistryTypeOK /\ OneSessionPerRevision /\ [RegistryNext]_registry
        => OneSessionPerRevision'
<1> SUFFICES ASSUME RegistryTypeOK, OneSessionPerRevision, [RegistryNext]_registry
             PROVE  OneSessionPerRevision'
  OBVIOUS
<1>1. CASE UNCHANGED registry
  BY <1>1 DEF OneSessionPerRevision, Registered
<1>2. ASSUME NEW u \in Sessions, NEW owner \in Runs, NEW revision \in Revisions,
             NEW thread \in Threads, Reserve(owner, revision, u, thread)
      PROVE  OneSessionPerRevision'
  <2>1. CASE registry' = registry
    BY <2>1 DEF OneSessionPerRevision, Registered
  <2>2. CASE registry' # registry
    <3>1. /\ Register(owner, revision, u, thread)
          /\ registry'[u] = NewRecord(owner, revision, thread)
          /\ \A s \in Sessions \ {u} : registry'[s] = registry[s]
          /\ u \notin Registered
          /\ Registered' = Registered \cup {u}
      BY <1>2, <2>2, ReserveEffect
    <3>2. registry'[u].run = owner /\ registry'[u].revision = revision
      BY <3>1 DEF NewRecord
    <3>3. \A s \in Registered :
              ~(registry[s].run = owner /\ registry[s].revision = revision)
      BY <3>1 DEF Register, RevisionTaken
    <3>4. \A s \in Registered : registry'[s] = registry[s]
      BY <3>1 DEF Registered
    <3> QED BY <3>1, <3>2, <3>3, <3>4 DEF OneSessionPerRevision
  <2> QED BY <2>1, <2>2
<1>3. ASSUME NEW u \in Sessions, NEW status \in Closings, Close(u, status)
      PROVE  OneSessionPerRevision'
  <2>1. /\ registry[u] \in ValidationSessionRecord
        /\ registry'[u] = [registry[u] EXCEPT !.status = status]
        /\ \A s \in Sessions \ {u} : registry'[s] = registry[s]
        /\ Registered' = Registered
    BY <1>3, CloseEffect
  <2>2. \A s \in Registered : /\ registry'[s].run = registry[s].run
                              /\ registry'[s].revision = registry[s].revision
    BY <2>1 DEF Registered, ValidationSessionRecord
  <2> QED BY <2>1, <2>2 DEF OneSessionPerRevision
<1> QED BY <1>1, <1>2, <1>3 DEF RegistryNext

\* A revision of a run never has two validation sessions, for any number of
\* runs and of repeated or competing reservations.
THEOREM OneSessionEach == RegistrySpec => []OneSessionPerRevision
<1>1. RegistryInit => RegistryTypeOK /\ OneSessionPerRevision
  BY DEF RegistryInit, RegistryTypeOK, OneSessionPerRevision, Registered
<1> QED BY <1>1, TypeStep, SessionStep, PTL DEF RegistrySpec

-----------------------------------------------------------------------------
LEMMA ThreadStep ==
    RegistryTypeOK /\ ThreadCarriesNothingOver /\ [RegistryNext]_registry
        => ThreadCarriesNothingOver'
<1> SUFFICES ASSUME RegistryTypeOK, ThreadCarriesNothingOver, [RegistryNext]_registry
             PROVE  ThreadCarriesNothingOver'
  OBVIOUS
<1>1. CASE UNCHANGED registry
  BY <1>1 DEF ThreadCarriesNothingOver, Registered
<1>2. ASSUME NEW u \in Sessions, NEW owner \in Runs, NEW revision \in Revisions,
             NEW thread \in Threads, Reserve(owner, revision, u, thread)
      PROVE  ThreadCarriesNothingOver'
  <2>1. CASE registry' = registry
    BY <2>1 DEF ThreadCarriesNothingOver, Registered
  <2>2. CASE registry' # registry
    <3>1. /\ Register(owner, revision, u, thread)
          /\ registry'[u] = NewRecord(owner, revision, thread)
          /\ \A s \in Sessions \ {u} : registry'[s] = registry[s]
          /\ u \notin Registered
          /\ Registered' = Registered \cup {u}
      BY <1>2, <2>2, ReserveEffect
    <3>2. registry'[u].run = owner /\ registry'[u].thread = thread
      BY <3>1 DEF NewRecord
    <3>3. \A s \in Registered : registry[s].thread = thread =>
              registry[s].run = owner /\ registry[s].status = "CLOSED_MIGRATED"
      BY <3>1 DEF Register, ThreadFree
    <3>4. \A s \in Registered : registry'[s] = registry[s]
      BY <3>1 DEF Registered
    <3> QED BY <3>1, <3>2, <3>3, <3>4 DEF ThreadCarriesNothingOver
  <2> QED BY <2>1, <2>2
<1>3. ASSUME NEW u \in Sessions, NEW status \in Closings, Close(u, status)
      PROVE  ThreadCarriesNothingOver'
  <2>1. /\ registry[u] \in ValidationSessionRecord
        /\ registry'[u] = [registry[u] EXCEPT !.status = status]
        /\ \A s \in Sessions \ {u} : registry'[s] = registry[s]
        /\ Registered' = Registered
    BY <1>3, CloseEffect
  <2>2. \A s \in Registered : /\ registry'[s].run = registry[s].run
                              /\ registry'[s].thread = registry[s].thread
    BY <2>1 DEF Registered, ValidationSessionRecord
  <2>3. registry[u].status \in {"ACTIVE", status} /\ registry'[u].status = status
    BY <1>3, <2>1 DEF Close, MayClose, ValidationSessionRecord
  <2>4. \A s \in Registered : registry[s].status = "CLOSED_MIGRATED" =>
            registry'[s].status = "CLOSED_MIGRATED"
    BY <2>1, <2>3 DEF Registered
  <2> QED BY <2>1, <2>2, <2>4 DEF ThreadCarriesNothingOver
<1> QED BY <1>1, <1>2, <1>3 DEF RegistryNext

\* No Researcher thread works for two runs, or for two sessions of a run that
\* were not migrated, whatever the runs do at once.
THEOREM NothingCarriedOver == RegistrySpec => []ThreadCarriesNothingOver
<1>1. RegistryInit => RegistryTypeOK /\ ThreadCarriesNothingOver
  BY DEF RegistryInit, RegistryTypeOK, ThreadCarriesNothingOver, Registered
<1> QED BY <1>1, TypeStep, ThreadStep, PTL DEF RegistrySpec

-----------------------------------------------------------------------------
\* A used identity stays used and keeps its closing, in every step.
THEOREM PermanentIdentity == RegistrySpec => IdentityIsPermanent
<1> DEFINE Permanent ==
        \A s \in Registered :
            \/ registry'[s] = registry[s]
            \/ /\ registry[s].status = "ACTIVE"
               /\ \E status \in Closings :
                      registry'[s] = [registry[s] EXCEPT !.status = status]
<1>1. ASSUME RegistryTypeOK, [RegistryNext]_registry
      PROVE  [Permanent]_registry
  <2>1. CASE UNCHANGED registry
    BY <2>1
  <2>2. ASSUME NEW u \in Sessions, NEW owner \in Runs, NEW revision \in Revisions,
               NEW thread \in Threads, Reserve(owner, revision, u, thread)
        PROVE  Permanent
    BY <1>1, <2>2, ReserveEffect DEF Registered
  <2>3. ASSUME NEW u \in Sessions, NEW status \in Closings, Close(u, status)
        PROVE  Permanent
    <3>1. /\ registry[u] \in ValidationSessionRecord
          /\ registry'[u] = [registry[u] EXCEPT !.status = status]
          /\ \A s \in Sessions \ {u} : registry'[s] = registry[s]
      BY <1>1, <2>3, CloseEffect
    <3>2. registry[u].status = "ACTIVE" \/ registry[u].status = status
      BY <2>3 DEF Close, MayClose
    <3>3. registry[u].status = status => registry'[u] = registry[u]
      BY <3>1 DEF ValidationSessionRecord
    <3> QED BY <3>1, <3>2, <3>3 DEF Registered
  <2> QED BY <1>1, <2>1, <2>2, <2>3 DEF RegistryNext
<1>2. RegistryTypeOK /\ [RegistryNext]_registry => [Permanent]_registry
  BY <1>1
<1> QED BY <1>2, RegistryTypeCorrect, PTL DEF RegistrySpec, IdentityIsPermanent

-----------------------------------------------------------------------------
(* The run.                                                                  *)

\* A run has a session exactly when it has left authoring, and the ledger of a
\* revision starts empty.
Shape(s) ==
    /\ s.session = None <=> s.state \in {"DESIGNING", "AUTHORING"}
    /\ s.session = None => s.attempts = <<>>

\* next may replace run: a snapshot of the same revision extends its ledger.
Continues(next) ==
    next.revision = run.revision =>
        /\ Len(run.attempts) <= Len(next.attempts)
        /\ \A i \in DOMAIN run.attempts : next.attempts[i] = run.attempts[i]

ReservedFor(session, revision) ==
    /\ registry[session] # Unused
    /\ registry[session].run = Self
    /\ registry[session].revision = revision

\* Of a snapshot, and of a round on its way into the ledger.
HoldsItsSession(s) ==
    s.session # None => ReservedFor(s.session.id, s.session.revision)

CommitOK(operation) ==
    operation.at = "commit" => Shape(operation.next) /\ Continues(operation.next)

\* What a pending operation will commit, and what it has reserved for it.
OperationOK(op) ==
    /\ CommitOK(op)
    /\ op.at \in {"reserve", "close"} => CommitOK(op.then)
    /\ op.at = "commit" => HoldsItsSession(op.next)
    /\ op.at = "close" /\ op.then.at = "commit" => HoldsItsSession(op.then.next)
    /\ op.at = "reserve" /\ op.then.at = "commit" =>
           /\ op.then.next.session.id = op.session
           /\ op.then.next.session.revision = op.revision
    /\ op.at = "record" =>
           /\ HoldsItsSession(op)
           /\ op.request \in DOMAIN requests
           /\ requests[op.request].protocol = "linear"

RequestsOK ==
    /\ Len(requests) <= MaxRequests
    /\ \A i \in DOMAIN requests :
           /\ requests[i].protocol = "linear" => requests[i].mode # "interactive"
           /\ requests[i].protocol = "persistent" => requests[i].trial \in PersistentTrials

Inv ==
    /\ TypeOK
    /\ RequestsOK
    /\ Shape(run)
    /\ HoldsItsSession(run)
    /\ \A p \in Procs : OperationOK(pc[p])

\* An operation whose commit was made or is no longer possible.
NothingToCommit(op) ==
    /\ op.at \notin {"commit", "record"}
    /\ op.at \in {"reserve", "close"} => op.then.at # "commit"

-----------------------------------------------------------------------------
(* Operations and commits.                                                   *)

LEMMA RestType ==
    ASSUME NEW next \in Snapshots
    PROVE  /\ Idle \in Rests /\ Ready \in Rests /\ Committing(next) \in Rests
           /\ Idle \in Operations /\ Ready \in Operations
           /\ Committing(next) \in Operations
BY DEF Rests, Operations, Idle, Ready, Committing, Commits

\* The record of an operation is known by its step.
LEMMA OperationKinds ==
    ASSUME NEW op \in Operations
    PROVE  \/ op = Idle \/ op = Ready
           \/ op.at = "commit" /\ op \in Commits
           \/ /\ op.at = "reserve"
              /\ op \in [at : {"reserve"}, session : Sessions, thread : Threads,
                         revision : Revisions, then : Rests]
           \/ /\ op.at = "close"
              /\ op \in [at : {"close"}, session : Sessions, status : Closings,
                         then : Rests]
           \/ /\ op.at = "record"
              /\ op \in [at : {"record"}, request : Requests, outcome : AllOutcomes,
                         session : ValidationSessions, rounds : Rounds]
BY DEF Operations, Rests, Idle, Ready, Commits

LEMMA RestKinds ==
    ASSUME NEW op \in Rests
    PROVE  op = Idle \/ op = Ready \/ (op.at = "commit" /\ op.next \in Snapshots)
BY DEF Rests, Idle, Ready, Commits

\* Another process's commit leaves nothing that could be committed over it unread.
LEMMA BehindType ==
    ASSUME NEW op \in Operations
    PROVE  /\ Behind(op) \in Operations
           /\ NothingToCommit(Behind(op)) \/ (op.at = "record" /\ Behind(op) = op)
<1>0. Idle \in Rests /\ Rests \subseteq Operations
  BY DEF Rests, Operations
<1>1. CASE op = Idle \/ op = Ready
  BY <1>1 DEF Behind, Idle, Ready, NothingToCommit
<1>2. CASE op.at = "commit"
  BY <1>0, <1>2 DEF Behind, Idle, NothingToCommit
<1>3. CASE op.at \in {"reserve", "close"} /\ op.then.at = "commit"
  <2>1. Behind(op) = [op EXCEPT !.then = Idle]
    BY <1>3 DEF Behind
  <2>2. [op EXCEPT !.then = Idle] \in Operations
    BY <1>0, <1>3, OperationKinds DEF Operations, Idle, Ready
  <2>3. [op EXCEPT !.then = Idle].at = op.at /\ [op EXCEPT !.then = Idle].then = Idle
    BY <1>3, OperationKinds DEF Idle, Ready
  <2> QED BY <1>3, <2>1, <2>2, <2>3 DEF NothingToCommit, Idle
<1>4. CASE op.at \in {"reserve", "close"} /\ op.then.at # "commit"
  BY <1>4 DEF Behind, NothingToCommit
<1>5. CASE op.at = "record"
  BY <1>5 DEF Behind
<1> QED BY <1>1, <1>2, <1>3, <1>4, <1>5, OperationKinds

\* A registry repair leaves nothing to commit, nor does what follows it.
LEMMA ReconcilingType ==
    ASSUME NEW snapshot \in Snapshots, NEW then \in {Idle, Ready}
    PROVE  /\ Reconciling(snapshot, then) \in Operations
           /\ NothingToCommit(Reconciling(snapshot, then))
<1>1. then \in Rests /\ then \in Operations
  BY DEF Rests, Operations
<1>2. CASE snapshot.session # None /\ Settled(snapshot.state)
  <2>1. snapshot.session.id \in Sessions
    BY <1>2 DEF Snapshots, ValidationSessions
  <2>2. ClosingOf(snapshot.state) \in Closings
    BY DEF ClosingOf, Closings
  <2> QED BY <1>1, <1>2, <2>1, <2>2
          DEF Reconciling, Closing, Operations, NothingToCommit, Idle, Ready
<1>3. CASE ~(snapshot.session # None /\ Settled(snapshot.state))
  BY <1>1, <1>3 DEF Reconciling, NothingToCommit, Idle, Ready
<1> QED BY <1>2, <1>3

\* An operation with nothing to commit needs no support.
LEMMA NothingToCommitOK ==
    ASSUME NEW op, NothingToCommit(op)
    PROVE  OperationOK(op) /\ OperationOK(op)'
BY DEF NothingToCommit, OperationOK, CommitOK

\* A commit of a well-formed snapshot that names a reserved session keeps Inv.
LEMMA CommitKeepsInv ==
    ASSUME Inv, NEW p \in Procs, NEW next \in Snapshots, NEW op \in Operations,
           Shape(next), HoldsItsSession(next), NothingToCommit(op),
           Commit(p, next, op), UNCHANGED <<requests, registry>>
    PROVE  Inv'
<1>1. run' = next
  BY DEF Commit
<1>2. ASSUME NEW q \in Procs
      PROVE  /\ pc'[q] \in Operations
             /\ NothingToCommit(pc'[q]) \/ (pc'[q].at = "record" /\ pc'[q] = pc[q])
  BY BehindType DEF Commit, Inv, TypeOK
<1>3. pc' \in [Procs -> Operations]
  BY <1>2 DEF Commit
<1>4. TypeOK'
  BY <1>1, <1>3 DEF Inv, TypeOK, RegistryTypeOK
<1>5. RequestsOK'
  BY DEF Inv, RequestsOK
<1>6. Shape(run)' /\ HoldsItsSession(run)'
  BY <1>1 DEF Shape, HoldsItsSession, ReservedFor
<1>7. ASSUME NEW q \in Procs
      PROVE  OperationOK(pc[q])'
  <2>1. CASE NothingToCommit(pc'[q])
    BY <2>1 DEF NothingToCommit, OperationOK, CommitOK
  <2>2. CASE pc'[q].at = "record" /\ pc'[q] = pc[q]
    <3>1. OperationOK(pc[q])
      BY DEF Inv
    <3> QED BY <2>2, <3>1 DEF OperationOK, CommitOK, HoldsItsSession, ReservedFor
  <2> QED BY <1>2, <2>1, <2>2
<1> QED BY <1>4, <1>5, <1>6, <1>7 DEF Inv

\* A step of one process towards its commit keeps Inv.
LEMMA AwaitKeepsInv ==
    ASSUME Inv, NEW p \in Procs, NEW op \in Operations, OperationOK(op),
           Await(p, op), UNCHANGED <<run, requests, registry>>
    PROVE  Inv'
<1>1. pc' \in [Procs -> Operations]
  BY DEF Await, Inv, TypeOK
<1>2. \A q \in Procs : pc'[q] = IF q = p THEN op ELSE pc[q]
  BY DEF Await, Inv, TypeOK
<1>3. TypeOK' /\ RequestsOK'
  BY <1>1 DEF Inv, TypeOK, RegistryTypeOK, RequestsOK
<1>4. Shape(run)' /\ HoldsItsSession(run)'
  BY DEF Inv, Shape, HoldsItsSession, ReservedFor
<1>5. \A q \in Procs : OperationOK(pc'[q])
  BY <1>2 DEF Inv
<1>6. ASSUME NEW q \in Procs
      PROVE  OperationOK(pc[q])'
  BY <1>5 DEF OperationOK, CommitOK, Continues, HoldsItsSession, ReservedFor, Shape
<1> QED BY <1>3, <1>4, <1>6 DEF Inv

-----------------------------------------------------------------------------
(* The registry.                                                             *)

\* A reservation outlives every step of every run on the registry.
LEMMA ReservationStays ==
    ASSUME RegistryTypeOK, RegistryNext, NEW session \in Sessions, NEW revision,
           ReservedFor(session, revision)
    PROVE  ReservedFor(session, revision)'
<1>1. session \in Registered
  BY DEF ReservedFor, Registered
<1>2. ASSUME NEW u \in Sessions, NEW other \in Runs, NEW rev \in Revisions,
             NEW thread \in Threads, Reserve(other, rev, u, thread)
      PROVE  registry'[session] = registry[session]
  BY <1>1, <1>2, ReserveEffect
<1>3. ASSUME NEW u \in Sessions, NEW status \in Closings, Close(u, status)
      PROVE  /\ registry'[session] \in ValidationSessionRecord
             /\ registry'[session].run = registry[session].run
             /\ registry'[session].revision = registry[session].revision
  <2>1. /\ registry[u] \in ValidationSessionRecord
        /\ registry'[u] = [registry[u] EXCEPT !.status = status]
        /\ registry'[u] \in ValidationSessionRecord
        /\ \A s \in Sessions \ {u} : registry'[s] = registry[s]
    BY <1>3, CloseEffect
  <2>2. registry[session] \in ValidationSessionRecord
    BY <1>1 DEF Registered, RegistryTypeOK
  <2> QED BY <2>1, <2>2 DEF ValidationSessionRecord
<1> QED BY <1>2, <1>3, UnusedAssumption DEF RegistryNext, ReservedFor

\* A step on the registry keeps Inv, when the operation it leaves is supported.
LEMMA RegistryKeepsInv ==
    ASSUME Inv, RegistryNext, UNCHANGED <<run, requests>>,
           pc' \in [Procs -> Operations],
           \A p \in Procs :
               \/ pc'[p] = pc[p]
               \/ OperationOK(pc[p])'
    PROVE  Inv'
<1>1. RegistryTypeOK'
  BY TypeStep DEF Inv, TypeOK
<1>2. TypeOK' /\ RequestsOK'
  BY <1>1 DEF Inv, TypeOK, RequestsOK
<1>3. ASSUME NEW s, s.session # None => s.session.id \in Sessions, HoldsItsSession(s)
      PROVE  HoldsItsSession(s)'
  BY <1>3, ReservationStays DEF HoldsItsSession, Inv, TypeOK
<1>4. Shape(run)' /\ HoldsItsSession(run)'
  <2>1. PICK s \in Snapshots : s = run
    BY DEF Inv, TypeOK
  <2>2. HoldsItsSession(s)'
    BY <1>3, <2>1 DEF Inv, Snapshots, ValidationSessions
  <2> QED BY <2>1, <2>2 DEF Inv, Shape, HoldsItsSession, ReservedFor
<1>5. ASSUME NEW p \in Procs, pc'[p] = pc[p]
      PROVE  OperationOK(pc[p])'
  <2>1. pc[p] \in Operations /\ OperationOK(pc[p])
    BY DEF Inv, TypeOK
  <2>2. pc[p].at = "commit" => pc[p].next \in Snapshots
    BY <2>1, OperationKinds DEF Commits, Idle, Ready
  <2>3. pc[p].at = "close" /\ pc[p].then.at = "commit" =>
            pc[p].then.next \in Snapshots
    BY <2>1, OperationKinds, RestKinds DEF Commits, Idle, Ready
  <2>4. \A s \in Snapshots : s.session # None => s.session.id \in Sessions
    BY DEF Snapshots, ValidationSessions
  <2>5. pc[p].at = "commit" => HoldsItsSession(pc[p].next)'
    BY <1>3, <1>5, <2>1, <2>2, <2>4 DEF OperationOK, HoldsItsSession, ReservedFor
  <2>6. pc[p].at = "close" /\ pc[p].then.at = "commit" =>
            HoldsItsSession(pc[p].then.next)'
    BY <1>3, <1>5, <2>1, <2>3, <2>4 DEF OperationOK, HoldsItsSession, ReservedFor
  <2>7. pc[p].at = "record" => pc[p].session.id \in Sessions
    BY <2>1, OperationKinds DEF ValidationSessions, Idle, Ready, Commits
  <2>8. pc[p].at = "record" => HoldsItsSession(pc[p])'
    BY <1>3, <1>5, <2>1, <2>7 DEF OperationOK, HoldsItsSession, ReservedFor
  <2> QED BY <1>5, <2>1, <2>5, <2>6, <2>8
          DEF OperationOK, CommitOK, Continues, Shape
<1> QED BY <1>2, <1>4, <1>5 DEF Inv

\* Reserve and Close, whoever calls them, are steps of the registry.
LEMMA ReserveStepKeepsInv ==
    ASSUME Inv, NEW p \in Procs, ReserveStep(p)
    PROVE  Inv' /\ RegistryNext
<1>1. PICK op \in Operations : op = pc[p]
  BY DEF Inv, TypeOK
<1>2. /\ op.session \in Sessions /\ op.thread \in Threads
      /\ op.revision \in Revisions /\ op.then \in Rests
      /\ op.at = "reserve"
  BY <1>1, OperationKinds DEF ReserveStep, Idle, Ready
<1>3. RegistryNext
  BY <1>1, <1>2, WorkflowAssumption DEF ReserveStep, RegistryNext
<1>4. /\ pc' \in [Procs -> Operations]
      /\ \A q \in Procs : pc'[q] = IF q = p THEN op.then ELSE pc[q]
  BY <1>1, <1>2 DEF ReserveStep, Await, Inv, TypeOK, Operations
<1>5. ReservedFor(op.session, op.revision)'
  <2>1. registry'[op.session] = NewRecord(Self, op.revision, op.thread)
    BY <1>1, <1>2 DEF ReserveStep, Reserve, Repeat, Register, Inv, TypeOK, RegistryTypeOK
  <2>2. registry'[op.session] # Unused
    BY <1>2, <2>1, NewRecordType, UnusedAssumption, WorkflowAssumption
  <2> QED BY <2>1, <2>2 DEF ReservedFor, NewRecord
<1>6. OperationOK(op)
  BY <1>1 DEF Inv
<1>7. OperationOK(op.then)'
  <2>1. CASE op.then = Idle \/ op.then = Ready
    BY <2>1 DEF OperationOK, CommitOK, Idle, Ready
  <2>2. CASE op.then.at = "commit"
    <3>1. Shape(op.then.next)' /\ Continues(op.then.next)'
      BY <1>2, <1>6, <2>2 DEF OperationOK, CommitOK, Shape, Continues, ReserveStep
    <3>2. HoldsItsSession(op.then.next)'
      BY <1>2, <1>5, <1>6, <2>2 DEF OperationOK, HoldsItsSession
    <3> QED BY <2>2, <3>1, <3>2 DEF OperationOK, CommitOK
  <2> QED BY <1>2, <2>1, <2>2, RestKinds
<1>8. ASSUME NEW q \in Procs
      PROVE  pc'[q] = pc[q] \/ OperationOK(pc[q])'
  BY <1>4, <1>7 DEF OperationOK, CommitOK, HoldsItsSession, ReservedFor, Continues, Shape
<1> QED BY <1>3, <1>4, <1>8, RegistryKeepsInv DEF ReserveStep

LEMMA CloseStepKeepsInv ==
    ASSUME Inv, NEW p \in Procs, CloseStep(p)
    PROVE  Inv' /\ RegistryNext
<1>1. PICK op \in Operations : op = pc[p]
  BY DEF Inv, TypeOK
<1>2. /\ op.session \in Sessions /\ op.status \in Closings /\ op.then \in Rests
      /\ op.at = "close"
  BY <1>1, OperationKinds DEF CloseStep, Idle, Ready
<1>3. RegistryNext
  BY <1>1, <1>2 DEF CloseStep, RegistryNext
<1>4. /\ pc' \in [Procs -> Operations]
      /\ \A q \in Procs : pc'[q] = IF q = p THEN op.then ELSE pc[q]
  BY <1>1, <1>2 DEF CloseStep, Await, Inv, TypeOK, Operations
<1>5. OperationOK(op)
  BY <1>1 DEF Inv
<1>6. OperationOK(op.then)'
  <2>1. CASE op.then = Idle \/ op.then = Ready
    BY <2>1 DEF OperationOK, CommitOK, Idle, Ready
  <2>2. CASE op.then.at = "commit"
    <3>1. Shape(op.then.next)' /\ Continues(op.then.next)'
      BY <1>2, <1>5, <2>2 DEF OperationOK, CommitOK, Shape, Continues, CloseStep
    <3>2. op.then.next \in Snapshots
      BY <1>2, <2>2, RestKinds DEF Idle, Ready
    <3>3. op.then.next.session # None => op.then.next.session.id \in Sessions
      BY <3>2 DEF Snapshots, ValidationSessions
    <3>4. HoldsItsSession(op.then.next)'
      BY <1>2, <1>3, <1>5, <2>2, <3>3, ReservationStays
      DEF OperationOK, HoldsItsSession, Inv, TypeOK
    <3> QED BY <2>2, <3>1, <3>4 DEF OperationOK, CommitOK
  <2> QED BY <1>2, <2>1, <2>2, RestKinds
<1>7. ASSUME NEW q \in Procs
      PROVE  pc'[q] = pc[q] \/ OperationOK(pc[q])'
  BY <1>4, <1>6 DEF OperationOK, CommitOK, HoldsItsSession, ReservedFor, Continues, Shape
<1> QED BY <1>3, <1>4, <1>7, RegistryKeepsInv DEF CloseStep

LEMMA SiblingKeepsInv ==
    ASSUME Inv, Sibling
    PROVE  Inv' /\ RegistryNext
<1>1. RegistryNext
  BY DEF Sibling, RegistryNext
<1>2. pc' \in [Procs -> Operations] /\ \A p \in Procs : pc'[p] = pc[p]
  BY DEF Sibling, Inv, TypeOK
<1> QED BY <1>1, <1>2, RegistryKeepsInv DEF Sibling

-----------------------------------------------------------------------------
(* Requests.                                                                 *)

\* A request in flight says nothing about the run, and stays as it was issued.
LEMMA RequestKeepsInv ==
    ASSUME Inv, UNCHANGED <<run, pc, registry>>,
           requests' \in Seq(ResearcherRequests), RequestsOK',
           \A i \in DOMAIN requests : i \in DOMAIN requests' /\ requests'[i] = requests[i]
    PROVE  Inv'
<1>1. TypeOK'
  BY DEF Inv, TypeOK, RegistryTypeOK
<1>2. Shape(run)' /\ HoldsItsSession(run)'
  BY DEF Inv, Shape, HoldsItsSession, ReservedFor
<1>3. ASSUME NEW p \in Procs
      PROVE  OperationOK(pc[p])'
  BY DEF Inv, OperationOK, CommitOK, Continues, HoldsItsSession, ReservedFor, Shape
<1> QED BY <1>1, <1>2, <1>3 DEF Inv

LEMMA AppendedRequest ==
    ASSUME Inv, NEW r \in ResearcherRequests, Len(requests) < MaxRequests,
           r.protocol = "linear" => r.mode # "interactive",
           r.protocol = "persistent" => r.trial \in PersistentTrials,
           requests' = Append(requests, r)
    PROVE  /\ requests' \in Seq(ResearcherRequests) /\ RequestsOK'
           /\ \A i \in DOMAIN requests :
                  i \in DOMAIN requests' /\ requests'[i] = requests[i]
<1>1. requests \in Seq(ResearcherRequests) /\ RequestsOK
  BY DEF Inv, TypeOK
<1>2. /\ requests' \in Seq(ResearcherRequests)
      /\ Len(requests') = Len(requests) + 1
      /\ \A i \in 1 .. Len(requests) : requests'[i] = requests[i]
      /\ requests'[Len(requests) + 1] = r
  BY <1>1
<1>3. DOMAIN requests' = 1 .. (Len(requests) + 1) /\ DOMAIN requests = 1 .. Len(requests)
  BY <1>1, <1>2
<1>4. ASSUME NEW i \in DOMAIN requests'
      PROVE  i = Len(requests) + 1 \/ i \in DOMAIN requests
  BY <1>1, <1>3
<1> QED BY <1>1, <1>2, <1>3, <1>4, WorkflowAssumption DEF RequestsOK

\* An open session is a session.
LEMMA ActiveSession ==
    ASSUME Inv, Active
    PROVE  run.session \in ValidationSessions
BY DEF Inv, TypeOK, Snapshots, Active

\* The rounds of a trial are a sequence of outcomes.
LEMMA TrialType ==
    ASSUME NEW trial \in PersistentTrials
    PROVE  /\ trial \in Seq({"LOW", "HIGH", "FAILED"})
           /\ Len(trial) \in 1 .. 5
<1>1. PICK n \in 1 .. 5 : trial \in [1 .. n -> {"LOW", "HIGH", "FAILED"}]
  BY DEF PersistentTrials
<1>2. trial \in Seq({"LOW", "HIGH", "FAILED"}) /\ Len(trial) = n
  BY <1>1
<1> QED BY <1>2

LEMMA IssueKeepsInv ==
    ASSUME Inv, Issue
    PROVE  Inv'
<1>1. CASE IssueLinear
  <2> DEFINE r ==
          [session |-> run.session.id, revision |-> run.revision,
           protocol |-> "linear",
           mode |-> IF run.state = "HINT_VALIDATION" THEN "hint" ELSE "blind",
           prior |-> run.session.receipts, trial |-> <<>>]
  <2>1. /\ run.session.id \in Sessions /\ run.session.receipts \in Seq(Requests)
        /\ run.revision \in Revisions
    BY <1>1, ActiveSession DEF IssueLinear, ValidationSessions, Inv, TypeOK, Snapshots
  <2>2. <<>> \in Seq({"LOW", "HIGH", "FAILED"})
    OBVIOUS
  <2>3. r \in ResearcherRequests
    BY <1>1, <2>1, <2>2 DEF ResearcherRequests, IssueLinear
  <2> QED BY <1>1, <2>3, AppendedRequest, RequestKeepsInv DEF IssueLinear
<1>2. ASSUME NEW dead \in SUBSET DOMAIN requests, NEW trial \in PersistentTrials,
             IssuePersistent(dead, trial)
      PROVE  Inv'
  <2> DEFINE r ==
          [session |-> run.session.id, revision |-> run.revision,
           protocol |-> "persistent",
           mode |-> "interactive", prior |-> <<>>, trial |-> trial]
  <2>1. run.session.id \in Sessions /\ run.revision \in Revisions
    BY <1>2, ActiveSession DEF IssuePersistent, ValidationSessions, Inv, TypeOK, Snapshots
  <2>2. <<>> \in Seq(Requests) /\ trial \in Seq({"LOW", "HIGH", "FAILED"})
    BY TrialType
  <2>3. r \in ResearcherRequests
    BY <1>2, <2>1, <2>2 DEF ResearcherRequests, IssuePersistent
  <2> QED BY <1>2, <2>3, AppendedRequest, RequestKeepsInv DEF IssuePersistent
<1> QED BY <1>1, <1>2 DEF Issue

-----------------------------------------------------------------------------
(* Steps that commit at once.                                                *)

\* The snapshot after a change that leaves revision, attempts and session alone.
LEMMA SameSession ==
    ASSUME Inv, NEW next \in Snapshots, next.attempts = run.attempts,
           next.revision = run.revision, next.session = run.session,
           next.state \in {"DESIGNING", "AUTHORING"} <=>
               run.state \in {"DESIGNING", "AUTHORING"}
    PROVE  Shape(next) /\ HoldsItsSession(next) /\ Continues(next)
BY DEF Inv, TypeOK, Snapshots, Shape, HoldsItsSession, Continues

\* The snapshot after rounds of a reserved session, or a verdict on it.
LEMMA LaterInSession ==
    ASSUME Inv, NEW next \in Snapshots, run.session # None,
           next.revision = run.revision, next.session \in ValidationSessions,
           ReservedFor(next.session.id, next.session.revision),
           next.state \notin {"DESIGNING", "AUTHORING"},
           Len(run.attempts) <= Len(next.attempts),
           \A i \in DOMAIN run.attempts : next.attempts[i] = run.attempts[i]
    PROVE  Shape(next) /\ HoldsItsSession(next) /\ Continues(next)
BY NoneAssumption DEF Inv, Shape, HoldsItsSession, Continues

\* An empty ledger of another revision.
LEMMA NextRevisionOK ==
    ASSUME Inv, NEW revision \in Revisions, revision # run.revision
    PROVE  /\ NextRevision(revision) \in Snapshots
           /\ Shape(NextRevision(revision)) /\ HoldsItsSession(NextRevision(revision))
           /\ Continues(NextRevision(revision))
<1>1. <<>> \in Seq(Attempts)
  OBVIOUS
<1>2. NextRevision(revision) \in Snapshots
  BY <1>1 DEF NextRevision, NoRounds, Rounds, Snapshots, States, Verdicts
<1> QED BY <1>2 DEF NextRevision, Shape, HoldsItsSession, Continues

\* The step p makes, and that it may make it.
LEMMA CommitsOK ==
    ASSUME Inv, NEW p \in Procs, NEW next \in Snapshots, Shape(next),
           HoldsItsSession(next), Continues(next), NEW op \in Operations,
           NothingToCommit(op), Commit(p, next, op), UNCHANGED <<requests, registry>>
    PROVE  Inv' /\ Continues(run')
BY CommitKeepsInv DEF Commit

LEMMA IdleType == Idle \in Operations /\ NothingToCommit(Idle)
BY DEF Idle, Operations, Rests, NothingToCommit

LEMMA EvidenceType ==
    ASSUME Inv
    PROVE  /\ run.state \in States /\ run.deltas \in SUBSET Nat
           /\ run.closure \in Closures \cup {None}
           /\ run.attempts \in Seq(Attempts) /\ DOMAIN run.attempts \subseteq Nat
BY DEF Inv, TypeOK, Snapshots

LEMMA FieldsOfRun ==
    ASSUME Inv
    PROVE  /\ run \in Snapshots
           /\ run.session # None => run.session \in ValidationSessions
           /\ run.state \notin {"DESIGNING", "AUTHORING"} => run.session # None
BY DEF Inv, TypeOK, Snapshots, Shape

LEMMA BeginAuthoringOK ==
    ASSUME Inv, NEW p \in Procs, BeginAuthoring(p)
    PROVE  Inv' /\ Continues(run')
<1> DEFINE next == [run EXCEPT !.state = "AUTHORING"]
<1>1. next \in Snapshots
  BY DEF Inv, TypeOK, Snapshots, States
<1>2. Shape(next) /\ HoldsItsSession(next) /\ Continues(next)
  BY <1>1, SameSession DEF BeginAuthoring, Inv, TypeOK, Snapshots
<1> QED BY <1>1, <1>2, IdleType, CommitsOK DEF BeginAuthoring

\* Finalization moves the state of a run past authoring and accepts evidence.
LEMMA FinalizationOK ==
    ASSUME Inv, NEW p \in Procs,
           NEW state \in States \ {"DESIGNING", "AUTHORING"},
           NEW deltas \in SUBSET Nat, NEW closure \in Closures \cup {None},
           run.state \notin {"DESIGNING", "AUTHORING"},
           Commit(p, [run EXCEPT !.state = state, !.deltas = deltas,
                                 !.closure = closure], Idle),
           UNCHANGED <<requests, registry>>
    PROVE  Inv' /\ Continues(run')
<1> DEFINE next == [run EXCEPT !.state = state, !.deltas = deltas, !.closure = closure]
<1>1. next \in Snapshots
  BY DEF Inv, TypeOK, Snapshots
<1>2. Shape(next) /\ HoldsItsSession(next) /\ Continues(next)
  BY <1>1, SameSession DEF Inv, TypeOK, Snapshots
<1> QED BY <1>1, <1>2, IdleType, CommitsOK

\* Leaving fields as they are is one of these steps.
LEMMA SameFields ==
    ASSUME Inv
    PROVE  \A x : [run EXCEPT !.state = x] =
                      [run EXCEPT !.state = x, !.deltas = run.deltas,
                                  !.closure = run.closure]
BY DEF Inv, TypeOK, Snapshots

LEMMA AcceptDeltaOK ==
    ASSUME Inv, NEW p \in Procs, NEW k \in DOMAIN run.attempts, AcceptDelta(p, k)
    PROVE  Inv' /\ Continues(run')
<1>1. run.deltas \cup {k} \in SUBSET Nat
  BY EvidenceType
<1>2. [run EXCEPT !.deltas = @ \cup {k}, !.closure = None] =
      [run EXCEPT !.state = run.state, !.deltas = run.deltas \cup {k},
                  !.closure = None]
  BY DEF Inv, TypeOK, Snapshots
<1>3. run.state \in States \ {"DESIGNING", "AUTHORING"}
  BY EvidenceType DEF AcceptDelta, Recording, Validating
<1> QED BY <1>1, <1>2, <1>3, FinalizationOK DEF AcceptDelta

LEMMA AcceptClosureOK ==
    ASSUME Inv, NEW p \in Procs, NEW k \in DOMAIN run.attempts,
           NEW deltas \in SUBSET run.deltas, AcceptClosure(p, k, deltas)
    PROVE  Inv' /\ Continues(run')
<1> DEFINE closure == [scientific |-> k, deltas |-> deltas]
<1>1. closure \in Closures \cup {None}
  BY EvidenceType DEF Closures
<1>2. [run EXCEPT !.closure = closure] =
      [run EXCEPT !.state = run.state, !.deltas = run.deltas, !.closure = closure]
  BY DEF Inv, TypeOK, Snapshots
<1>3. run.state \in States \ {"DESIGNING", "AUTHORING"} /\ run.deltas \in SUBSET Nat
  BY EvidenceType DEF AcceptClosure
<1>4. /\ Commit(p, [run EXCEPT !.state = run.state, !.deltas = run.deltas,
                              !.closure = closure], Idle)
      /\ UNCHANGED <<requests, registry>>
  BY <1>2 DEF AcceptClosure
<1> HIDE DEF closure
<1> QED BY <1>1, <1>3, <1>4, FinalizationOK

LEMMA BindEnvironmentOK ==
    ASSUME Inv, NEW p \in Procs,
           BindEnvironment(p) \/ CompleteWithoutEnvironment(p) \/ Finalize(p)
    PROVE  Inv' /\ Continues(run')
<1>1. \A x \in {"PUBLICATION_PENDING", "COMPLETED", "RUNTIME_FINALIZATION"} :
          x \in States \ {"DESIGNING", "AUTHORING"}
  BY DEF States
<1>2. run.state \notin {"DESIGNING", "AUTHORING"}
  BY DEF BindEnvironment, CompleteWithoutEnvironment, Finalize
<1>3. PICK x \in {"PUBLICATION_PENDING", "COMPLETED", "RUNTIME_FINALIZATION"} :
          Commit(p, [run EXCEPT !.state = x], Idle)
  BY DEF BindEnvironment, CompleteWithoutEnvironment, Finalize
<1>4. UNCHANGED <<requests, registry>>
  BY DEF BindEnvironment, CompleteWithoutEnvironment, Finalize
<1>5. Commit(p, [run EXCEPT !.state = x, !.deltas = run.deltas,
                            !.closure = run.closure], Idle)
  BY <1>3, SameFields
<1> QED BY <1>1, <1>2, <1>4, <1>5, EvidenceType, FinalizationOK

\* A run in validation has a session, so the Teacher's step closes one.
LEMMA TeacherDecidesOK ==
    ASSUME Inv, NEW p \in Procs, NEW action \in TeacherActions,
           TeacherDecides(p, action)
    PROVE  Inv' /\ Continues(run')
<1> DEFINE state == CASE action = "CONTINUE_HINT" -> "HINT_VALIDATION"
                      [] action = "CONTINUE_BLIND" -> "BLIND_VALIDATION"
                      [] action = "STOP_TOO_EASY" -> "TOO_EASY"
                      [] action = "STOP_PASSED" -> "VALIDATION_PASSED"
                      [] action = "STOP_BLOCKED" -> "BLOCKED"
           next == [run EXCEPT
                       !.state = state, !.decision = action,
                       !.session.status = IF state \in Validating THEN @ ELSE "CLOSED"]
<1>1. state \in States \ {"DESIGNING", "AUTHORING"}
  BY DEF TeacherActions, States
<1>2. run \in Snapshots /\ run.session \in ValidationSessions
      /\ run.state \notin {"DESIGNING", "AUTHORING"} /\ run.session # None
  BY DEF TeacherDecides, Validating, Inv, TypeOK, Shape, Snapshots
<1>3. /\ next.session \in ValidationSessions /\ next.session.id = run.session.id
      /\ next.session.revision = run.session.revision
  BY <1>2 DEF ValidationSessions, Snapshots
<1>4. /\ next.state = state /\ next.attempts = run.attempts
      /\ next.revision = run.revision
  BY <1>2 DEF Snapshots
<1>5. next \in Snapshots
  BY <1>1, <1>2, <1>3 DEF Snapshots, Verdicts
<1>6. Shape(next) /\ HoldsItsSession(next) /\ Continues(next)
  <2> HIDE DEF next, state
  <2>1. Len(run.attempts) <= Len(next.attempts)
    BY <1>4, EvidenceType
  <2>2. ReservedFor(next.session.id, next.session.revision)
    BY <1>2, <1>3 DEF Inv, HoldsItsSession
  <2> QED BY <1>1, <1>2, <1>3, <1>4, <1>5, <2>1, <2>2, LaterInSession
          DEF HoldsItsSession
<1>7. Commit(p, next, Idle) /\ UNCHANGED <<requests, registry>>
  BY DEF TeacherDecides
<1> QED BY <1>5, <1>6, <1>7, IdleType, CommitsOK

LEMMA RunStepOK ==
    ASSUME Inv, NEW p \in Procs, RunStep(p)
    PROVE  Inv' /\ Continues(run')
BY BeginAuthoringOK, TeacherDecidesOK, AcceptDeltaOK, AcceptClosureOK,
   BindEnvironmentOK DEF RunStep

-----------------------------------------------------------------------------
(* Steps towards a commit.                                                   *)

LEMMA UnchangedContinues ==
    ASSUME Inv, run' = run
    PROVE  Continues(run')
BY EvidenceType DEF Continues

LEMMA AwaitOK ==
    ASSUME Inv, NEW p \in Procs, NEW op \in Operations, OperationOK(op),
           Await(p, op), UNCHANGED <<run, requests, registry>>
    PROVE  Inv' /\ Continues(run')
BY AwaitKeepsInv, UnchangedContinues

\* A commit still to come, alone or behind a closing of the run's session.
LEMMA CommittingOK ==
    ASSUME NEW next \in Snapshots, Shape(next), HoldsItsSession(next),
           Continues(next)
    PROVE  Committing(next) \in Operations /\ OperationOK(Committing(next))
BY RestType DEF Committing, OperationOK, CommitOK

LEMMA ClosingOK ==
    ASSUME NEW next \in Snapshots, Shape(next), HoldsItsSession(next),
           Continues(next), NEW session \in Sessions, NEW status \in Closings
    PROVE  /\ Closing(session, status, Committing(next)) \in Operations
           /\ OperationOK(Closing(session, status, Committing(next)))
<1>1. Committing(next) \in Rests
  BY RestType
<1>2. Closing(session, status, Committing(next)) \in Operations
  BY <1>1 DEF Closing, Operations
<1> QED BY <1>2 DEF Closing, Committing, OperationOK, CommitOK

LEMMA FreezeOK ==
    ASSUME Inv, NEW p \in Procs, NEW s \in Sessions, NEW t \in Threads,
           Freeze(p, s, t)
    PROVE  Inv' /\ Continues(run')
<1> DEFINE session == [id |-> s, revision |-> run.revision, schema |-> 2,
                       status |-> "ACTIVE", receipts |-> <<>>]
           next == [run EXCEPT !.state = "BLIND_VALIDATION", !.attempts = <<>>,
                               !.session = session]
           op == [at |-> "reserve", session |-> s, thread |-> t,
                  revision |-> run.revision, then |-> Committing(next)]
<1>1. <<>> \in Seq(Requests) /\ <<>> \in Seq(Attempts)
  OBVIOUS
<1>2. session \in ValidationSessions
  BY <1>1 DEF ValidationSessions, Statuses, Inv, TypeOK, Snapshots
<1>3. run \in Snapshots /\ run.session = None /\ run.attempts = <<>>
  BY DEF Freeze, Inv, TypeOK, Shape
<1>4. /\ next.session = session /\ next.attempts = <<>>
      /\ next.state = "BLIND_VALIDATION" /\ next.revision = run.revision
  BY <1>3 DEF Snapshots
<1>5. next \in Snapshots
  BY <1>1, <1>2, <1>3 DEF Snapshots, States
<1>6. Shape(next) /\ Continues(next)
  <2>1. session # None
    BY <1>2, NoneAssumption
  <2> HIDE DEF next, session
  <2> QED BY <1>3, <1>4, <2>1 DEF Shape, Continues
<1>7. op \in Operations
  <2>1. Committing(next) \in Rests
    BY <1>5, RestType
  <2> HIDE DEF next
  <2> QED BY <1>3, <2>1 DEF Operations, Snapshots
<1>8. next.session.id = s /\ next.session.revision = run.revision
  BY <1>4
<1>9. OperationOK(op)
  <2> HIDE DEF next
  <2> QED BY <1>4, <1>6, <1>8 DEF OperationOK, CommitOK, Committing
<1>10. Await(p, op) /\ UNCHANGED <<run, requests, registry>>
  BY DEF Freeze
<1> HIDE DEF op
<1> QED BY <1>7, <1>9, <1>10, AwaitOK

LEMMA MigrateOK ==
    ASSUME Inv, NEW p \in Procs, NEW revision \in Revisions, Migrate(p, revision)
    PROVE  Inv' /\ Continues(run')
<1> DEFINE next == NextRevision(revision)
<1>1. next \in Snapshots /\ Shape(next) /\ HoldsItsSession(next) /\ Continues(next)
  BY NextRevisionOK DEF Migrate
<1>2. Active => run.session.id \in Sessions
  BY ActiveSession DEF ValidationSessions
<1>3. "CLOSED_MIGRATED" \in Closings
  BY DEF Closings
<1>4. CASE Active /\ run.session.schema = 2
  <2>1. /\ Await(p, Closing(run.session.id, "CLOSED_MIGRATED", Committing(next)))
        /\ UNCHANGED <<run, requests, registry>>
    BY <1>4 DEF Migrate
  <2> HIDE DEF next
  <2> QED BY <1>1, <1>2, <1>3, <1>4, <2>1, ClosingOK, AwaitOK
<1>5. CASE ~(Active /\ run.session.schema = 2)
  <2>1. Await(p, Committing(next)) /\ UNCHANGED <<run, requests, registry>>
    BY <1>5 DEF Migrate
  <2> HIDE DEF next
  <2> QED BY <1>1, <2>1, CommittingOK, AwaitOK
<1> QED BY <1>4, <1>5

LEMMA ReviseOK ==
    ASSUME Inv, NEW p \in Procs, NEW revision \in Revisions, Revise(p, revision)
    PROVE  Inv' /\ Continues(run')
BY NextRevisionOK, IdleType, CommitsOK DEF Revise

LEMMA ReplayOK ==
    ASSUME Inv, NEW p \in Procs, Replay(p) \/ Reconcile(p) \/ GiveUp(p)
    PROVE  Inv' /\ Continues(run')
<1>1. run \in Snapshots
  BY DEF Inv, TypeOK
<1>2. PICK op \in {Reconciling(run, Idle), Reconciling(run, Ready), Idle} :
          Await(p, op) /\ UNCHANGED <<run, requests, registry>>
  BY DEF Replay, Reconcile, GiveUp
<1>3. op \in Operations /\ NothingToCommit(op)
  BY <1>1, ReconcilingType, IdleType
<1> QED BY <1>2, <1>3, NothingToCommitOK, AwaitOK

LEMMA CommitStepOK ==
    ASSUME Inv, NEW p \in Procs, CommitStep(p)
    PROVE  Inv' /\ Continues(run')
<1>1. pc[p] \in Operations /\ OperationOK(pc[p]) /\ pc[p].at = "commit"
  BY DEF Inv, TypeOK, CommitStep
<1>2. pc[p].next \in Snapshots
  BY <1>1, OperationKinds DEF Commits, Idle, Ready
<1>3. Shape(pc[p].next) /\ HoldsItsSession(pc[p].next) /\ Continues(pc[p].next)
  BY <1>1 DEF OperationOK, CommitOK
<1> QED BY <1>2, <1>3, IdleType, CommitsOK DEF CommitStep

-----------------------------------------------------------------------------
(* Recording rounds.                                                         *)

\* A verdict names a state and is one of the verdicts.
LEMMA VerdictType ==
    ASSUME NEW atts, NEW state \in States
    PROVE  /\ Decide(atts) \in Verdicts
           /\ StateAfter(Decide(atts), state) \in States
           /\ state \notin {"DESIGNING", "AUTHORING"} =>
                  StateAfter(Decide(atts), state) \notin {"DESIGNING", "AUTHORING"}
<1>1. Decide(atts) \in {"HUMAN_REVIEW", "DEFER_NEXT_QUESTION",
          "RETRY_SAME_ATTEMPT", "TOO_EASY", "NEXT_BLIND", "VALIDATION_PASSED",
          "NEXT_HINT"}
  BY DEF Decide
<1>2. \A action \in {"HUMAN_REVIEW", "DEFER_NEXT_QUESTION",
          "RETRY_SAME_ATTEMPT", "TOO_EASY", "NEXT_BLIND", "VALIDATION_PASSED",
          "NEXT_HINT"} :
          /\ StateAfter(action, state) \in States
          /\ state \notin {"DESIGNING", "AUTHORING"} =>
                 StateAfter(action, state) \notin {"DESIGNING", "AUTHORING"}
  BY DEF StateAfter, States
<1> QED BY <1>1, <1>2 DEF Verdicts

\* A longer ledger begins with the old one.
LEMMA ExtendedLedger ==
    ASSUME Inv, NEW more \in Seq(Attempts)
    PROVE  LET longer == run.attempts \o more IN
           /\ longer \in Seq(Attempts)
           /\ Len(run.attempts) <= Len(longer)
           /\ \A i \in DOMAIN run.attempts : longer[i] = run.attempts[i]
BY EvidenceType

LEMMA AppendedLedger ==
    ASSUME Inv, NEW attempt \in Attempts
    PROVE  LET longer == Append(run.attempts, attempt) IN
           /\ longer \in Seq(Attempts)
           /\ Len(run.attempts) <= Len(longer)
           /\ \A i \in DOMAIN run.attempts : longer[i] = run.attempts[i]
BY EvidenceType

LEMMA RequestType ==
    ASSUME Inv, NEW i \in DOMAIN requests
    PROVE  requests[i] \in ResearcherRequests /\ i \in Requests
<1>1. requests \in Seq(ResearcherRequests) /\ Len(requests) <= MaxRequests
  BY DEF Inv, TypeOK, RequestsOK
<1> QED BY <1>1, WorkflowAssumption DEF Requests

\* What the first read of a round leaves for the second.
LEMMA ReadRoundOK ==
    ASSUME Inv, NEW p \in Procs, NEW i \in DOMAIN requests,
           NEW outcome \in Outcomes, ReadRound(p, i, outcome)
    PROVE  Inv' /\ Continues(run')
<1> DEFINE op == [at |-> "record", request |-> i, outcome |-> outcome,
                  session |-> run.session, rounds |-> run.rounds]
<1>1. run.session \in ValidationSessions /\ run.session # None
      /\ run.rounds \in Rounds
  BY ActiveSession DEF ReadRound, Active, Inv, TypeOK, Snapshots
<1>2. op \in Operations
  BY <1>1, RequestType, WorkflowAssumption DEF Operations
<1>3. OperationOK(op)
  BY <1>1 DEF OperationOK, CommitOK, HoldsItsSession, Inv, ReadRound
<1>4. Await(p, op) /\ UNCHANGED <<run, requests, registry>>
  BY DEF ReadRound
<1> HIDE DEF op
<1> QED BY <1>2, <1>3, <1>4, AwaitOK

\* The operation of a process that has read a round.
LEMMA ReadOperation ==
    ASSUME Inv, NEW p \in Procs, pc[p].at = "record"
    PROVE  /\ pc[p].request \in DOMAIN requests /\ pc[p].request \in Requests
           /\ requests[pc[p].request].protocol = "linear"
           /\ requests[pc[p].request].protocol \in Protocols
           /\ requests[pc[p].request].mode \in {"blind", "hint"}
           /\ requests[pc[p].request].prior \in Seq(Requests)
           /\ pc[p].outcome \in AllOutcomes
           /\ pc[p].session \in ValidationSessions /\ pc[p].rounds \in Rounds
           /\ ReservedFor(pc[p].session.id, pc[p].session.revision)
<1>1. pc[p] \in Operations /\ OperationOK(pc[p])
  BY DEF Inv, TypeOK
<1>2. pc[p] \in [at : {"record"}, request : Requests, outcome : AllOutcomes,
                 session : ValidationSessions, rounds : Rounds]
  BY <1>1, OperationKinds DEF Idle, Ready
<1>3. /\ pc[p].request \in DOMAIN requests
      /\ requests[pc[p].request].protocol = "linear"
      /\ HoldsItsSession(pc[p])
  BY <1>1 DEF OperationOK
<1>4. /\ requests[pc[p].request] \in ResearcherRequests
      /\ requests[pc[p].request].mode # "interactive"
  BY <1>3, RequestType DEF Inv, RequestsOK
<1> QED BY <1>2, <1>3, <1>4, NoneAssumption DEF ResearcherRequests, HoldsItsSession

\* The snapshot that the second read makes of a round.
RecordedSession(p, state) ==
    SessionAfter(pc[p].session, state, pc[p].outcome, pc[p].request)

Recorded(p) ==
    LET attempts == Append(run.attempts, AttemptOf(pc[p].request, pc[p].outcome))
        action == Decide(attempts)
        state == StateAfter(action, run.state)
    IN  [run EXCEPT !.attempts = attempts, !.decision = action, !.state = state,
                    !.session = RecordedSession(p, state),
                    !.rounds = [pc[p].rounds EXCEPT ![pc[p].request] = pc[p].outcome]]

LEMMA RecordedAttempt ==
    ASSUME Inv, NEW p \in Procs, pc[p].at = "record"
    PROVE  AttemptOf(pc[p].request, pc[p].outcome) \in Attempts
<1>1. Len(requests[pc[p].request].prior) + 1 \in Nat
  BY ReadOperation
<1> QED BY <1>1, ReadOperation, WorkflowAssumption DEF AttemptOf, Attempts

LEMMA RecordedFields ==
    ASSUME Inv, NEW p \in Procs, RecordStep(p)
    PROVE  LET attempts == Append(run.attempts, AttemptOf(pc[p].request, pc[p].outcome))
               state == StateAfter(Decide(attempts), run.state)
               session == RecordedSession(p, state)
           IN  /\ Recorded(p) \in Snapshots
               /\ Recorded(p).revision = run.revision
               /\ Recorded(p).attempts = attempts
               /\ Recorded(p).decision = Decide(attempts)
               /\ Recorded(p).state = state
               /\ Recorded(p).session = session
               /\ Recorded(p).deltas = run.deltas /\ Recorded(p).closure = run.closure
               /\ session \in ValidationSessions
               /\ session.id = pc[p].session.id
               /\ session.revision = pc[p].session.revision
               /\ session.receipts = IF pc[p].outcome \in {"LOW", "HIGH"}
                                     THEN Append(pc[p].session.receipts, pc[p].request)
                                     ELSE pc[p].session.receipts
               /\ state \in States /\ state \notin {"DESIGNING", "AUTHORING"}
<1> DEFINE attempts == Append(run.attempts, AttemptOf(pc[p].request, pc[p].outcome))
           action == Decide(attempts)
           state == StateAfter(action, run.state)
           session == RecordedSession(p, state)
           rounds == [pc[p].rounds EXCEPT ![pc[p].request] = pc[p].outcome]
<1>1. pc[p].at = "record"
  BY DEF RecordStep
<1>2. attempts \in Seq(Attempts)
  BY <1>1, RecordedAttempt, AppendedLedger
<1>3. run \in Snapshots /\ run.state \in States /\ run.state \notin {"DESIGNING", "AUTHORING"}
  BY EvidenceType DEF Inv, TypeOK, RecordStep, Recording, Validating
<1>4. /\ action \in Verdicts /\ state \in States
      /\ state \notin {"DESIGNING", "AUTHORING"}
  BY <1>3, VerdictType
<1> HIDE DEF attempts, action, state
<1>5. /\ pc[p].session \in ValidationSessions /\ pc[p].request \in Requests
      /\ pc[p].outcome \in AllOutcomes /\ pc[p].rounds \in Rounds
  BY <1>1, ReadOperation
<1>6. /\ pc[p].session.receipts \in Seq(Requests)
      /\ Append(pc[p].session.receipts, pc[p].request) \in Seq(Requests)
  BY <1>5 DEF ValidationSessions
<1>7. /\ session \in ValidationSessions
      /\ session.id = pc[p].session.id
      /\ session.revision = pc[p].session.revision
      /\ session.receipts = IF pc[p].outcome \in {"LOW", "HIGH"}
                            THEN Append(pc[p].session.receipts, pc[p].request)
                            ELSE pc[p].session.receipts
  BY <1>5, <1>6 DEF RecordedSession, SessionAfter, ValidationSessions, Statuses, Closings
<1>8. rounds \in Rounds
  BY <1>5 DEF Rounds
<1>9. Recorded(p) = [run EXCEPT !.attempts = attempts, !.decision = action,
                                !.state = state, !.session = session, !.rounds = rounds]
  BY DEF Recorded, attempts, action, state
<1> HIDE DEF session, rounds
<1>10. /\ Recorded(p) \in Snapshots
       /\ Recorded(p).revision = run.revision
       /\ Recorded(p).attempts = attempts
       /\ Recorded(p).decision = action
       /\ Recorded(p).state = state
       /\ Recorded(p).session = session
       /\ Recorded(p).deltas = run.deltas /\ Recorded(p).closure = run.closure
  BY <1>2, <1>3, <1>4, <1>7, <1>8, <1>9 DEF Snapshots
<1> QED BY <1>4, <1>7, <1>10 DEF attempts, action, state, session

LEMMA RecordedCommit ==
    ASSUME Inv, NEW p \in Procs, RecordStep(p)
    PROVE  /\ Commit(p, Recorded(p), Reconciling(Recorded(p), Idle))
           /\ UNCHANGED <<requests, registry>>
BY DEF RecordStep, Recorded, RecordedSession

LEMMA RecordStepOK ==
    ASSUME Inv, NEW p \in Procs, RecordStep(p)
    PROVE  Inv' /\ Continues(run')
<1> DEFINE attempts == Append(run.attempts, AttemptOf(pc[p].request, pc[p].outcome))
           next == Recorded(p)
<1>1. pc[p].at = "record" /\ run.session # None
  BY FieldsOfRun DEF RecordStep, Recording, Validating
<1>2. /\ Len(run.attempts) <= Len(attempts)
      /\ \A k \in DOMAIN run.attempts : attempts[k] = run.attempts[k]
  BY <1>1, RecordedAttempt, AppendedLedger
<1>3. /\ next \in Snapshots /\ next.revision = run.revision
      /\ next.attempts = attempts /\ next.session \in ValidationSessions
      /\ next.session.id = pc[p].session.id
      /\ next.session.revision = pc[p].session.revision
      /\ next.state \notin {"DESIGNING", "AUTHORING"}
  BY RecordedFields
<1>4. ReservedFor(next.session.id, next.session.revision)
  BY <1>1, <1>3, ReadOperation
<1> HIDE DEF attempts, next
<1>5. Shape(next) /\ HoldsItsSession(next) /\ Continues(next)
  BY <1>1, <1>2, <1>3, <1>4, LaterInSession
<1>6. Commit(p, next, Reconciling(next, Idle)) /\ UNCHANGED <<requests, registry>>
  BY RecordedCommit DEF next
<1> QED BY <1>3, <1>5, <1>6, ReconcilingType, CommitsOK

\* A trial's rounds are attempts of its request.
LEMMA TrialAttemptsType ==
    ASSUME Inv, NEW i \in DOMAIN requests, requests[i].protocol = "persistent"
    PROVE  TrialAttempts(i, requests[i].trial) \in Seq(Attempts)
<1> DEFINE trial == requests[i].trial
<1>1. /\ trial \in Seq({"LOW", "HIGH", "FAILED"})
      /\ requests[i].protocol \in Protocols /\ i \in Requests
  BY RequestType DEF ResearcherRequests
<1>2. ASSUME NEW k \in DOMAIN trial
      PROVE  [request |-> i, protocol |-> "persistent", index |-> k,
              mode |-> IF k <= 3 THEN "blind" ELSE "hint",
              outcome |-> trial[k]] \in Attempts
  BY <1>1, <1>2 DEF Attempts, AllOutcomes
<1>3. DOMAIN trial = 1 .. Len(trial) /\ Len(trial) \in Nat
  BY <1>1
<1> HIDE DEF trial
<1>4. TrialAttempts(i, trial) \in [1 .. Len(trial) -> Attempts]
  BY <1>2, <1>3 DEF TrialAttempts
<1> QED BY <1>3, <1>4 DEF trial

LEMMA TrialVerdictType ==
    ASSUME NEW trial
    PROVE  /\ TrialVerdict(trial)[1] \in States \ {"DESIGNING", "AUTHORING"}
           /\ TrialVerdict(trial)[2] \in Verdicts
           /\ TrialVerdict(trial)[3] \in Closings \cup {"ACTIVE"}
BY DEF TrialVerdict, States, Verdicts, TeacherActions, Closings

LEMMA ImportOK ==
    ASSUME Inv, NEW p \in Procs, NEW i \in DOMAIN requests, Import(p, i)
    PROVE  Inv' /\ Continues(run')
<1> DEFINE trial == requests[i].trial
           attempts == run.attempts \o TrialAttempts(i, trial)
           verdict == TrialVerdict(trial)
           session == [run.session EXCEPT !.schema = 3, !.status = verdict[3]]
           next == [run EXCEPT !.attempts = attempts,
                               !.state = verdict[1], !.decision = verdict[2],
                               !.session = session]
<1>1. /\ attempts \in Seq(Attempts) /\ Len(run.attempts) <= Len(attempts)
      /\ \A k \in DOMAIN run.attempts : attempts[k] = run.attempts[k]
  BY TrialAttemptsType, ExtendedLedger DEF Import
<1>2. /\ verdict[1] \in States \ {"DESIGNING", "AUTHORING"}
      /\ verdict[2] \in Verdicts /\ verdict[3] \in Closings \cup {"ACTIVE"}
  BY TrialVerdictType
<1>3. run \in Snapshots /\ run.session \in ValidationSessions /\ run.session # None
  BY ActiveSession DEF Import, Active, Inv, TypeOK
<1>4. /\ session \in ValidationSessions /\ session.id = run.session.id
      /\ session.revision = run.session.revision /\ run.session.id \in Sessions
  <2> HIDE DEF verdict
  <2> QED BY <1>2, <1>3 DEF ValidationSessions, Statuses
<1>5. /\ next \in Snapshots
      /\ next.revision = run.revision /\ next.attempts = attempts
      /\ next.state = verdict[1] /\ next.session = session
  <2> HIDE DEF attempts, verdict, session
  <2> QED BY <1>1, <1>2, <1>3, <1>4 DEF Snapshots
<1>6. /\ Await(p, IF verdict[3] = "ACTIVE" THEN Committing(next)
                  ELSE Closing(run.session.id, verdict[3], Committing(next)))
      /\ UNCHANGED <<run, requests, registry>>
  BY <1>3 DEF Import, Snapshots
<1> HIDE DEF attempts, verdict, session, next
<1>7. Shape(next) /\ HoldsItsSession(next) /\ Continues(next)
  <2>1. ReservedFor(next.session.id, next.session.revision)
    BY <1>3, <1>4, <1>5 DEF Inv, HoldsItsSession
  <2> QED BY <1>1, <1>2, <1>3, <1>4, <1>5, <2>1, LaterInSession
<1>8. CASE verdict[3] = "ACTIVE"
  BY <1>5, <1>6, <1>7, <1>8, CommittingOK, AwaitOK
<1>9. CASE verdict[3] # "ACTIVE"
  BY <1>2, <1>4, <1>5, <1>6, <1>7, <1>9, ClosingOK, AwaitOK
<1> QED BY <1>8, <1>9

-----------------------------------------------------------------------------
LEMMA ProcStepOK ==
    ASSUME Inv, NEW p \in Procs, ProcStep(p)
    PROVE  Inv' /\ Continues(run')
<1>1. CASE ReserveStep(p)
  BY <1>1, ReserveStepKeepsInv, UnchangedContinues DEF ReserveStep
<1>2. CASE CloseStep(p)
  BY <1>2, CloseStepKeepsInv, UnchangedContinues DEF CloseStep
<1>3. CASE \E revision \in Revisions : Revise(p, revision) \/ Migrate(p, revision)
  BY <1>3, ReviseOK, MigrateOK
<1>4. CASE \E i \in DOMAIN requests :
               (\E outcome \in Outcomes : ReadRound(p, i, outcome)) \/ Import(p, i)
  BY <1>4, ReadRoundOK, ImportOK
<1>5. CASE Replay(p) \/ Reconcile(p) \/ GiveUp(p) \/ Finalize(p) \/ CommitStep(p)
           \/ RecordStep(p)
  BY <1>5, ReplayOK, BindEnvironmentOK, CommitStepOK, RecordStepOK
<1>6. CASE \E s \in Sessions, t \in Threads : Freeze(p, s, t)
  BY <1>6, FreezeOK
<1> QED BY <1>1, <1>2, <1>3, <1>4, <1>5, <1>6 DEF ProcStep

LEMMA InitInv == Init => Inv
<1> SUFFICES ASSUME Init
             PROVE  Inv
  OBVIOUS
<1>1. PICK revision \in Revisions :
          run = [NextRevision(revision) EXCEPT !.state = "DESIGNING"]
  BY DEF Init
<1>2. <<>> \in Seq(Attempts) /\ <<>> \in Seq(ResearcherRequests)
  OBVIOUS
<1>3. run \in Snapshots
  BY <1>1, <1>2 DEF NextRevision, NoRounds, Rounds, Snapshots, States, Verdicts
<1>4. Shape(run) /\ HoldsItsSession(run)
  BY <1>1 DEF NextRevision, Shape, HoldsItsSession
<1>5. \A p \in Procs : pc[p] \in Operations /\ OperationOK(pc[p])
  BY IdleType, NothingToCommitOK DEF Init
<1>6. RegistryTypeOK
  BY DEF Init, RegistryInit, RegistryTypeOK
<1>7. RequestsOK
  BY WorkflowAssumption DEF Init, RequestsOK
<1>8. TypeOK
  BY <1>2, <1>3, <1>5, <1>6 DEF Init, TypeOK
<1> QED BY <1>4, <1>5, <1>7, <1>8 DEF Inv

LEMMA StepInv == Inv /\ [Next]_vars => Inv' /\ Continues(run')
<1> SUFFICES ASSUME Inv, [Next]_vars
             PROVE  Inv' /\ Continues(run')
  OBVIOUS
<1>1. CASE Issue
  BY <1>1, IssueKeepsInv, UnchangedContinues DEF Issue, IssueLinear, IssuePersistent
<1>2. CASE Sibling
  BY <1>2, SiblingKeepsInv, UnchangedContinues DEF Sibling
<1>3. ASSUME NEW p \in Procs, ProcStep(p) \/ RunStep(p)
      PROVE  Inv' /\ Continues(run')
  BY <1>3, ProcStepOK, RunStepOK
<1>4. CASE UNCHANGED vars
  <2>1. /\ requests' \in Seq(ResearcherRequests) /\ RequestsOK'
        /\ \A i \in DOMAIN requests : i \in DOMAIN requests' /\ requests'[i] = requests[i]
    BY <1>4 DEF vars, Inv, TypeOK, RequestsOK
  <2> QED BY <1>4, <2>1, RequestKeepsInv, UnchangedContinues DEF vars
<1> QED BY <1>1, <1>2, <1>3, <1>4 DEF Next

\* Every snapshot, request, record and pending operation is well formed, for any
\* number of processes, sessions and requests.
THEOREM WorkflowTypeCorrect == Spec => []TypeOK
<1>1. Inv => TypeOK
  BY DEF Inv
<1> QED BY <1>1, InitInv, StepInv, PTL DEF Spec

\* The run works in a session the registry holds for it and for the revision the
\* session was frozen with, across every crash between reservation and commit,
\* every race of two processes and every round recorded from an old read.
THEOREM SessionAlwaysReserved == Spec => []SessionIsReserved
<1>1. Inv => SessionIsReserved
  BY DEF Inv, HoldsItsSession, ReservedFor, SessionIsReserved
<1> QED BY <1>1, InitInv, StepInv, PTL DEF Spec

\* No commit drops or rewrites an attempt of its revision, although a round is
\* recorded from an older read than its ledger.
THEOREM LedgerKept == Spec => LedgerOnlyGrows
<1> DEFINE Grows ==
        run'.revision = run.revision =>
            /\ Len(run.attempts) <= Len(run'.attempts)
            /\ \A i \in DOMAIN run.attempts : run'.attempts[i] = run.attempts[i]
<1>1. Inv /\ [Next]_vars => [Grows]_run
  BY StepInv DEF Continues
<1> QED BY <1>1, InitInv, StepInv, PTL DEF Spec, LedgerOnlyGrows

\* What the workflow does to the registry, crashes included, is what the registry
\* allows: the theorems above hold of every run of the workflow.
LEMMA WorkflowUsesRegistry == Spec => RegistrySpec
<1>1. Init => RegistryInit
  BY DEF Init
<1>2. ASSUME Inv, [Next]_vars
      PROVE  [RegistryNext]_registry
  <2>1. CASE Issue
    BY <2>1 DEF Issue, IssueLinear, IssuePersistent
  <2>2. CASE Sibling
    BY <1>2, <2>2, SiblingKeepsInv
  <2>3. ASSUME NEW p \in Procs, ProcStep(p)
        PROVE  [RegistryNext]_registry
    <3>1. CASE ReserveStep(p) \/ CloseStep(p)
      BY <1>2, <3>1, ReserveStepKeepsInv, CloseStepKeepsInv
    <3>2. CASE ~(ReserveStep(p) \/ CloseStep(p))
      BY <2>3, <3>2 DEF ProcStep, Freeze, CommitStep, GiveUp, ReadRound, RecordStep,
         Import, Replay, Reconcile, Finalize, Revise, Migrate
    <3> QED BY <3>1, <3>2
  <2>4. ASSUME NEW p \in Procs, RunStep(p)
        PROVE  [RegistryNext]_registry
    BY <2>4 DEF RunStep, BeginAuthoring, TeacherDecides, AcceptDelta,
       AcceptClosure, BindEnvironment, CompleteWithoutEnvironment
  <2>5. CASE UNCHANGED vars
    BY <2>5 DEF vars
  <2> QED BY <1>2, <2>1, <2>2, <2>3, <2>4, <2>5 DEF Next
<1>3. Inv /\ [Next]_vars => [RegistryNext]_registry
  BY <1>2
<1> QED BY <1>1, <1>3, InitInv, StepInv, PTL DEF Spec, RegistrySpec

\* While this run freezes, migrates and crashes and its siblings reserve, no
\* Researcher thread works for two runs, or for two sessions that were not migrated.
THEOREM ThreadsStayWithTheirRun == Spec => []ThreadCarriesNothingOver
BY WorkflowUsesRegistry, NothingCarriedOver, PTL

-----------------------------------------------------------------------------
(* What the ledger of attempts stands for.                                   *)

\* A run before its session has nothing of an earlier revision.
Unopened(s) ==
    s.state \in {"DESIGNING", "AUTHORING"} =>
        s.attempts = <<>> /\ s.deltas = {} /\ s.closure = None /\ s.decision = "NONE"

\* Each attempt is of the request it names.
Named(s, asked) ==
    \A j \in DOMAIN s.attempts :
        /\ s.attempts[j].request \in DOMAIN asked
        /\ s.attempts[j].protocol = asked[s.attempts[j].request].protocol

\* OneSession, of any requests.
OfOneSession(atts, asked) ==
    \A k, l \in Scientific(atts) :
        /\ asked[atts[k].request].session = asked[atts[l].request].session
        /\ asked[atts[k].request].revision = asked[atts[l].request].revision

\* While rounds may still be recorded no round has met the threshold, a trial that is
\* in the ledger failed before its first round, every execution is another, and the
\* accepted rounds are of one session, numbered in their order and without a gap.
Open(s, asked) ==
    s.state \in Recording =>
        /\ IdentityFresh(s.attempts) /\ Ordered(s.attempts)
        /\ OfOneSession(s.attempts, asked)
        /\ \A j \in DOMAIN s.attempts :
               /\ s.attempts[j].outcome # "HIGH"
               /\ s.attempts[j].protocol = "persistent" =>
                      /\ s.attempts[j].outcome = "FAILED"
                      /\ asked[s.attempts[j].request].trial[1] = "FAILED"
        /\ \A k \in 1 .. Cardinality(Scientific(s.attempts)) :
               \E i \in Scientific(s.attempts) : s.attempts[i].index = k

Earned(s) ==
    /\ s.decision = "VALIDATION_PASSED" => PassEvidence(s.attempts)
    /\ s.decision = "TOO_EASY" =>
           LastOutcome(s.attempts) = "HIGH" /\ Len(s.attempts) \in Blinds(s.attempts)
    /\ \A i \in DOMAIN s.attempts : s.attempts[i].outcome = "HIGH" => i = Len(s.attempts)

\* Nothing is finalized, and no question set aside as too easy, but by a verdict
\* that says so or by the Teacher.
Judged(s) ==
    /\ s.state \in {"VALIDATION_PASSED", "RUNTIME_FINALIZATION", "PUBLICATION_PENDING",
                    "COMPLETED"} => s.decision \in {"VALIDATION_PASSED", "STOP_PASSED"}
    /\ s.state = "TOO_EASY" => s.decision \in {"TOO_EASY", "STOP_TOO_EASY"}

\* The receipts of a session are of requests that were made in it.
InHistory(session, asked) ==
    session # None =>
        \A k \in DOMAIN session.receipts :
            /\ session.receipts[k] \in DOMAIN asked
            /\ asked[session.receipts[k]].session = session.id

\* So are the rounds a request shows its Researcher.
PriorInSession(asked) ==
    \A i \in DOMAIN asked : \A k \in DOMAIN asked[i].prior :
        /\ asked[i].prior[k] \in DOMAIN asked
        /\ asked[asked[i].prior[k]].session = asked[i].session

CountedOnce(s) ==
    \A i, j \in DOMAIN s.attempts :
        /\ i # j
        /\ s.attempts[i].request = s.attempts[j].request
        /\ s.attempts[i].index = s.attempts[j].index
        => "INCOMPLETE" \in {s.attempts[i].outcome, s.attempts[j].outcome}

Current(s) ==
    /\ s.deltas \subseteq DOMAIN s.attempts
    /\ s.closure # None =>
        /\ s.state \in {"RUNTIME_FINALIZATION", "PUBLICATION_PENDING", "COMPLETED"}
        /\ s.closure.scientific \in Scientific(s.attempts)
        /\ s.closure.deltas \subseteq s.deltas
        /\ \A d \in s.closure.deltas :
               s.attempts[d].index = s.attempts[s.closure.scientific].index

Evidence(s, asked) ==
    /\ Unopened(s) /\ Named(s, asked) /\ Open(s, asked) /\ Earned(s)
    /\ InHistory(s.session, asked) /\ CountedOnce(s) /\ Current(s) /\ Judged(s)

\* What a pending operation is going to commit is evidence already, and a round on
\* its way into the ledger is of the session it was read in.
PendingEvidence(op, asked) ==
    /\ op.at = "commit" => Evidence(op.next, asked)
    /\ op.at \in {"reserve", "close"} /\ op.then.at = "commit" => Evidence(op.then.next, asked)
    /\ op.at = "record" =>
           /\ InHistory(op.session, asked)
           /\ op.request \in DOMAIN asked
           /\ asked[op.request].session = op.session.id

EvidenceInv ==
    /\ Evidence(run, requests)
    /\ PriorInSession(requests)
    /\ \A p \in Procs : PendingEvidence(pc[p], requests)

LEMMA CommitEvidence ==
    ASSUME Inv, EvidenceInv, NEW p \in Procs, NEW next \in Snapshots, Evidence(next, requests),
           NEW op \in Operations, NothingToCommit(op), Commit(p, next, op),
           UNCHANGED requests
    PROVE  EvidenceInv'
<1>1. run' = next
  BY DEF Commit
<1>2. ASSUME NEW q \in Procs
      PROVE  NothingToCommit(pc'[q]) \/ pc'[q] = pc[q]
  BY BehindType DEF Commit, Inv, TypeOK
<1>3. ASSUME NEW q \in Procs
      PROVE  PendingEvidence(pc'[q], requests')
  <2>1. CASE NothingToCommit(pc'[q])
    BY <2>1 DEF NothingToCommit, PendingEvidence
  <2>2. CASE pc'[q] = pc[q]
    BY <2>2 DEF EvidenceInv
  <2> QED BY <1>2, <2>1, <2>2
<1> QED BY <1>1, <1>3 DEF EvidenceInv

LEMMA AwaitEvidence ==
    ASSUME Inv, EvidenceInv, NEW p \in Procs, NEW op, PendingEvidence(op, requests),
           Await(p, op), UNCHANGED <<run, requests>>
    PROVE  EvidenceInv'
<1>1. \A q \in Procs : pc'[q] = IF q = p THEN op ELSE pc[q]
  BY DEF Await, Inv, TypeOK
<1> QED BY <1>1 DEF EvidenceInv

\* A request once issued stays as it is, and so does what names it.
LEMMA EvidenceStands ==
    ASSUME NEW asked, NEW more, \A i \in DOMAIN asked : i \in DOMAIN more /\ more[i] = asked[i]
    PROVE  /\ \A s : Evidence(s, asked) => Evidence(s, more)
           /\ \A op : PendingEvidence(op, asked) => PendingEvidence(op, more)
<1>1. ASSUME NEW s, Evidence(s, asked)
      PROVE  Evidence(s, more)
  <2>1. Named(s, more)
    BY <1>1 DEF Evidence, Named
  <2>2. Open(s, more)
    <3>1. OfOneSession(s.attempts, asked) => OfOneSession(s.attempts, more)
      BY <1>1 DEF Evidence, Named, OfOneSession, Scientific
    <3> QED BY <1>1, <3>1 DEF Evidence, Open, Named
  <2>3. InHistory(s.session, more)
    BY <1>1 DEF Evidence, InHistory
  <2> QED BY <1>1, <2>1, <2>2, <2>3 DEF Evidence
<1>2. ASSUME NEW op, PendingEvidence(op, asked)
      PROVE  PendingEvidence(op, more)
  <2>1. op.at = "record" => InHistory(op.session, more)
    BY <1>2 DEF PendingEvidence, InHistory
  <2> QED BY <1>1, <1>2, <2>1 DEF PendingEvidence
<1> QED BY <1>1, <1>2

LEMMA IssueEvidence ==
    ASSUME Inv, EvidenceInv, Issue
    PROVE  EvidenceInv'
<1>1. requests \in Seq(ResearcherRequests)
  BY DEF Inv, TypeOK
<1>2. PICK r : requests' = Append(requests, r)
  BY DEF Issue, IssueLinear, IssuePersistent
<1>3. \A i \in DOMAIN requests : i \in DOMAIN requests' /\ requests'[i] = requests[i]
  BY <1>1, <1>2
<1>4. UNCHANGED <<run, pc>>
  BY DEF Issue, IssueLinear, IssuePersistent
<1>5. /\ \A i \in DOMAIN requests' : i \in DOMAIN requests \/ requests'[i] = r
      /\ r \in {requests'[i] : i \in DOMAIN requests'}
  <2>1. /\ Len(requests') = Len(requests) + 1 /\ Len(requests) \in Nat
        /\ DOMAIN requests' = 1 .. Len(requests) + 1 /\ DOMAIN requests = 1 .. Len(requests)
        /\ requests'[Len(requests) + 1] = r
    BY <1>1, <1>2
  <2> QED BY <2>1
<1>6. \A k \in DOMAIN r.prior : /\ r.prior[k] \in DOMAIN requests
                                /\ requests[r.prior[k]].session = r.session
  <2>1. CASE IssueLinear
    <3>1. /\ requests' = Append(requests, requests'[Len(requests) + 1])
          /\ requests'[Len(requests) + 1].prior = run.session.receipts
          /\ requests'[Len(requests) + 1].session = run.session.id
      BY <1>1, <2>1 DEF IssueLinear
    <3>2. r.prior = run.session.receipts /\ r.session = run.session.id
      BY <1>1, <1>2, <3>1
    <3> QED BY <2>1, <3>2 DEF IssueLinear, Active, EvidenceInv, Evidence, InHistory
  <2>2. ASSUME NEW dead, NEW trial, IssuePersistent(dead, trial)
        PROVE  r.prior = <<>>
    <3>1. requests'[Len(requests) + 1].prior = <<>>
      BY <1>1, <2>2 DEF IssuePersistent
    <3> QED BY <1>1, <1>2, <3>1
  <2> QED BY <2>1, <2>2 DEF Issue
<1>7. PriorInSession(requests')
  BY <1>3, <1>5, <1>6 DEF EvidenceInv, PriorInSession
<1> QED BY <1>3, <1>4, <1>7, EvidenceStands DEF EvidenceInv

-----------------------------------------------------------------------------
(* Steps that leave the ledger.                                              *)

\* A new verdict or state on the same ledger.
LEMMA SameLedger ==
    ASSUME Evidence(run, requests), NEW next, next.attempts = run.attempts,
           next.deltas = run.deltas, next.closure = run.closure,
           run.session # None,
           next.session.receipts = run.session.receipts,
           next.session.id = run.session.id,
           next.decision \in {run.decision} \cup TeacherActions,
           next.state \notin {"DESIGNING", "AUTHORING"},
           next.state \in Recording => run.state \in Recording,
           run.closure # None =>
               next.state \in {"RUNTIME_FINALIZATION", "PUBLICATION_PENDING", "COMPLETED"},
           Judged(next)
    PROVE  Evidence(next, requests)
<1>1. Unopened(next) /\ Named(next, requests) /\ CountedOnce(next) /\ Open(next, requests)
  BY DEF Evidence, Unopened, Named, CountedOnce, Open
<1>2. Earned(next)
  BY DEF Evidence, Earned, TeacherActions
<1>3. InHistory(next.session, requests)
  BY DEF Evidence, InHistory
<1>4. Current(next)
  BY DEF Evidence, Current
<1> QED BY <1>1, <1>2, <1>3, <1>4 DEF Evidence

LEMMA EmptyLedger == Scientific(<<>>) = {} /\ Cardinality({}) = 0
BY FS_EmptySet DEF Scientific

LEMMA NextRevisionEvidence ==
    ASSUME NEW revision
    PROVE  Evidence(NextRevision(revision), requests)
BY EmptyLedger DEF NextRevision, Evidence, Unopened, Named, Open, Earned, InHistory,
    CountedOnce, Current, Judged, Recording, Validating

LEMMA IdleEvidence ==
    /\ PendingEvidence(Idle, requests) /\ PendingEvidence(Ready, requests)
    /\ \A s, then : then \in {Idle, Ready} => PendingEvidence(Reconciling(s, then), requests)
BY DEF PendingEvidence, Idle, Ready, Reconciling, Closing

LEMMA BeginAuthoringEvidence ==
    ASSUME Inv, EvidenceInv, NEW p \in Procs, BeginAuthoring(p)
    PROVE  EvidenceInv'
<1> DEFINE next == [run EXCEPT !.state = "AUTHORING"]
<1>1. run \in Snapshots /\ run.state = "DESIGNING" /\ run.session = None
  BY FieldsOfRun DEF BeginAuthoring, Inv, Shape
<1>2. /\ next \in Snapshots
      /\ next.attempts = run.attempts /\ next.session = run.session
      /\ next.deltas = run.deltas /\ next.closure = run.closure
      /\ next.decision = run.decision /\ next.state = "AUTHORING"
  BY <1>1 DEF Snapshots, States
<1>3. Commit(p, next, Idle) /\ UNCHANGED requests
  BY DEF BeginAuthoring
<1> HIDE DEF next
<1>4. run.attempts = <<>> /\ run.deltas = {} /\ run.closure = None /\ run.decision = "NONE"
  BY <1>1 DEF EvidenceInv, Evidence, Unopened
<1>5. Evidence(next, requests)
  BY <1>1, <1>2, <1>4, EmptyLedger
  DEF Evidence, Unopened, Named, Open, Earned, InHistory, CountedOnce, Current, Judged,
      Recording, Validating
<1> QED BY <1>2, <1>3, <1>5, IdleType, CommitEvidence

LEMMA TeacherDecidesEvidence ==
    ASSUME Inv, EvidenceInv, NEW p \in Procs, NEW action \in TeacherActions,
           TeacherDecides(p, action)
    PROVE  EvidenceInv'
<1> DEFINE state == CASE action = "CONTINUE_HINT" -> "HINT_VALIDATION"
                      [] action = "CONTINUE_BLIND" -> "BLIND_VALIDATION"
                      [] action = "STOP_TOO_EASY" -> "TOO_EASY"
                      [] action = "STOP_PASSED" -> "VALIDATION_PASSED"
                      [] action = "STOP_BLOCKED" -> "BLOCKED"
           session == [run.session EXCEPT
                          !.status = IF state \in Validating THEN @ ELSE "CLOSED"]
           next == [run EXCEPT !.state = state, !.decision = action, !.session = session]
<1>1. run \in Snapshots /\ run.state \in Validating /\ run.session \in ValidationSessions
      /\ run.session # None
  BY FieldsOfRun DEF TeacherDecides, Validating
<1>2. state \in States \ {"DESIGNING", "AUTHORING"}
  BY DEF TeacherActions, States
<1>3. /\ session \in ValidationSessions /\ session.receipts = run.session.receipts
      /\ session.id = run.session.id
  <2> HIDE DEF state
  <2> QED BY <1>1 DEF ValidationSessions
<1>4. /\ next \in Snapshots
      /\ next.attempts = run.attempts /\ next.session = session
      /\ next.deltas = run.deltas /\ next.closure = run.closure
      /\ next.decision = action /\ next.state = state
  <2> HIDE DEF state, session
  <2> QED BY <1>1, <1>2, <1>3 DEF Snapshots, Verdicts
<1>5. Commit(p, next, Idle) /\ UNCHANGED requests
  BY <1>1 DEF TeacherDecides, Snapshots, ValidationSessions
<1>6. run.closure = None /\ run.state \in Recording
  BY <1>1 DEF EvidenceInv, Evidence, Current, Validating, Recording
<1>7. Judged(next)
  <2>1. /\ state \in {"VALIDATION_PASSED", "RUNTIME_FINALIZATION", "PUBLICATION_PENDING",
                     "COMPLETED"} => action = "STOP_PASSED"
        /\ state = "TOO_EASY" => action = "STOP_TOO_EASY"
    BY DEF TeacherActions
  <2> HIDE DEF next, session, state
  <2> QED BY <1>4, <2>1 DEF Judged
<1> HIDE DEF next, session, state
<1>8. Evidence(next, requests)
  BY <1>1, <1>2, <1>3, <1>4, <1>6, <1>7, SameLedger DEF EvidenceInv
<1> QED BY <1>4, <1>5, <1>8, IdleType, CommitEvidence

LEMMA FinalizationEvidence ==
    ASSUME Inv, EvidenceInv, NEW p \in Procs,
           Finalize(p) \/ BindEnvironment(p) \/ CompleteWithoutEnvironment(p)
    PROVE  EvidenceInv'
<1>1. PICK state \in {"RUNTIME_FINALIZATION", "PUBLICATION_PENDING", "COMPLETED"} :
          Commit(p, [run EXCEPT !.state = state], Idle) /\ UNCHANGED requests
  BY DEF Finalize, BindEnvironment, CompleteWithoutEnvironment
<1> DEFINE next == [run EXCEPT !.state = state]
<1>2. run \in Snapshots /\ run.session # None
  BY FieldsOfRun DEF Finalize, BindEnvironment, CompleteWithoutEnvironment
<1>3. /\ next \in Snapshots
      /\ next.attempts = run.attempts /\ next.session = run.session
      /\ next.deltas = run.deltas /\ next.closure = run.closure
      /\ next.decision = run.decision /\ next.state = state
  BY <1>2 DEF Snapshots, States
<1> HIDE DEF next
<1>4. Judged(next)
  <2>1. run.decision \in {"VALIDATION_PASSED", "STOP_PASSED"}
    BY DEF Finalize, BindEnvironment, CompleteWithoutEnvironment, EvidenceInv, Evidence,
           Judged
  <2> QED BY <1>3, <2>1 DEF Judged
<1>5. Evidence(next, requests)
  BY <1>2, <1>3, <1>4, SameLedger DEF EvidenceInv, Recording, Validating
<1> QED BY <1>1, <1>3, <1>5, IdleType, CommitEvidence DEF next

\* A delta of an attempt in the ledger; the closure, if there was one, is reopened.
LEMMA AcceptDeltaEvidence ==
    ASSUME Inv, EvidenceInv, NEW p \in Procs, NEW k \in DOMAIN run.attempts,
           AcceptDelta(p, k)
    PROVE  EvidenceInv'
<1> DEFINE next == [run EXCEPT !.deltas = @ \cup {k}, !.closure = None]
<1>1. run \in Snapshots /\ run.session # None
      /\ run.state \notin {"DESIGNING", "AUTHORING"} /\ k \in Nat
  BY FieldsOfRun, EvidenceType DEF AcceptDelta, Recording, Validating
<1>2. /\ next \in Snapshots
      /\ next.attempts = run.attempts /\ next.session = run.session
      /\ next.deltas = run.deltas \cup {k} /\ next.closure = None
      /\ next.decision = run.decision /\ next.state = run.state
  BY <1>1 DEF Snapshots
<1>3. Commit(p, next, Idle) /\ UNCHANGED requests
  BY DEF AcceptDelta
<1> HIDE DEF next
<1>4. Evidence(next, requests)
  <2>1. Unopened(next) /\ Named(next, requests) /\ CountedOnce(next)
        /\ Open(next, requests)
    BY <1>1, <1>2 DEF EvidenceInv, Evidence, Unopened, Named, CountedOnce, Open
  <2>2. Earned(next) /\ InHistory(next.session, requests) /\ Judged(next)
    BY <1>1, <1>2 DEF EvidenceInv, Evidence, Earned, Judged
  <2>3. Current(next)
    BY <1>2 DEF EvidenceInv, Evidence, Current
  <2> QED BY <2>1, <2>2, <2>3 DEF Evidence
<1> QED BY <1>2, <1>3, <1>4, IdleType, CommitEvidence

LEMMA AcceptClosureEvidence ==
    ASSUME Inv, EvidenceInv, NEW p \in Procs, NEW k \in DOMAIN run.attempts,
           NEW deltas \in SUBSET run.deltas, AcceptClosure(p, k, deltas)
    PROVE  EvidenceInv'
<1> DEFINE closure == [scientific |-> k, deltas |-> deltas]
           next == [run EXCEPT !.closure = closure]
<1>1. run \in Snapshots /\ run.session # None
      /\ run.state = "RUNTIME_FINALIZATION" /\ k \in Nat
  BY FieldsOfRun, EvidenceType DEF AcceptClosure
<1>2. closure \in Closures /\ closure.scientific = k /\ closure.deltas = deltas
  BY <1>1 DEF Closures, Snapshots
<1>3. /\ next \in Snapshots
      /\ next.attempts = run.attempts /\ next.session = run.session
      /\ next.deltas = run.deltas /\ next.closure = closure
      /\ next.decision = run.decision /\ next.state = run.state
  BY <1>1, <1>2 DEF Snapshots
<1>4. Commit(p, next, Idle) /\ UNCHANGED requests
  BY DEF AcceptClosure
<1> HIDE DEF next, closure
<1>5. Evidence(next, requests)
  <2>1. Unopened(next) /\ Named(next, requests) /\ CountedOnce(next)
        /\ Open(next, requests)
    BY <1>1, <1>3 DEF EvidenceInv, Evidence, Unopened, Named, CountedOnce, Open
  <2>2. Earned(next) /\ InHistory(next.session, requests) /\ Judged(next)
    BY <1>1, <1>3 DEF EvidenceInv, Evidence, Earned, Judged
  <2>3. Current(next)
    BY <1>1, <1>2, <1>3 DEF EvidenceInv, Evidence, Current, AcceptClosure
  <2> QED BY <2>1, <2>2, <2>3 DEF Evidence
<1> QED BY <1>3, <1>4, <1>5, IdleType, CommitEvidence

LEMMA RunStepEvidence ==
    ASSUME Inv, EvidenceInv, NEW p \in Procs, RunStep(p)
    PROVE  EvidenceInv'
BY BeginAuthoringEvidence, TeacherDecidesEvidence, FinalizationEvidence,
   AcceptDeltaEvidence, AcceptClosureEvidence DEF RunStep

\* A new session starts with an empty ledger.
LEMMA FreezeEvidence ==
    ASSUME Inv, EvidenceInv, NEW p \in Procs, NEW s \in Sessions, NEW t \in Threads,
           Freeze(p, s, t)
    PROVE  EvidenceInv'
<1> DEFINE session == [id |-> s, revision |-> run.revision, schema |-> 2,
                       status |-> "ACTIVE", receipts |-> <<>>]
           next == [run EXCEPT !.state = "BLIND_VALIDATION", !.attempts = <<>>,
                               !.session = session]
           op == [at |-> "reserve", session |-> s, thread |-> t,
                  revision |-> run.revision, then |-> Committing(next)]
<1>1. run \in Snapshots /\ run.state = "AUTHORING"
  BY FieldsOfRun DEF Freeze
<1>2. run.deltas = {} /\ run.closure = None /\ run.decision = "NONE"
  BY <1>1 DEF EvidenceInv, Evidence, Unopened
<1>3. /\ next.attempts = <<>> /\ next.session = session
      /\ next.deltas = {} /\ next.closure = None
      /\ next.decision = "NONE" /\ next.state = "BLIND_VALIDATION"
  BY <1>1, <1>2 DEF Snapshots
<1>4. session.receipts = <<>>
  OBVIOUS
<1>5. Await(p, op) /\ UNCHANGED <<run, requests>>
  BY DEF Freeze
<1>6. op.at = "reserve" /\ op.then.at = "commit" /\ op.then.next = next
  BY DEF Committing
<1> HIDE DEF next, op, session
<1>7. Evidence(next, requests)
  <2>1. Unopened(next) /\ Named(next, requests) /\ CountedOnce(next)
    BY <1>3 DEF Unopened, Named, CountedOnce
  <2>2. Open(next, requests)
    <3>1. Cardinality(Scientific(next.attempts)) = 0
      BY <1>3, EmptyLedger
    <3>2. DOMAIN next.attempts = {} /\ 1 .. 0 = {}
      BY <1>3
    <3>3. IdentityFresh(next.attempts) /\ Ordered(next.attempts)
      BY <3>2 DEF IdentityFresh, Ordered, Scientific
    <3>4. OfOneSession(next.attempts, requests)
      BY <3>2 DEF OfOneSession, Scientific
    <3> QED BY <3>1, <3>2, <3>3, <3>4 DEF Open
  <2>3. InHistory(next.session, requests)
    <3>1. DOMAIN next.session.receipts = {}
      BY <1>3, <1>4
    <3> QED BY <3>1 DEF InHistory
  <2>4. Earned(next) /\ Current(next) /\ Judged(next)
    BY <1>3 DEF Earned, Current, Judged
  <2> QED BY <2>1, <2>2, <2>3, <2>4 DEF Evidence
<1>8. PendingEvidence(op, requests)
  BY <1>6, <1>7 DEF PendingEvidence
<1> QED BY <1>5, <1>8, AwaitEvidence

LEMMA RevisionEvidence ==
    ASSUME Inv, EvidenceInv, NEW p \in Procs, NEW revision \in Revisions,
           Revise(p, revision) \/ Migrate(p, revision)
    PROVE  EvidenceInv'
<1>1. CASE Revise(p, revision)
  <2>1. NextRevision(revision) \in Snapshots
    BY <1>1, NextRevisionOK DEF Revise
  <2> QED BY <1>1, <2>1, NextRevisionEvidence, IdleType, CommitEvidence DEF Revise
<1>2. CASE Migrate(p, revision)
  <2>1. PICK op : /\ Await(p, op)
                  /\ \/ op = Committing(NextRevision(revision))
                     \/ op = Closing(run.session.id, "CLOSED_MIGRATED",
                                     Committing(NextRevision(revision)))
    BY <1>2 DEF Migrate
  <2>2. PendingEvidence(op, requests)
    BY <2>1, NextRevisionEvidence DEF PendingEvidence, Committing, Closing
  <2> QED BY <1>2, <2>1, <2>2, AwaitEvidence DEF Migrate
<1> QED BY <1>1, <1>2

\* What is left of an operation was its evidence before.
LEMMA PassedOnEvidence ==
    ASSUME Inv, EvidenceInv, NEW p \in Procs,
           ReserveStep(p) \/ CloseStep(p) \/ CommitStep(p) \/ GiveUp(p)
           \/ Replay(p) \/ Reconcile(p) \/ Finalize(p)
    PROVE  EvidenceInv'
<1>1. CASE ReserveStep(p) \/ CloseStep(p)
  <2>1. pc[p] \in Operations /\ PendingEvidence(pc[p], requests)
    BY DEF Inv, TypeOK, EvidenceInv
  <2>2. pc[p].at \in {"reserve", "close"} /\ pc[p].then \in Rests
    BY <1>1, <2>1, OperationKinds DEF ReserveStep, CloseStep, Idle, Ready
  <2>3. PendingEvidence(pc[p].then, requests)
    BY <2>1, <2>2, RestKinds DEF PendingEvidence, Idle, Ready
  <2> QED BY <1>1, <2>3, AwaitEvidence DEF ReserveStep, CloseStep
<1>2. CASE CommitStep(p)
  <2>1. pc[p].next \in Snapshots
    BY <1>2, OperationKinds DEF CommitStep, Inv, TypeOK, Commits, Idle, Ready
  <2>2. Evidence(pc[p].next, requests)
    BY <1>2 DEF CommitStep, EvidenceInv, PendingEvidence
  <2> QED BY <1>2, <2>1, <2>2, IdleType, CommitEvidence DEF CommitStep
<1>3. CASE GiveUp(p) \/ Replay(p) \/ Reconcile(p)
  BY <1>3, IdleEvidence, AwaitEvidence DEF GiveUp, Replay, Reconcile
<1> QED BY <1>1, <1>2, <1>3, FinalizationEvidence

-----------------------------------------------------------------------------
(* A round.                                                                  *)

LEMMA RoundsFinite ==
    ASSUME NEW atts \in Seq(Attempts)
    PROVE  /\ Scientific(atts) \subseteq 1 .. Len(atts) /\ IsFiniteSet(Scientific(atts))
           /\ Cardinality(Scientific(atts)) \in Nat
           /\ \A S \in SUBSET Scientific(atts) :
                  IsFiniteSet(S) /\ Cardinality(S) \in Nat
                  /\ Cardinality(S) <= Cardinality(Scientific(atts))
<1>1. Scientific(atts) \subseteq 1 .. Len(atts) /\ Len(atts) \in Nat
  BY DEF Scientific
<1>2. IsFiniteSet(Scientific(atts))
  <2>1. IsFiniteSet(1 .. Len(atts))
    BY <1>1, FS_Interval
  <2> QED BY <1>1, <2>1, FS_Subset
<1> QED BY <1>1, <1>2, FS_CardinalityType, FS_Subset

\* Three rounds with three numbers are three.
LEMMA ThreeAreThree ==
    ASSUME NEW S, IsFiniteSet(S), NEW a \in S, NEW b \in S, NEW c \in S,
           a # b, a # c, b # c
    PROVE  Cardinality(S) >= 3
<1>1. IsFiniteSet({}) /\ Cardinality({}) = 0
  BY FS_EmptySet
<1>2. PICK one : one = {a}
  OBVIOUS
<1>3. IsFiniteSet(one) /\ Cardinality(one) = 1 /\ b \notin one
  BY <1>2, FS_Singleton
<1>4. PICK two : two = one \cup {b}
  OBVIOUS
<1>5. IsFiniteSet(two) /\ Cardinality(two) = 2
  BY <1>3, <1>4, FS_AddElement
<1>6. c \notin two
  BY <1>2, <1>4
<1>7. Cardinality(two \cup {c}) = Cardinality(two) + 1
  BY <1>5, <1>6, FS_AddElement
<1>8. two \cup {c} \subseteq S
  BY <1>2, <1>4
<1>9. Cardinality(two \cup {c}) <= Cardinality(S) /\ Cardinality(S) \in Nat
  BY <1>8, FS_Subset, FS_CardinalityType
<1> QED BY <1>5, <1>7, <1>9

\* Rounds that are numbered and in their order: the first three are blinds, the
\* later ones hints.
LEMMA OrderedRounds ==
    ASSUME NEW atts \in Seq(Attempts), Ordered(atts)
    PROVE  /\ \A i \in Scientific(atts) :
                  /\ atts[i].index \in 1 .. Cardinality(Scientific(atts))
                  /\ atts[i].mode = IF atts[i].index <= 3 THEN "blind" ELSE "hint"
           /\ Len(atts) \in Scientific(atts) =>
                  atts[Len(atts)].index = Cardinality(Scientific(atts))
<1>1. ASSUME NEW i \in Scientific(atts)
      PROVE  /\ atts[i].index \in 1 .. Cardinality(Scientific(atts))
             /\ atts[i].mode = IF atts[i].index <= 3 THEN "blind" ELSE "hint"
             /\ i = Len(atts) => atts[i].index = Cardinality(Scientific(atts))
  <2> DEFINE before == {j \in Scientific(atts) : j <= i}
  <2>1. atts[i].index = Cardinality(before)
        /\ atts[i].mode = IF Cardinality(before) <= 3 THEN "blind" ELSE "hint"
    BY DEF Ordered
  <2>2. Cardinality(before) \in Nat /\ IsFiniteSet(before)
        /\ Cardinality(before) <= Cardinality(Scientific(atts))
    BY RoundsFinite
  <2>3. i \in before
    BY RoundsFinite
  <2>4. Cardinality(before) # 0
    BY <2>2, <2>3, FS_EmptySet
  <2>5. i = Len(atts) => before = Scientific(atts)
    BY RoundsFinite
  <2> HIDE DEF before
  <2> QED BY <2>1, <2>2, <2>4, <2>5, RoundsFinite
<1> QED BY <1>1

\* The rounds of a ledger with one more attempt.
LEMMA OneMoreRound ==
    ASSUME NEW atts \in Seq(Attempts), NEW attempt \in Attempts
    PROVE  LET more == Append(atts, attempt) IN
           /\ more \in Seq(Attempts) /\ Len(more) = Len(atts) + 1
           /\ DOMAIN more = DOMAIN atts \cup {Len(more)} /\ Len(more) \notin DOMAIN atts
           /\ \A i \in DOMAIN atts : more[i] = atts[i]
           /\ more[Len(more)] = attempt
           /\ Scientific(more) =
                  Scientific(atts) \cup
                      (IF attempt.outcome \in {"LOW", "HIGH"} THEN {Len(more)} ELSE {})
           /\ Len(more) \notin Scientific(atts)
           /\ Cardinality(Scientific(more)) =
                  Cardinality(Scientific(atts)) +
                      (IF attempt.outcome \in {"LOW", "HIGH"} THEN 1 ELSE 0)
<1> DEFINE more == Append(atts, attempt)
<1>1. /\ more \in Seq(Attempts) /\ Len(more) = Len(atts) + 1
      /\ DOMAIN more = 1 .. Len(atts) + 1 /\ DOMAIN atts = 1 .. Len(atts)
      /\ \A i \in DOMAIN atts : more[i] = atts[i]
      /\ more[Len(atts) + 1] = attempt
      /\ Len(atts) \in Nat
  OBVIOUS
<1> HIDE DEF more
<1>2. DOMAIN more = DOMAIN atts \cup {Len(more)} /\ Len(more) \notin DOMAIN atts
  BY <1>1
<1>3. Scientific(more) =
          Scientific(atts) \cup
              (IF attempt.outcome \in {"LOW", "HIGH"} THEN {Len(more)} ELSE {})
  BY <1>1, <1>2 DEF Scientific
<1>4. Len(more) \notin Scientific(atts)
  BY <1>2 DEF Scientific
<1>5. Cardinality(Scientific(atts) \cup {Len(more)}) = Cardinality(Scientific(atts)) + 1
  BY <1>4, RoundsFinite, FS_AddElement
<1>6. Cardinality(Scientific(atts)) + 0 = Cardinality(Scientific(atts))
  BY RoundsFinite
<1> QED BY <1>1, <1>2, <1>3, <1>4, <1>5, <1>6 DEF more

\* What the verdict says of a ledger in which only the last round may be high: the
\* evidence it was given on, and that no round can follow a high one.
LEMMA VerdictOnEvidence ==
    ASSUME NEW atts \in Seq(Attempts), atts # <<>>, Ordered(atts),
           \A k \in 1 .. Cardinality(Scientific(atts)) :
               \E i \in Scientific(atts) : atts[i].index = k,
           \A i \in DOMAIN atts : atts[i].outcome = "HIGH" => i = Len(atts)
    PROVE  /\ Decide(atts) = "VALIDATION_PASSED" => PassEvidence(atts)
           /\ Decide(atts) = "TOO_EASY" =>
                  LastOutcome(atts) = "HIGH" /\ Len(atts) \in Blinds(atts)
           /\ LastOutcome(atts) = "HIGH" =>
                  Decide(atts) \in {"TOO_EASY", "VALIDATION_PASSED"}
<1>1. Len(atts) \in Nat \ {0} /\ DOMAIN atts = 1 .. Len(atts)
  OBVIOUS
<1>2. ASSUME NEW h \in Hints(atts)
      PROVE  /\ atts[h].index > 3
             /\ \A k \in 1 .. 3 : \E i \in Blinds(atts) : atts[i].index = k
             /\ Cardinality(Blinds(atts)) >= 3
  <2>1. h \in Scientific(atts) /\ atts[h].mode = "hint"
    BY DEF Hints
  <2>2. atts[h].index \in 1 .. Cardinality(Scientific(atts)) /\ atts[h].index > 3
        /\ Cardinality(Scientific(atts)) \in Nat
    BY <2>1, OrderedRounds, RoundsFinite
  <2>3. ASSUME NEW k \in 1 .. 3
        PROVE  \E i \in Blinds(atts) : atts[i].index = k
    <3>1. k \in 1 .. Cardinality(Scientific(atts))
      BY <2>2
    <3>2. PICK i \in Scientific(atts) : atts[i].index = k
      BY <3>1
    <3>3. atts[i].mode = "blind"
      BY <3>2, OrderedRounds
    <3> QED BY <3>2, <3>3 DEF Blinds
  <2>4. PICK a \in Blinds(atts) : atts[a].index = 1
    BY <2>3
  <2>5. PICK b \in Blinds(atts) : atts[b].index = 2
    BY <2>3
  <2>6. PICK c \in Blinds(atts) : atts[c].index = 3
    BY <2>3
  <2>7. IsFiniteSet(Blinds(atts))
    BY RoundsFinite DEF Blinds
  <2>8. Cardinality(Blinds(atts)) >= 3
    BY <2>4, <2>5, <2>6, <2>7, ThreeAreThree
  <2> QED BY <2>2, <2>3, <2>8
<1>3. ASSUME Decide(atts) = "VALIDATION_PASSED"
      PROVE  PassEvidence(atts)
  <2>1. /\ ~ \E i \in Blinds(atts) : atts[i].outcome = "HIGH"
        /\ \E i \in Hints(atts) : atts[i].outcome = "HIGH"
    BY <1>3 DEF Decide
  <2>2. PICK h \in Hints(atts) : atts[h].outcome = "HIGH"
    BY <2>1
  <2>3. \A i \in Blinds(atts) : atts[i].outcome = "LOW"
    BY <2>1 DEF Blinds, Scientific
  <2> QED BY <1>2, <2>2, <2>3 DEF PassEvidence
<1>4. ASSUME Decide(atts) = "TOO_EASY"
      PROVE  LastOutcome(atts) = "HIGH" /\ Len(atts) \in Blinds(atts)
  <2>1. PICK i \in Blinds(atts) : atts[i].outcome = "HIGH"
    BY <1>4 DEF Decide
  <2>2. i = Len(atts)
    BY <2>1 DEF Blinds, Scientific
  <2> QED BY <2>1, <2>2 DEF LastOutcome
<1>5. ASSUME LastOutcome(atts) = "HIGH"
      PROVE  Decide(atts) \in {"TOO_EASY", "VALIDATION_PASSED"}
  <2>1. Len(atts) \in Scientific(atts) /\ atts[Len(atts)].outcome = "HIGH"
    BY <1>1, <1>5 DEF Scientific, LastOutcome
  <2>2. ~TimedOut(atts, 0)
    BY <1>1, <2>1 DEF TimedOut
  <2>3. Len(atts) \in Blinds(atts) \/ Len(atts) \in Hints(atts)
    BY <2>1, OrderedRounds DEF Blinds, Hints
  <2>4. CASE \E i \in Blinds(atts) : atts[i].outcome = "HIGH"
    BY <2>1, <2>2, <2>4 DEF Decide
  <2>5. CASE ~ \E i \in Blinds(atts) : atts[i].outcome = "HIGH"
    <3>1. Len(atts) \in Hints(atts)
      BY <2>1, <2>3, <2>5
    <3>2. Cardinality(Blinds(atts)) >= 3 /\ Cardinality(Blinds(atts)) \in Nat
      BY <1>2, <3>1, RoundsFinite DEF Blinds
    <3> QED BY <2>1, <2>2, <2>5, <3>1, <3>2 DEF Decide
  <2> QED BY <2>4, <2>5
<1> QED BY <1>3, <1>4, <1>5

\* A computed verdict leads to the state that is named after it.
LEMMA VerdictLeads ==
    ASSUME NEW atts, NEW state \in Recording
    PROVE  LET next == StateAfter(Decide(atts), state) IN
           /\ next \notin {"RUNTIME_FINALIZATION", "PUBLICATION_PENDING", "COMPLETED"}
           /\ next \in {"TOO_EASY", "VALIDATION_PASSED"} => Decide(atts) = next
<1>1. Decide(atts) \in {"HUMAN_REVIEW", "DEFER_NEXT_QUESTION", "RETRY_SAME_ATTEMPT",
          "TOO_EASY", "NEXT_BLIND", "VALIDATION_PASSED", "NEXT_HINT"}
  BY DEF Decide
<1> QED BY <1>1 DEF StateAfter, Recording, Validating

LEMMA ReadRoundEvidence ==
    ASSUME Inv, EvidenceInv, NEW p \in Procs, NEW i \in DOMAIN requests,
           NEW outcome \in Outcomes, ReadRound(p, i, outcome)
    PROVE  EvidenceInv'
<1> DEFINE op == [at |-> "record", request |-> i, outcome |-> outcome,
                  session |-> run.session, rounds |-> run.rounds]
<1>1. PendingEvidence(op, requests)
  BY DEF PendingEvidence, ReadRound, BindsSession, EvidenceInv, Evidence
<1>2. Await(p, op) /\ UNCHANGED <<run, requests>>
  BY DEF ReadRound
<1> HIDE DEF op
<1> QED BY <1>1, <1>2, AwaitEvidence

\* The ledger is the one of the second read, so its numbers and its verdict are; the
\* receipts are those of the first read, which are all of its session.
LEMMA RecordEvidence ==
    ASSUME Inv, EvidenceInv, NEW p \in Procs, RecordStep(p)
    PROVE  EvidenceInv'
<1> DEFINE i == pc[p].request
           outcome == pc[p].outcome
           attempt == AttemptOf(i, outcome)
           atts == run.attempts
           more == Append(atts, attempt)
           action == Decide(more)
           read == pc[p].session
           session == RecordedSession(p, StateAfter(action, run.state))
           next == Recorded(p)
<1>0. pc[p].at = "record"
  BY DEF RecordStep
<1>1. /\ requests[i].protocol = "linear" /\ requests[i].mode \in {"blind", "hint"}
      /\ i \in Requests /\ i \in DOMAIN requests
      /\ read \in ValidationSessions
  BY <1>0, ReadOperation
<1>2. /\ attempt \in Attempts /\ attempt.outcome = outcome /\ attempt.request = i
      /\ attempt.protocol = "linear"
  BY <1>0, RecordedAttempt DEF AttemptOf
<1>3. atts \in Seq(Attempts)
  BY EvidenceType
<1>4. run \in Snapshots /\ run.session # None
      /\ run.state \in Recording /\ run.state \in States
      /\ run.state \notin {"DESIGNING", "AUTHORING"}
  BY FieldsOfRun, EvidenceType DEF RecordStep, Recording, Validating
<1>5. Fresh(more) /\ OneSession(more)
  BY DEF RecordStep
<1>6. Commit(p, next, Reconciling(next, Idle)) /\ UNCHANGED <<requests, registry>>
  BY RecordedCommit
<1>7. read.receipts \in Seq(Requests)
  BY <1>1 DEF ValidationSessions
<1>8. /\ session.id = read.id
      /\ session.receipts = IF outcome \in {"LOW", "HIGH"}
                            THEN Append(read.receipts, i) ELSE read.receipts
  BY RecordedFields
<1>9. /\ StateAfter(action, run.state) \in States
      /\ StateAfter(action, run.state) \notin {"DESIGNING", "AUTHORING"}
  BY <1>4, VerdictType
<1>10. StateAfter(action, run.state) \in Recording =>
          action \notin {"TOO_EASY", "VALIDATION_PASSED"}
  BY DEF StateAfter, Recording, Validating
<1>12. /\ next \in Snapshots
       /\ next.attempts = more /\ next.decision = action
       /\ next.state = StateAfter(action, run.state) /\ next.session = session
       /\ next.deltas = run.deltas /\ next.closure = run.closure
  BY RecordedFields
<1> HIDE DEF attempt
<1>11. /\ more \in Seq(Attempts) /\ Len(more) = Len(atts) + 1
       /\ DOMAIN more = DOMAIN atts \cup {Len(more)} /\ Len(more) \notin DOMAIN atts
       /\ \A j \in DOMAIN atts : more[j] = atts[j]
       /\ more[Len(more)] = attempt
       /\ Scientific(more) =
              Scientific(atts) \cup (IF outcome \in {"LOW", "HIGH"} THEN {Len(more)} ELSE {})
       /\ Len(more) \notin Scientific(atts)
       /\ Cardinality(Scientific(more)) =
              Cardinality(Scientific(atts)) + (IF outcome \in {"LOW", "HIGH"} THEN 1 ELSE 0)
  BY <1>2, <1>3, OneMoreRound
<1> HIDE DEF more, action, session, next, i, outcome, read, atts
<1>13. /\ Unopened(run) /\ Named(run, requests) /\ Open(run, requests) /\ Earned(run)
       /\ CountedOnce(run) /\ Current(run)
  BY DEF EvidenceInv, Evidence
<1>14. \A j \in DOMAIN atts :
          /\ atts[j].outcome # "HIGH"
          /\ atts[j].protocol = "persistent" => atts[j].outcome = "FAILED"
  BY <1>4, <1>13 DEF Open, atts
<1>15. \A j \in Scientific(more) : more[j].protocol = "linear"
  <2>1. \A j \in DOMAIN more : more[j] \in Attempts
    <3>1. more \in Seq(Attempts)
      BY <1>11
    <3> QED BY <3>1
  <2>2. \A j \in DOMAIN more : more[j].protocol \in {"linear", "persistent"}
    BY <2>1, WorkflowAssumption DEF Attempts
  <2>3. \A j \in Scientific(more) : j \in DOMAIN more /\ more[j].outcome \in {"LOW", "HIGH"}
    BY DEF Scientific
  <2> QED BY <1>2, <1>11, <1>14, <2>2, <2>3
<1>16. Ordered(more) /\ IdentityFresh(more)
  BY <1>5, <1>15 DEF Fresh
<1>17. OfOneSession(more, requests)
  BY <1>5 DEF OneSession, OfOneSession
<1>18. Cardinality(Scientific(atts)) \in Nat /\ Cardinality(Scientific(more)) \in Nat
  BY <1>3, <1>11, RoundsFinite
<1>19. \A k \in 1 .. Cardinality(Scientific(more)) :
          \E j \in Scientific(more) : more[j].index = k
  <2> SUFFICES ASSUME NEW k \in 1 .. Cardinality(Scientific(more))
               PROVE  \E j \in Scientific(more) : more[j].index = k
    OBVIOUS
  <2>1. CASE k \in 1 .. Cardinality(Scientific(atts))
    <3>1. PICK j \in Scientific(atts) : atts[j].index = k
      BY <1>4, <1>13, <2>1 DEF Open, atts
    <3>2. j \in Scientific(more) /\ j \in DOMAIN atts
      BY <1>11 DEF Scientific
    <3> QED BY <1>11, <3>1, <3>2
  <2>2. CASE k \notin 1 .. Cardinality(Scientific(atts))
    <3>1. outcome \in {"LOW", "HIGH"} /\ k = Cardinality(Scientific(more))
      BY <1>11, <1>18, <2>2
    <3>2. Len(more) \in Scientific(more)
      BY <1>11, <3>1
    <3> QED BY <1>11, <1>16, <3>1, <3>2, OrderedRounds
  <2> QED BY <2>1, <2>2
<1>20. \A j \in DOMAIN more : more[j].outcome = "HIGH" => j = Len(more)
  BY <1>11, <1>14
<1>21. /\ action = "VALIDATION_PASSED" => PassEvidence(more)
       /\ action = "TOO_EASY" => LastOutcome(more) = "HIGH" /\ Len(more) \in Blinds(more)
       /\ LastOutcome(more) = "HIGH" => action \in {"TOO_EASY", "VALIDATION_PASSED"}
  <2>1. more # <<>>
    BY <1>11, <1>3
  <2> QED BY <1>11, <1>16, <1>19, <1>20, <2>1, VerdictOnEvidence DEF action
<1>22. Unopened(next)
  BY <1>9, <1>12 DEF Unopened
<1>23. Named(next, requests)
  BY <1>1, <1>2, <1>11, <1>12, <1>13 DEF Named, atts
<1>24. Earned(next)
  BY <1>12, <1>20, <1>21 DEF Earned
<1>25. Open(next, requests)
  <2> SUFFICES ASSUME next.state \in Recording
               PROVE  /\ IdentityFresh(more) /\ Ordered(more)
                      /\ OfOneSession(more, requests)
                      /\ \A j \in DOMAIN more :
                             /\ more[j].outcome # "HIGH"
                             /\ more[j].protocol = "persistent" =>
                                    /\ more[j].outcome = "FAILED"
                                    /\ requests[more[j].request].trial[1] = "FAILED"
                      /\ \A k \in 1 .. Cardinality(Scientific(more)) :
                             \E j \in Scientific(more) : more[j].index = k
    BY <1>12 DEF Open
  <2>1. LastOutcome(more) # "HIGH"
    BY <1>10, <1>12, <1>21
  <2>2. \A j \in DOMAIN more : more[j].outcome # "HIGH"
    BY <1>20, <2>1 DEF LastOutcome
  <2>3. \A j \in DOMAIN more : more[j].protocol = "persistent" =>
            /\ more[j].outcome = "FAILED"
            /\ requests[more[j].request].trial[1] = "FAILED"
    BY <1>2, <1>4, <1>11, <1>13 DEF Open, atts
  <2> QED BY <1>16, <1>17, <1>19, <2>2, <2>3
<1>26. InHistory(session, requests)
  <2>1. /\ \A k \in DOMAIN read.receipts :
               /\ read.receipts[k] \in DOMAIN requests
               /\ requests[read.receipts[k]].session = read.id
        /\ i \in DOMAIN requests /\ requests[i].session = read.id
    BY <1>0, <1>1, NoneAssumption
    DEF EvidenceInv, PendingEvidence, InHistory, read, i
  <2>2. \A k \in DOMAIN session.receipts :
            \/ session.receipts[k] = i
            \/ k \in DOMAIN read.receipts /\ session.receipts[k] = read.receipts[k]
    <3>1. CASE outcome \in {"LOW", "HIGH"}
      BY <1>1, <1>7, <1>8, <3>1
    <3>2. CASE outcome \notin {"LOW", "HIGH"}
      BY <1>8, <3>2
    <3> QED BY <3>1, <3>2
  <2> QED BY <1>8, <2>1, <2>2 DEF InHistory
<1>27. CountedOnce(next)
  <2> SUFFICES ASSUME NEW j \in DOMAIN more, NEW k \in DOMAIN more, j # k,
                      more[j].request = more[k].request,
                      more[j].index = more[k].index
               PROVE  "INCOMPLETE" \in {more[j].outcome, more[k].outcome}
    BY <1>12 DEF CountedOnce
  <2>1. DOMAIN more = 1 .. Len(more)
    BY <1>11
  <2>2. j < k \/ k < j
    BY <2>1
  <2> QED BY <1>16, <2>2 DEF IdentityFresh
<1>28. Current(next)
  <2>1. run.closure = None
    BY <1>4, <1>13 DEF Current, Recording, Validating
  <2> QED BY <1>11, <1>12, <1>13, <2>1 DEF Current, atts
<1>29. Judged(next)
  BY <1>4, <1>12, VerdictLeads DEF Judged, Recording, Validating, action
<1>30. Evidence(next, requests)
  BY <1>12, <1>22, <1>23, <1>24, <1>25, <1>26, <1>27, <1>28, <1>29 DEF Evidence
<1>31. Reconciling(next, Idle) \in Operations /\ NothingToCommit(Reconciling(next, Idle))
  BY <1>12, ReconcilingType
<1> QED BY <1>6, <1>12, <1>30, <1>31, CommitEvidence

-----------------------------------------------------------------------------
(* A trial.                                                                  *)

\* A trial fails, passes or is low at its end, and was low before; a trial without an
\* accepted round failed at once.
LEMMA RoundsOfTrial ==
    ASSUME NEW trial \in PersistentTrials
    PROVE  /\ trial \in Seq({"LOW", "HIGH", "FAILED"}) /\ Len(trial) \in 1 .. 5
           /\ \A k \in 1 .. Len(trial) : k # Len(trial) => trial[k] = "LOW"
           /\ trial[1] = "FAILED" => Len(trial) = 1
           /\ \/ \E k \in 1 .. Len(trial) : trial[k] \in {"LOW", "HIGH"}
              \/ Len(trial) = 1 /\ trial[1] = "FAILED"
<1>1. trial \in Seq({"LOW", "HIGH", "FAILED"}) /\ Len(trial) \in 1 .. 5
  BY TrialType
<1>2. \A k \in 1 .. (Len(trial) - 1) : trial[k] = "LOW"
  BY DEF PersistentTrials
<1>3. \A k \in 1 .. Len(trial) : k # Len(trial) => trial[k] = "LOW"
  BY <1>1, <1>2
<1>4. trial[1] \in {"LOW", "HIGH", "FAILED"}
  BY <1>1
<1> QED BY <1>1, <1>3, <1>4

\* Where an import leads.
LEMMA VerdictOfTrial ==
    ASSUME NEW trial \in PersistentTrials
    PROVE  /\ TrialVerdict(trial)[1] \in Recording => trial[1] = "FAILED"
           /\ TrialVerdict(trial)[2] = "TOO_EASY" =>
                  trial[Len(trial)] = "HIGH" /\ Len(trial) <= 3
           /\ TrialVerdict(trial)[2] = "VALIDATION_PASSED" =>
                  trial[Len(trial)] = "HIGH" /\ Len(trial) > 3
           /\ TrialVerdict(trial)[1] \in States \ {"DESIGNING", "AUTHORING"}
<1> DEFINE last == trial[Len(trial)]
           n == Len(trial)
<1>1. n \in 1 .. 5 /\ last \in {"LOW", "HIGH", "FAILED"}
  BY RoundsOfTrial
<1>2. CASE last = "FAILED"
  <2>1. Terminal(trial) = "NONE"
    BY <1>2 DEF Terminal
  <2>2. n = 1 => trial[1] = "FAILED"
    BY <1>2
  <2> QED BY <1>1, <2>1, <2>2 DEF TrialVerdict, Recording, Validating, States
<1>3. CASE last = "HIGH" /\ n <= 3
  <2>1. Terminal(trial) = "STOP_TOO_EASY"
    BY <1>3 DEF Terminal
  <2> QED BY <1>3, <2>1 DEF TrialVerdict, Recording, Validating, States
<1>4. CASE last = "HIGH" /\ n > 3
  <2>1. Terminal(trial) = "STOP_PASSED"
    BY <1>1, <1>4 DEF Terminal
  <2> QED BY <1>4, <2>1 DEF TrialVerdict, Recording, Validating, States
<1>5. CASE last = "LOW"
  <2>1. Terminal(trial) = "STOP_BLOCKED"
    BY <1>5 DEF Terminal
  <2> QED BY <2>1 DEF TrialVerdict, Recording, Validating, States
<1> QED BY <1>1, <1>2, <1>3, <1>4, <1>5

LEMMA TrialLeads ==
    ASSUME NEW trial \in PersistentTrials
    PROVE  LET verdict == TrialVerdict(trial) IN
           /\ verdict[1] \notin {"RUNTIME_FINALIZATION", "PUBLICATION_PENDING", "COMPLETED"}
           /\ verdict[1] \in {"TOO_EASY", "VALIDATION_PASSED"} => verdict[2] = verdict[1]
<1>1. Len(trial) \in 1 .. 5
  BY RoundsOfTrial
<1>2. Terminal(trial) \in {"NONE", "STOP_TOO_EASY", "STOP_PASSED", "STOP_BLOCKED"}
  BY DEF Terminal
<1> QED BY <1>1, <1>2 DEF TrialVerdict

\* The ledger with the rounds of a trial behind it.
WithTrial(i) == run.attempts \o TrialAttempts(i, requests[i].trial)

EndsWithTrial(more, atts, i, trial) ==
    /\ more \in Seq(Attempts) /\ Len(more) = Len(atts) + Len(trial)
    /\ \A j \in DOMAIN atts : j \in DOMAIN more /\ more[j] = atts[j]
    /\ \A j \in DOMAIN more \ DOMAIN atts : \E k \in 1 .. Len(trial) : j = Len(atts) + k
    /\ \A k \in 1 .. Len(trial) :
           /\ Len(atts) + k \in DOMAIN more \ DOMAIN atts
           /\ more[Len(atts) + k].request = i
           /\ more[Len(atts) + k].protocol = "persistent"
           /\ more[Len(atts) + k].index = k
           /\ more[Len(atts) + k].mode = IF k <= 3 THEN "blind" ELSE "hint"
           /\ more[Len(atts) + k].outcome = trial[k]

LEMMA TrialsRounds ==
    ASSUME Inv, NEW i \in DOMAIN requests, requests[i].protocol = "persistent"
    PROVE  EndsWithTrial(WithTrial(i), run.attempts, i, requests[i].trial)
<1> DEFINE trial == requests[i].trial
           atts == run.attempts
           rounds == TrialAttempts(i, trial)
           more == atts \o rounds
<1>1. trial \in PersistentTrials
  BY DEF Inv, RequestsOK
<1>2. trial \in Seq({"LOW", "HIGH", "FAILED"}) /\ Len(trial) \in 1 .. 5
  BY <1>1, TrialType
<1>3. DOMAIN trial = 1 .. Len(trial)
  BY <1>2
<1>4. atts \in Seq(Attempts) /\ rounds \in Seq(Attempts)
  BY EvidenceType, TrialAttemptsType
<1> HIDE DEF trial
<1>5. DOMAIN rounds = 1 .. Len(trial)
  BY <1>3 DEF TrialAttempts
<1>6. Len(rounds) = Len(trial)
  BY <1>2, <1>4, <1>5
<1>7. \A k \in 1 .. Len(trial) :
          rounds[k] = [request |-> i, protocol |-> "persistent", index |-> k,
                       mode |-> IF k <= 3 THEN "blind" ELSE "hint", outcome |-> trial[k]]
  BY <1>3 DEF TrialAttempts
<1> HIDE DEF rounds, atts
<1>8. /\ more \in Seq(Attempts) /\ Len(more) = Len(atts) + Len(trial)
      /\ Len(atts) \in Nat /\ DOMAIN atts = 1 .. Len(atts)
      /\ DOMAIN more = 1 .. Len(atts) + Len(trial)
      /\ \A j \in 1 .. Len(atts) : more[j] = atts[j]
      /\ \A k \in 1 .. Len(trial) : more[Len(atts) + k] = rounds[k]
  BY <1>2, <1>4, <1>6
<1> HIDE DEF more
<1>9. \A j \in DOMAIN atts : j \in DOMAIN more /\ more[j] = atts[j]
  BY <1>2, <1>8
<1>10. ASSUME NEW j \in DOMAIN more \ DOMAIN atts
       PROVE  \E k \in 1 .. Len(trial) : j = Len(atts) + k
  <2>1. j - Len(atts) \in 1 .. Len(trial) /\ j = Len(atts) + (j - Len(atts))
    BY <1>2, <1>8
  <2> QED BY <2>1
<1>11. ASSUME NEW k \in 1 .. Len(trial)
       PROVE  /\ Len(atts) + k \in DOMAIN more \ DOMAIN atts
              /\ more[Len(atts) + k].request = i
              /\ more[Len(atts) + k].protocol = "persistent"
              /\ more[Len(atts) + k].index = k
              /\ more[Len(atts) + k].mode = IF k <= 3 THEN "blind" ELSE "hint"
              /\ more[Len(atts) + k].outcome = trial[k]
  <2>1. Len(atts) + k \in DOMAIN more \ DOMAIN atts
    BY <1>2, <1>8
  <2>2. more[Len(atts) + k] = rounds[k]
    BY <1>8
  <2>3. /\ rounds[k].request = i /\ rounds[k].protocol = "persistent"
        /\ rounds[k].index = k /\ rounds[k].outcome = trial[k]
        /\ rounds[k].mode = IF k <= 3 THEN "blind" ELSE "hint"
    <3> DEFINE mode == IF k <= 3 THEN "blind" ELSE "hint"
    <3>1. rounds[k] = [request |-> i, protocol |-> "persistent", index |-> k,
                       mode |-> mode, outcome |-> trial[k]]
      BY <1>7
    <3> HIDE DEF mode
    <3>2. /\ rounds[k].request = i /\ rounds[k].protocol = "persistent"
          /\ rounds[k].index = k /\ rounds[k].outcome = trial[k] /\ rounds[k].mode = mode
      BY <3>1
    <3> QED BY <3>2 DEF mode
  <2> QED BY <2>1, <2>2, <2>3
<1>12. EndsWithTrial(more, atts, i, trial)
  BY <1>8, <1>9, <1>10, <1>11 DEF EndsWithTrial
<1> QED BY <1>12 DEF more, atts, rounds, trial, WithTrial

LEMMA ImportEvidence ==
    ASSUME Inv, EvidenceInv, NEW p \in Procs, NEW i \in DOMAIN requests, Import(p, i)
    PROVE  EvidenceInv'
<1> DEFINE trial == requests[i].trial
           atts == run.attempts
           more == WithTrial(i)
           verdict == TrialVerdict(trial)
           session == [run.session EXCEPT !.schema = 3, !.status = verdict[3]]
           next == [run EXCEPT !.attempts = more,
                               !.state = verdict[1], !.decision = verdict[2],
                               !.session = session]
           n == Len(atts)
           m == Len(trial)
<1>1. trial \in PersistentTrials /\ requests[i].protocol = "persistent"
  BY DEF Inv, RequestsOK, Import
<1>2. run \in Snapshots /\ run.session \in ValidationSessions /\ run.session # None
      /\ run.state \in Recording /\ run.state \notin {"DESIGNING", "AUTHORING"}
      /\ atts \in Seq(Attempts)
  BY FieldsOfRun, EvidenceType DEF Import, Recording, Validating
<1>3. Fresh(more) /\ OneSession(more)
  BY DEF Import, WithTrial
<1>4. session.receipts = run.session.receipts /\ session.id = run.session.id
  <2> HIDE DEF verdict
  <2> QED BY <1>2 DEF ValidationSessions
<1>5. /\ next.attempts = more /\ next.decision = verdict[2] /\ next.state = verdict[1]
      /\ next.session = session /\ next.deltas = run.deltas /\ next.closure = run.closure
  <2> HIDE DEF more, verdict, session
  <2> QED BY <1>2 DEF Snapshots
<1>6. PICK op : /\ Await(p, op) /\ UNCHANGED <<run, requests>>
                /\ op = Committing(next)
                   \/ op = Closing(run.session.id, verdict[3], Committing(next))
  BY <1>2 DEF Import, Snapshots, WithTrial
<1>7. /\ m \in 1 .. 5 /\ \A k \in 1 .. m : trial[k] \in {"LOW", "HIGH", "FAILED"}
      /\ \A k \in 1 .. m : k # m => trial[k] = "LOW"
      /\ trial[1] = "FAILED" => m = 1
      /\ \/ \E k \in 1 .. m : trial[k] \in {"LOW", "HIGH"}
         \/ m = 1 /\ trial[1] = "FAILED"
  <2>1. \A k \in 1 .. m : trial[k] \in {"LOW", "HIGH", "FAILED"}
    BY <1>1, RoundsOfTrial
  <2> QED BY <1>1, <2>1, RoundsOfTrial
<1>8. /\ verdict[1] \in Recording => trial[1] = "FAILED"
      /\ verdict[2] = "TOO_EASY" => trial[m] = "HIGH" /\ m <= 3
      /\ verdict[2] = "VALIDATION_PASSED" => trial[m] = "HIGH" /\ m > 3
      /\ verdict[1] \notin {"DESIGNING", "AUTHORING"}
  BY <1>1, VerdictOfTrial
<1>9. /\ more \in Seq(Attempts) /\ Len(more) = n + m
      /\ \A j \in DOMAIN atts : j \in DOMAIN more /\ more[j] = atts[j]
      /\ \A j \in DOMAIN more \ DOMAIN atts : \E k \in 1 .. m : j = n + k
      /\ \A k \in 1 .. m :
             /\ n + k \in DOMAIN more \ DOMAIN atts
             /\ more[n + k].request = i /\ more[n + k].protocol = "persistent"
             /\ more[n + k].index = k /\ more[n + k].outcome = trial[k]
             /\ more[n + k].mode = IF k <= 3 THEN "blind" ELSE "hint"
  <2>1. EndsWithTrial(more, atts, i, trial)
    BY <1>1, TrialsRounds
  <2> HIDE DEF more, atts, trial
  <2> QED BY <2>1 DEF EndsWithTrial
<1>10. n \in Nat
  BY <1>2
<1> HIDE DEF trial, more, verdict, session, next, n, m, atts
<1>11. /\ Unopened(run) /\ Named(run, requests) /\ Open(run, requests) /\ Earned(run)
       /\ InHistory(run.session, requests) /\ CountedOnce(run) /\ Current(run)
  BY DEF EvidenceInv, Evidence
<1>12. \A j \in DOMAIN atts :
          /\ atts[j].outcome # "HIGH"
          /\ atts[j].protocol = "persistent" =>
                 /\ atts[j].outcome = "FAILED"
                 /\ requests[atts[j].request].trial[1] = "FAILED"
  BY <1>2, <1>11 DEF Open, atts
<1>13. \A j \in DOMAIN atts :
          /\ atts[j].request \in DOMAIN requests
          /\ atts[j].protocol = requests[atts[j].request].protocol
  BY <1>11 DEF Named, atts
\* A trial with an accepted round is the first thing accepted in its session.
<1>14. ASSUME trial[1] # "FAILED"
       PROVE  Scientific(atts) = {}
  <2>1. PICK k \in 1 .. m : trial[k] \in {"LOW", "HIGH"}
    BY <1>7, <1>14
  <2>2. n + k \in Scientific(more) /\ more[n + k].protocol = "persistent"
    BY <1>9, <2>1 DEF Scientific
  <2>3. \A j \in Scientific(atts) : j \in Scientific(more) /\ more[j] = atts[j]
    BY <1>9 DEF Scientific
  <2>4. \A j \in Scientific(atts) : atts[j].protocol = "persistent"
    BY <1>3, <2>2, <2>3 DEF Fresh, OneProtocol
  <2> QED BY <1>12, <2>4 DEF Scientific
<1>15. ASSUME trial[1] = "FAILED"
       PROVE  /\ m = 1 /\ Scientific(more) = Scientific(atts)
              /\ IdentityFresh(more)
  <2>1. m = 1
    BY <1>7, <1>15
  <2>2. Scientific(more) = Scientific(atts)
    BY <1>9, <1>15, <2>1 DEF Scientific
  <2>3. ~ \E j \in Scientific(more) : more[j].protocol = "persistent"
    BY <1>9, <1>12, <2>2 DEF Scientific
  <2> QED BY <1>3, <2>1, <2>2, <2>3 DEF Fresh
<1>16. Unopened(next)
  BY <1>5, <1>8 DEF Unopened
<1>17. Named(next, requests)
  <2>1. ASSUME NEW j \in DOMAIN more
        PROVE  /\ more[j].request \in DOMAIN requests
               /\ more[j].protocol = requests[more[j].request].protocol
    BY <1>1, <1>9, <1>13
  <2> QED BY <1>5, <2>1 DEF Named
<1>18. Open(next, requests)
  <2> SUFFICES ASSUME trial[1] = "FAILED"
               PROVE  Open(next, requests)
    BY <1>5, <1>8 DEF Open
  <2>1. ASSUME NEW j \in DOMAIN more
        PROVE  /\ more[j].outcome # "HIGH"
               /\ more[j].protocol = "persistent" =>
                      /\ more[j].outcome = "FAILED"
                      /\ requests[more[j].request].trial[1] = "FAILED"
    BY <1>9, <1>12, <1>15 DEF trial
  <2>2. \A k \in 1 .. Cardinality(Scientific(atts)) :
            \E j \in Scientific(atts) : atts[j].index = k
    BY <1>2, <1>11 DEF Open, atts
  <2>3. \A j \in Scientific(atts) : more[j] = atts[j]
    BY <1>9 DEF Scientific
  <2>4. Ordered(more)
    BY <1>3 DEF Fresh
  <2>5. OfOneSession(more, requests)
    BY <1>3 DEF OneSession, OfOneSession
  <2> QED BY <1>5, <1>15, <2>1, <2>2, <2>3, <2>4, <2>5 DEF Open
<1>19. Earned(next)
  <2>1. \A j \in DOMAIN more : more[j].outcome = "HIGH" => j = Len(more)
    BY <1>7, <1>9, <1>12
  <2>2. ASSUME verdict[2] = "TOO_EASY"
        PROVE  LastOutcome(more) = "HIGH" /\ Len(more) \in Blinds(more)
    <3>1. trial[m] = "HIGH" /\ m <= 3 /\ m \in 1 .. m
      BY <1>7, <1>8, <2>2
    <3> QED BY <1>9, <3>1 DEF LastOutcome, Blinds, Scientific
  <2>3. ASSUME verdict[2] = "VALIDATION_PASSED"
        PROVE  PassEvidence(more)
    <3>1. trial[m] = "HIGH" /\ m > 3 /\ m \in 1 .. m
      BY <1>7, <1>8, <2>3
    <3>2. n + m \in Hints(more) /\ more[n + m].outcome = "HIGH" /\ more[n + m].index > 3
      BY <1>9, <3>1 DEF Hints, Scientific
    <3>3. ASSUME NEW k \in 1 .. 3
          PROVE  \E j \in Blinds(more) : more[j].index = k /\ more[j].outcome = "LOW"
      <4>1. k \in 1 .. m /\ k # m
        BY <1>7, <3>1
      <4>2. trial[k] = "LOW" /\ k <= 3
        BY <1>7, <4>1
      <4>3. n + k \in Blinds(more) /\ more[n + k].index = k /\ more[n + k].outcome = "LOW"
        BY <1>9, <4>1, <4>2 DEF Blinds, Scientific
      <4> QED BY <4>3
    <3> QED BY <3>2, <3>3 DEF PassEvidence
  <2> QED BY <1>5, <2>1, <2>2, <2>3 DEF Earned
<1>20. InHistory(next.session, requests)
  BY <1>2, <1>4, <1>5, <1>11 DEF InHistory
<1>21. CountedOnce(next)
  <2> SUFFICES ASSUME NEW j \in DOMAIN more, NEW k \in DOMAIN more, j # k,
                      more[j].request = more[k].request,
                      more[j].index = more[k].index
               PROVE  "INCOMPLETE" \in {more[j].outcome, more[k].outcome}
    BY <1>5 DEF CountedOnce
  <2>1. CASE trial[1] = "FAILED"
    <3>1. DOMAIN more = 1 .. Len(more)
      <4>1. more \in Seq(Attempts)
        BY <1>9
      <4> QED BY <4>1
    <3>2. j < k \/ k < j
      BY <3>1
    <3> QED BY <1>15, <2>1, <3>2 DEF IdentityFresh
  <2>2. CASE trial[1] # "FAILED"
    \* No round of the ledger is of this request, whose trial is another.
    <3>1. \A l \in DOMAIN atts : atts[l].request # i
      BY <1>1, <1>12, <1>13, <2>2 DEF trial
    <3>2. CASE j \in DOMAIN atts /\ k \in DOMAIN atts
      BY <1>9, <1>11, <3>2 DEF CountedOnce, atts
    <3>3. CASE j \in DOMAIN atts /\ k \notin DOMAIN atts
      BY <1>9, <3>1, <3>3
    <3>4. CASE j \notin DOMAIN atts /\ k \in DOMAIN atts
      BY <1>9, <3>1, <3>4
    <3>5. CASE j \notin DOMAIN atts /\ k \notin DOMAIN atts
      BY <1>9, <3>5
    <3> QED BY <3>2, <3>3, <3>4, <3>5
  <2> QED BY <2>1, <2>2
<1>22. Current(next)
  <2>1. run.closure = None
    BY <1>2, <1>11 DEF Current, Recording, Validating
  <2> QED BY <1>5, <1>9, <1>11, <2>1 DEF Current, atts
<1>23. Judged(next)
  BY <1>1, <1>5, TrialLeads DEF Judged, verdict
<1>24. Evidence(next, requests)
  BY <1>16, <1>17, <1>18, <1>19, <1>20, <1>21, <1>22, <1>23 DEF Evidence
<1>25. PendingEvidence(op, requests)
  BY <1>6, <1>24 DEF PendingEvidence, Committing, Closing
<1> QED BY <1>6, <1>25, AwaitEvidence

-----------------------------------------------------------------------------
LEMMA EvidenceInit == Init => EvidenceInv
<1> SUFFICES ASSUME Init
             PROVE  EvidenceInv
  OBVIOUS
<1>1. PICK revision \in Revisions :
          run = [NextRevision(revision) EXCEPT !.state = "DESIGNING"]
  BY DEF Init
<1>2. /\ run.attempts = <<>> /\ run.session = None /\ run.deltas = {}
      /\ run.closure = None /\ run.decision = "NONE" /\ run.state = "DESIGNING"
  BY <1>1 DEF NextRevision
<1>3. Evidence(run, requests)
  BY <1>2 DEF Evidence, Unopened, Named, Open, Earned, InHistory, CountedOnce, Current,
              Judged, Recording, Validating
<1>4. PriorInSession(requests)
  BY DEF Init, PriorInSession
<1> QED BY <1>3, <1>4, IdleEvidence DEF EvidenceInv, Init

LEMMA EvidenceStep == Inv /\ EvidenceInv /\ [Next]_vars => EvidenceInv'
<1> SUFFICES ASSUME Inv, EvidenceInv, [Next]_vars
             PROVE  EvidenceInv'
  OBVIOUS
<1>1. CASE Sibling \/ UNCHANGED vars
  BY <1>1 DEF Sibling, vars, EvidenceInv
<1>2. ASSUME NEW p \in Procs, ProcStep(p)
      PROVE  EvidenceInv'
  <2>1. CASE \E s \in Sessions, t \in Threads : Freeze(p, s, t)
    BY <2>1, FreezeEvidence
  <2>2. CASE \E i \in DOMAIN requests :
                 (\E outcome \in Outcomes : ReadRound(p, i, outcome)) \/ Import(p, i)
    BY <2>2, ReadRoundEvidence, ImportEvidence
  <2>3. CASE \E revision \in Revisions : Revise(p, revision) \/ Migrate(p, revision)
    BY <2>3, RevisionEvidence
  <2>4. CASE ReserveStep(p) \/ CloseStep(p) \/ CommitStep(p) \/ GiveUp(p)
             \/ Replay(p) \/ Reconcile(p) \/ Finalize(p)
    BY <2>4, PassedOnEvidence
  <2>5. CASE RecordStep(p)
    BY <2>5, RecordEvidence
  <2> QED BY <1>2, <2>1, <2>2, <2>3, <2>4, <2>5 DEF ProcStep
<1> QED BY <1>1, <1>2, IssueEvidence, RunStepEvidence DEF Next

LEMMA EvidenceHolds == Spec => []EvidenceInv
BY InitInv, StepInv, EvidenceInit, EvidenceStep, PTL DEF Spec

\* Every verdict the workflow computed is the one its rounds deserve, and nothing is
\* finalized but by such a verdict or by the Teacher's own, for any number of rounds,
\* requests, processes, retries and trials.
THEOREM VerdictsAreEarned == Spec => []VerdictsEarned
<1>1. EvidenceInv => VerdictsEarned
  BY DEF EvidenceInv, Evidence, Earned, Judged, VerdictsEarned
<1> QED BY <1>1, EvidenceHolds, PTL

\* No Researcher is shown a round of another session, however late the receipts of an
\* old read are written over a run that has moved on.
THEOREM HistoriesStayInSession == Spec => []HistoryStaysInSession
<1>1. EvidenceInv => HistoryStaysInSession
  BY DEF EvidenceInv, Evidence, InHistory, PriorInSession, HistoryStaysInSession
<1> QED BY <1>1, EvidenceHolds, PTL

\* No execution is in the ledger twice, whoever records it, however often.
THEOREM ExecutionsCountOnce == Spec => []ExecutionCountedOnce
<1>1. EvidenceInv => ExecutionCountedOnce
  BY DEF EvidenceInv, Evidence, CountedOnce, ExecutionCountedOnce
<1> QED BY <1>1, EvidenceHolds, PTL

\* What is finalized rests on attempts and deltas of the present revision.
THEOREM ClosuresAreCurrent == Spec => []ClosureIsCurrent
<1>1. EvidenceInv => ClosureIsCurrent
  BY DEF EvidenceInv, Evidence, Current, ClosureIsCurrent
<1> QED BY <1>1, EvidenceHolds, PTL

-----------------------------------------------------------------------------
(* A trial can be imported when it ends.                                     *)

\* A verdict that settles a run rests on a high round, and that is the last one.
LEMMA TrialAgrees ==
    ASSUME NEW atts, NEW trial \in PersistentTrials, NEW more, NEW i,
           EndsWithTrial(more, atts, i, trial),
           \A j \in DOMAIN atts : atts[j].outcome # "HIGH"
    PROVE  TerminalAgrees(more, trial)
<1> DEFINE n == Len(atts)
           m == Len(trial)
<1>1. /\ m \in 1 .. 5
      /\ \A k \in 1 .. m : k # m => trial[k] = "LOW"
  BY RoundsOfTrial
<1>2. /\ \A j \in DOMAIN atts : more[j] = atts[j]
      /\ \A j \in DOMAIN more \ DOMAIN atts : \E k \in 1 .. m : j = n + k
      /\ \A k \in 1 .. m :
             /\ more[n + k].mode = IF k <= 3 THEN "blind" ELSE "hint"
             /\ more[n + k].outcome = trial[k]
  BY DEF EndsWithTrial
<1> HIDE DEF n, m
<1>3. ASSUME NEW j \in Scientific(more), more[j].outcome = "HIGH"
      PROVE  /\ trial[m] = "HIGH"
             /\ more[j].mode = IF m <= 3 THEN "blind" ELSE "hint"
  <2>1. j \in DOMAIN more \ DOMAIN atts
    BY <1>2, <1>3 DEF Scientific
  <2>2. PICK k \in 1 .. m : j = n + k
    BY <1>2, <2>1
  <2>3. trial[k] = "HIGH" /\ more[j].mode = IF k <= 3 THEN "blind" ELSE "hint"
    BY <1>2, <1>3, <2>2
  <2>4. k = m
    BY <1>1, <2>3
  <2> QED BY <2>3, <2>4
<1>4. ASSUME Decide(more) = "TOO_EASY"
      PROVE  Terminal(trial) = "STOP_TOO_EASY"
  <2>1. PICK j \in Blinds(more) : more[j].outcome = "HIGH"
    BY <1>4 DEF Decide
  <2>2. trial[m] = "HIGH" /\ m <= 3
    BY <1>3, <2>1 DEF Blinds
  <2> QED BY <2>2 DEF Terminal, m
<1>5. ASSUME Decide(more) = "VALIDATION_PASSED"
      PROVE  Terminal(trial) = "STOP_PASSED"
  <2>1. PICK j \in Hints(more) : more[j].outcome = "HIGH"
    BY <1>5 DEF Decide
  <2>2. trial[m] = "HIGH" /\ ~(m <= 3)
    BY <1>3, <2>1 DEF Hints
  <2> QED BY <2>2 DEF Terminal, m
<1> QED BY <1>4, <1>5 DEF TerminalAgrees

\* The accepted rounds of a trial that is the first thing accepted.
LEMMA FirstTrialFresh ==
    ASSUME NEW atts \in Seq(Attempts), Scientific(atts) = {}, NEW trial \in PersistentTrials,
           trial[1] # "FAILED", NEW more, NEW i, EndsWithTrial(more, atts, i, trial)
    PROVE  Fresh(more)
<1> DEFINE n == Len(atts)
           m == Len(trial)
<1>1. /\ m \in 1 .. 5
      /\ \A k \in 1 .. m : trial[k] \in {"LOW", "HIGH", "FAILED"}
      /\ \A k \in 1 .. m : k # m => trial[k] = "LOW"
  <2>1. \A k \in 1 .. m : trial[k] \in {"LOW", "HIGH", "FAILED"}
    BY RoundsOfTrial
  <2> QED BY <2>1, RoundsOfTrial
<1>2. /\ \A j \in DOMAIN atts : j \in DOMAIN more /\ more[j] = atts[j]
      /\ \A j \in DOMAIN more \ DOMAIN atts : \E k \in 1 .. m : j = n + k
      /\ \A k \in 1 .. m :
             /\ n + k \in DOMAIN more \ DOMAIN atts
             /\ more[n + k].request = i /\ more[n + k].protocol = "persistent"
             /\ more[n + k].index = k /\ more[n + k].outcome = trial[k]
             /\ more[n + k].mode = IF k <= 3 THEN "blind" ELSE "hint"
  BY DEF EndsWithTrial
<1>3. n \in Nat
  OBVIOUS
<1> HIDE DEF n, m
<1>4. ASSUME NEW j \in Scientific(more)
      PROVE  \E k \in 1 .. m : j = n + k /\ trial[k] \in {"LOW", "HIGH"}
  <2>1. j \notin DOMAIN atts
    BY <1>2 DEF Scientific
  <2>2. PICK k \in 1 .. m : j = n + k
    BY <1>2, <2>1 DEF Scientific
  <2> QED BY <1>2, <2>2 DEF Scientific
<1>5. \A k \in 1 .. m : trial[k] \in {"LOW", "HIGH"} => n + k \in Scientific(more)
  BY <1>2 DEF Scientific
<1>6. \A j \in Scientific(more) : more[j].protocol = "persistent" /\ more[j].request = i
  BY <1>2, <1>4
<1>7. ASSUME NEW j \in Scientific(more)
      PROVE  LET c == Cardinality({l \in Scientific(more) : l <= j}) IN
                 /\ c <= 5
                 /\ more[j].index = c
                 /\ more[j].mode = IF c <= 3 THEN "blind" ELSE "hint"
  <2>1. PICK k \in 1 .. m : j = n + k /\ trial[k] \in {"LOW", "HIGH"}
    BY <1>4
  <2>2. {l \in Scientific(more) : l <= j} = (n + 1) .. (n + k)
    <3>1. ASSUME NEW l \in Scientific(more), l <= j
          PROVE  l \in (n + 1) .. (n + k)
      <4>1. PICK b \in 1 .. m : l = n + b
        BY <1>4
      <4> QED BY <1>1, <1>3, <2>1, <3>1, <4>1
    <3>2. ASSUME NEW l \in (n + 1) .. (n + k)
          PROVE  l \in Scientific(more) /\ l <= j
      <4>1. PICK b \in 1 .. k : l = n + b
        <5>1. l - n \in 1 .. k /\ l = n + (l - n)
          BY <1>1, <1>3, <2>1
        <5> QED BY <5>1
      <4>2. b \in 1 .. m /\ (b = m => b = k)
        BY <1>1, <2>1
      <4>3. trial[b] \in {"LOW", "HIGH"}
        BY <1>1, <2>1, <4>2
      <4> QED BY <1>1, <1>3, <1>5, <2>1, <4>1, <4>2, <4>3
    <3> QED BY <3>1, <3>2
  <2>3. Cardinality((n + 1) .. (n + k)) = k
    <3>1. n + 1 \in Int /\ n + k \in Int /\ ~(n + 1 > n + k) /\ (n + k) - (n + 1) + 1 = k
      BY <1>1, <1>3, <2>1
    <3> QED BY <3>1, FS_Interval
  <2>4. Cardinality({l \in Scientific(more) : l <= j}) = k
    BY <2>2, <2>3
  <2>5. more[j].index = k /\ more[j].mode = IF k <= 3 THEN "blind" ELSE "hint"
    BY <1>2, <2>1
  <2>6. k <= 5
    BY <1>1
  <2> QED BY <2>4, <2>5, <2>6
<1>8. Ordered(more)
  BY <1>7 DEF Ordered
<1>9. OneProtocol(more)
  BY <1>6 DEF OneProtocol
<1>10. \E j \in Scientific(more) : more[j].protocol = "persistent"
  <2>1. 1 \in 1 .. m /\ trial[1] \in {"LOW", "HIGH"}
    BY <1>1
  <2> QED BY <1>5, <1>6, <2>1
<1> QED BY <1>6, <1>8, <1>9, <1>10 DEF Fresh

\* A trial that failed at once is one more failure in the ledger.
LEMMA FailedTrialFresh ==
    ASSUME NEW atts \in Seq(Attempts), IdentityFresh(atts), Ordered(atts),
           \A j \in Scientific(atts) : atts[j].protocol = "linear",
           NEW trial \in PersistentTrials, trial[1] = "FAILED",
           NEW more, NEW i, EndsWithTrial(more, atts, i, trial),
           \A j \in DOMAIN atts : atts[j].request # i
    PROVE  Fresh(more)
<1> DEFINE n == Len(atts)
<1>1. Len(trial) = 1 /\ 1 \in 1 .. Len(trial)
  BY RoundsOfTrial
<1>2. /\ more \in Seq(Attempts) /\ Len(more) = n + 1
      /\ \A j \in DOMAIN atts : j \in DOMAIN more /\ more[j] = atts[j]
      /\ \A j \in DOMAIN more \ DOMAIN atts : j = n + 1
      /\ more[n + 1].request = i /\ more[n + 1].outcome = "FAILED"
  BY <1>1 DEF EndsWithTrial
<1>3. Scientific(more) = Scientific(atts)
  BY <1>2 DEF Scientific
<1>4. \A j \in Scientific(more) : j \in DOMAIN atts /\ more[j] = atts[j]
  BY <1>2, <1>3 DEF Scientific
<1> HIDE DEF n
<1>5. Ordered(more)
  BY <1>3, <1>4 DEF Ordered
<1>6. OneProtocol(more) /\ ~ \E j \in Scientific(more) : more[j].protocol = "persistent"
  BY <1>3, <1>4 DEF OneProtocol
<1>7. IdentityFresh(more)
  <2> SUFFICES ASSUME NEW j \in DOMAIN more, NEW k \in DOMAIN more, j < k,
                      "INCOMPLETE" \notin {more[j].outcome, more[k].outcome}
               PROVE  more[j].request # more[k].request
    BY DEF IdentityFresh
  <2>1. CASE j \in DOMAIN atts /\ k \in DOMAIN atts
    BY <1>2, <2>1 DEF IdentityFresh
  <2>2. CASE j \in DOMAIN atts /\ k \notin DOMAIN atts
    BY <1>2, <2>2
  <2>3. CASE j \notin DOMAIN atts /\ k \in DOMAIN atts
    BY <1>2, <2>3
  <2>4. CASE j \notin DOMAIN atts /\ k \notin DOMAIN atts
    <3>1. j = k /\ j \in Nat
      <4>1. DOMAIN more = 1 .. Len(more)
        BY <1>2
      <4> QED BY <1>2, <2>4, <4>1
    <3> QED BY <3>1
  <2> QED BY <2>1, <2>2, <2>3, <2>4
<1> QED BY <1>5, <1>6, <1>7 DEF Fresh

\* The accepted rounds are then the trial's own, or those that were there.
LEMMA FirstTrialSession ==
    ASSUME NEW atts \in Seq(Attempts), Scientific(atts) = {}, NEW trial,
           NEW more, NEW i, EndsWithTrial(more, atts, i, trial)
    PROVE  OneSession(more)
<1>1. ASSUME NEW j \in Scientific(more)
      PROVE  more[j].request = i
  <2>1. j \in DOMAIN more \ DOMAIN atts
    BY DEF Scientific, EndsWithTrial
  <2> QED BY <2>1 DEF EndsWithTrial
<1> QED BY <1>1 DEF OneSession

LEMMA FailedTrialSession ==
    ASSUME NEW atts \in Seq(Attempts), OfOneSession(atts, requests),
           NEW trial \in PersistentTrials, trial[1] = "FAILED",
           NEW more, NEW i, EndsWithTrial(more, atts, i, trial)
    PROVE  OneSession(more)
<1>1. Len(trial) = 1
  BY RoundsOfTrial
<1>2. ASSUME NEW j \in Scientific(more)
      PROVE  j \in Scientific(atts) /\ more[j] = atts[j]
  <2>1. j \in DOMAIN more /\ more[j].outcome # "FAILED"
    BY DEF Scientific
  <2>2. j \in DOMAIN atts
    BY <1>1, <2>1 DEF EndsWithTrial
  <2> QED BY <2>2 DEF Scientific, EndsWithTrial
<1> QED BY <1>2 DEF OneSession, OfOneSession

\* A persistent trial of the open session that is not in the ledger yet.
Importable(i) ==
    /\ run.state \in Validating /\ Active
    /\ requests[i].protocol = "persistent"
    /\ requests[i].session = run.session.id /\ requests[i].revision = run.revision
    /\ \A k \in DOMAIN run.attempts : run.attempts[k].request # i
    /\ Scientific(run.attempts) = {} \/ requests[i].trial[1] = "FAILED"

\* When such a trial ends, its import is not refused: its rounds are fresh and in their
\* order after any failures that were recorded before, the accepted ones are of one
\* session and package, and the verdict they give is the Teacher's terminal action
\* (record_persistent_validation_session).  Linear requests have no such guarantee,
\* see IssuedRequestIsLegal.
TrialsImportable ==
    \A i \in DOMAIN requests : Importable(i) =>
        /\ Fresh(WithTrial(i)) /\ OneSession(WithTrial(i))
        /\ TerminalAgrees(WithTrial(i), requests[i].trial)

THEOREM TrialsCanBeImported == Spec => []TrialsImportable
<1>1. ASSUME Inv, EvidenceInv, NEW i \in DOMAIN requests, Importable(i)
      PROVE  /\ Fresh(WithTrial(i)) /\ OneSession(WithTrial(i))
             /\ TerminalAgrees(WithTrial(i), requests[i].trial)
  <2>1. /\ requests[i].trial \in PersistentTrials /\ run.attempts \in Seq(Attempts)
        /\ EndsWithTrial(WithTrial(i), run.attempts, i, requests[i].trial)
    BY <1>1, TrialsRounds, EvidenceType DEF Importable, Inv, RequestsOK
  <2>2. /\ IdentityFresh(run.attempts) /\ Ordered(run.attempts)
        /\ OfOneSession(run.attempts, requests)
        /\ \A j \in DOMAIN run.attempts :
               /\ run.attempts[j].outcome # "HIGH"
               /\ run.attempts[j].protocol = "persistent" => run.attempts[j].outcome = "FAILED"
    BY <1>1 DEF EvidenceInv, Evidence, Open, Importable, Recording
  <2>3. \A j \in Scientific(run.attempts) : run.attempts[j].protocol = "linear"
    <3>1. \A j \in DOMAIN run.attempts : run.attempts[j] \in Attempts
      BY <2>1
    <3> QED BY <2>2, <3>1, WorkflowAssumption DEF Scientific, Attempts
  <2>4. \A j \in DOMAIN run.attempts : run.attempts[j].request # i
    BY <1>1 DEF Importable
  <2>5. CASE requests[i].trial[1] = "FAILED"
    BY <2>1, <2>2, <2>3, <2>4, <2>5, FailedTrialFresh, TrialAgrees, FailedTrialSession
  <2>6. CASE requests[i].trial[1] # "FAILED"
    <3>1. Scientific(run.attempts) = {}
      BY <1>1, <2>6 DEF Importable
    <3> QED BY <2>1, <2>2, <2>6, <3>1, FirstTrialFresh, TrialAgrees, FirstTrialSession
  <2> QED BY <2>5, <2>6
<1>2. Inv /\ EvidenceInv => TrialsImportable
  BY <1>1 DEF TrialsImportable
<1> QED BY <1>2, InitInv, StepInv, EvidenceHolds, PTL DEF Spec
=============================================================================
