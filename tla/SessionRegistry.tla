--------------------------- MODULE SessionRegistry ---------------------------
(***************************************************************************)
(* validation-sessions.jsonl: the identity ledger that all sibling runs    *)
(* share (validation_session.py).  A reservation binds one revision of one *)
(* run to one validation session and one Researcher thread; a session is   *)
(* closed, never removed, so its identity cannot come back.                *)
(*                                                                         *)
(* reserve and close each run under one exclusive flock, so each is one    *)
(* action.  The frozen package of a revision is written once               *)
(* (launch.freeze_package_snapshot refuses other bytes), so the revision   *)
(* stands for the package digest in a record's identity.                   *)
(***************************************************************************)
EXTENDS Naturals

CONSTANTS
    Runs,           \* sibling runs
    Revisions,      \* revision identities; each run has its own use of them
    Sessions,       \* validation session identities
    Threads,        \* Researcher threads
    Unused          \* no record under this session identity yet

Closings == {"CLOSED_TOO_EASY", "CLOSED_VALIDATION_PASSED", "CLOSED_BLOCKED",
             "CLOSED_MIGRATED"}
Statuses == Closings \cup {"ACTIVE"}

ValidationSessionRecord ==
    [run : Runs, revision : Revisions, thread : Threads, status : Statuses]

ASSUME UnusedAssumption == Unused \notin ValidationSessionRecord

VARIABLE registry           \* session identity -> its latest record, or Unused

-----------------------------------------------------------------------------
Registered == {s \in Sessions : registry[s] # Unused}

RevisionTaken(run, revision) ==
    \E s \in Registered : /\ registry[s].run = run
                          /\ registry[s].revision = revision

\* A mutant for TLC: the thread of any session of the run may be reused.
ThreadFreeAfterAny(run, thread) ==
    \A s \in Registered :
        registry[s].thread = thread => registry[s].run = run

\* A thread may be handed on only within one run, and only away from sessions
\* that were migrated.
ThreadFree(run, thread) ==
    \A s \in Registered : registry[s].thread = thread =>
        /\ registry[s].run = run
        /\ registry[s].status = "CLOSED_MIGRATED"

NewRecord(run, revision, thread) ==
    [run |-> run, revision |-> revision, thread |-> thread, status |-> "ACTIVE"]

\* Repeating a reservation that is still open returns it and writes nothing.
Repeat(run, revision, session, thread) ==
    /\ registry[session] = NewRecord(run, revision, thread)
    /\ UNCHANGED registry

Register(run, revision, session, thread) ==
    /\ registry[session] = Unused
    /\ ~RevisionTaken(run, revision)
    /\ ThreadFree(run, thread)
    /\ registry' = [registry EXCEPT ![session] = NewRecord(run, revision, thread)]

Reserve(run, revision, session, thread) ==
    \/ Repeat(run, revision, session, thread)
    \/ Register(run, revision, session, thread)

\* close() answers a repeated closing, and refuses a different one.
MayClose(session, status) ==
    /\ registry[session] # Unused
    /\ registry[session].status \in {"ACTIVE", status}

Close(session, status) ==
    /\ MayClose(session, status)
    /\ registry' = [registry EXCEPT ![session].status = status]

-----------------------------------------------------------------------------
RegistryInit == registry = [s \in Sessions |-> Unused]

RegistryNext ==
    \E s \in Sessions :
        \/ \E run \in Runs, revision \in Revisions, thread \in Threads :
               Reserve(run, revision, s, thread)
        \/ \E status \in Closings : Close(s, status)

RegistrySpec == RegistryInit /\ [][RegistryNext]_registry

-----------------------------------------------------------------------------
RegistryTypeOK == registry \in [Sessions -> ValidationSessionRecord \cup {Unused}]

\* A revision of a run owns at most one validation session, whichever of its
\* callers reserved it and however often a reservation was repeated after a
\* crash (validation_session.py:74-77).
OneSessionPerRevision ==
    \A s, t \in Registered :
        /\ registry[s].run = registry[t].run
        /\ registry[s].revision = registry[t].revision
        => s = t

\* Two sessions of one Researcher thread belong to one run, and at most one of
\* them was not migrated: a thread never carries what it learned from a scored
\* session into another one, nor into another run (validation_session.py:80-87).
ThreadCarriesNothingOver ==
    \A s, t \in Registered :
        s # t /\ registry[s].thread = registry[t].thread =>
            /\ registry[s].run = registry[t].run
            /\ "CLOSED_MIGRATED" \in {registry[s].status, registry[t].status}

\* A record is never dropped or rebound, and a closed one never changes: an
\* identity that was once used stays used, with the verdict it was closed with.
IdentityIsPermanent ==
    [][\A s \in Registered :
           \/ registry'[s] = registry[s]
           \/ /\ registry[s].status = "ACTIVE"
              /\ \E status \in Closings :
                     registry'[s] = [registry[s] EXCEPT !.status = status]]_registry
=============================================================================
