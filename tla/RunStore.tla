------------------------------ MODULE RunStore ------------------------------
(***************************************************************************)
(* The run directory of one question (store.py): an append-only journal    *)
(* events.jsonl, a materialised snapshot state.json and an advisory lock   *)
(* run.lock.  Any process of the host may initialize the run, read it or   *)
(* commit an operation to it.  Only commit takes the lock: read_snapshot,  *)
(* which every caller runs first and which repairs the snapshot file when  *)
(* the journal is one entry ahead, does not.  A step is one access to a    *)
(* file that other processes can see.                                      *)
(*                                                                         *)
(* A snapshot is abstracted to the sequence of idempotency keys it is the  *)
(* result of; RunSnapshot.sequence is its length, as RunStore.advance      *)
(* builds it.                                                              *)
(***************************************************************************)
EXTENDS Naturals, Sequences

CONSTANTS Proc,        \* processes that open the run directory
          Initializers, \* those of them that may also initialize the run
          Key,         \* idempotency keys
          Payload,     \* event type and payload of an operation
          None,        \* absent file, free lock, nothing held
          TornWrites,  \* TRUE when a crash may leave half a journal line
          MaxCrashes   \* bound on the number of crashes explored

ASSUME NoneAssumption == /\ None \notin Seq(Key)
                         /\ None \notin Proc
                         /\ None \notin [key : Key, payload : Payload, next : Seq(Key)]
ASSUME BoundAssumption == TornWrites \in BOOLEAN /\ MaxCrashes \in Nat

VARIABLES
  journal,   \* events.jsonl: entries [key, payload, next], next = _next_snapshot
  torn,      \* the journal ends in a line that does not parse
  file,      \* state.json, or None
  lock,      \* holder of run.lock, or None
  pc,        \* where each process is inside RunStore
  task,      \* which call the process is in
  req,       \* the operation the process wants to commit
  snap,      \* the snapshot a process holds in memory
  outcome,   \* how the last call of the process ended
  acked,     \* history: operations commit reported as done
  seen,      \* history: sequence of the last snapshot given to each process
  crashes    \* crashes so far

vars == <<journal, torn, file, lock, pc, task, req, snap, outcome, acked, seen, crashes>>

Snapshot == Seq(Key)
Entry    == [key : Key, payload : Payload, next : Snapshot]
Task     == {"read", "initialize", "confirmAbsent", "plan", "commit"}
Location == {"idle", "readFile", "readJournal", "recoverCheck", "recoverReplace",
             "acquire", "decide", "writeCheck", "writeReplace", "initReplace"}
Outcome  == {"none", "ok", "conflict", "error", "crashed"}

Last(s)        == s[Len(s)]
OperationOf(e) == [key |-> e.key, payload |-> e.payload]
Recorded(k)    == \E i \in 1..Len(journal) : journal[i].key = k

-----------------------------------------------------------------------------
Init == /\ journal = <<>> /\ torn = FALSE /\ file = None /\ lock = None
        /\ pc = [p \in Proc |-> "idle"]
        /\ task = [p \in Proc |-> "read"]
        /\ req = [p \in Proc |-> None]
        /\ snap = [p \in Proc |-> None]
        /\ outcome = [p \in Proc |-> "none"]
        /\ acked = {} /\ seen = [p \in Proc |-> 0] /\ crashes = 0

\* The call of p ends, normally or by an exception; leaving the with-block
\* releases the lock.
Finish(p, how) ==
  /\ pc' = [pc EXCEPT ![p] = "idle"]
  /\ task' = [task EXCEPT ![p] = "read"]
  /\ req' = [req EXCEPT ![p] = None]
  /\ snap' = [snap EXCEPT ![p] = None]
  /\ outcome' = [outcome EXCEPT ![p] = how]
  /\ lock' = IF lock = p THEN None ELSE lock

Goto(p, l) == pc' = [pc EXCEPT ![p] = l]

\* A process calls read_snapshot, initialize, or a workflow operation, which
\* reads the run before it builds the next snapshot.
Start(p, t, r) ==
  /\ pc[p] = "idle"
  /\ Goto(p, "readFile")
  /\ task' = [task EXCEPT ![p] = t]
  /\ req' = [req EXCEPT ![p] = r]
  /\ outcome' = [outcome EXCEPT ![p] = "none"]
  /\ UNCHANGED <<journal, torn, file, lock, snap, acked, seen, crashes>>

StartRead(p) == Start(p, "read", None)
StartInitialize(p) == p \in Initializers /\ Start(p, "initialize", None)
StartOperation(p) == \E k \in Key, v \in Payload :
  Start(p, "plan", [key |-> k, payload |-> v, next |-> <<>>])

-----------------------------------------------------------------------------
(* read_snapshot                                                           *)

ReadFile(p) ==
  /\ pc[p] = "readFile"
  /\ snap' = [snap EXCEPT ![p] = file]
  /\ Goto(p, "readJournal")
  /\ UNCHANGED <<journal, torn, file, lock, task, req, outcome, acked, seen, crashes>>

\* What the caller does with the snapshot s that read_snapshot returned to p.
Deliver(p, s) ==
  \/ /\ \/ task[p] = "read"
        \/ task[p] = "initialize" /\ s # None
     /\ Finish(p, "ok")
     /\ seen' = IF s = None THEN seen ELSE [seen EXCEPT ![p] = Len(s)]
     /\ UNCHANGED <<journal, torn, acked, crashes>>
  \/ /\ task[p] = "initialize" /\ s = None
     /\ Goto(p, "readFile")
     /\ task' = [task EXCEPT ![p] = "confirmAbsent"]
     /\ UNCHANGED <<journal, torn, lock, req, snap, outcome, acked, seen, crashes>>
  \/ /\ task[p] = "confirmAbsent" /\ s = None
     /\ Goto(p, "initReplace")
     /\ UNCHANGED <<journal, torn, lock, task, req, snap, outcome, acked, seen, crashes>>
  \/ /\ task[p] = "confirmAbsent" /\ s # None
     /\ Finish(p, "conflict")
     /\ UNCHANGED <<journal, torn, acked, seen, crashes>>
  \/ /\ task[p] \in {"plan", "commit"} /\ s = None
     /\ Finish(p, "error")
     /\ UNCHANGED <<journal, torn, acked, seen, crashes>>
  \/ /\ task[p] = "plan" /\ s # None
     /\ req' = [req EXCEPT ![p].next = Append(s, req[p].key)]
     /\ snap' = [snap EXCEPT ![p] = None]
     /\ seen' = [seen EXCEPT ![p] = Len(s)]
     /\ Goto(p, "acquire")
     /\ UNCHANGED <<journal, torn, lock, task, outcome, acked, crashes>>
  \/ /\ task[p] = "commit" /\ s # None
     /\ snap' = [snap EXCEPT ![p] = s]
     /\ Goto(p, "decide")
     /\ UNCHANGED <<journal, torn, lock, task, req, outcome, acked, seen, crashes>>

SameSequence(s) == s # None /\ Len(s) = Len(journal)
OneBehind(s) == Len(journal) = (IF s = None THEN 0 ELSE Len(s)) + 1

\* The journal is empty or agrees with the snapshot file: return it.
ReadAgreeing(p) ==
  /\ pc[p] = "readJournal"
  /\ ~torn
  /\ journal = <<>> \/ SameSequence(snap[p])
  /\ Deliver(p, snap[p])
  /\ UNCHANGED file

ReadLaggingInMemory(p) ==
  /\ pc[p] = "readJournal"
  /\ ~torn
  /\ journal # <<>> /\ ~SameSequence(snap[p]) /\ OneBehind(snap[p])
  /\ Deliver(p, Last(journal).next)
  /\ UNCHANGED file

\* The journal is one entry ahead: recover the snapshot of its last entry.
ReadLagging(p) ==
  /\ pc[p] = "readJournal"
  /\ ~torn
  /\ journal # <<>> /\ ~SameSequence(snap[p]) /\ OneBehind(snap[p])
  /\ snap' = [snap EXCEPT ![p] = Last(journal).next]
  /\ Goto(p, "recoverCheck")
  /\ UNCHANGED <<journal, torn, file, lock, task, req, outcome, acked, seen, crashes>>

\* Any other difference, or a line that does not parse, is an exception.
ReadUnreconcilable(p) ==
  /\ pc[p] = "readJournal"
  /\ \/ torn
     \/ journal # <<>> /\ ~SameSequence(snap[p]) /\ ~OneBehind(snap[p])
  /\ Finish(p, "error")
  /\ UNCHANGED <<journal, torn, file, acked, seen, crashes>>

\* _write_snapshot(recover=False), first half: compare the file's sequence.
FileHasSequence(n) == file # None /\ Len(file) = n

RecoverCheckOffByOne(p) ==
  /\ pc[p] = "recoverCheck"
  /\ IF FileHasSequence(Len(snap[p]))
     THEN Goto(p, "recoverReplace") /\ UNCHANGED <<lock, task, req, snap, outcome>>
     ELSE Finish(p, "conflict")
  /\ UNCHANGED <<journal, torn, file, acked, seen, crashes>>

RecoverCheck(p) ==
  /\ pc[p] = "recoverCheck"
  /\ \/ /\ FileHasSequence(Len(snap[p]) - 1)
        /\ Goto(p, "recoverReplace")
        /\ UNCHANGED <<lock, task, req, snap, outcome>>
     \/ /\ ~FileHasSequence(Len(snap[p]) - 1)
        /\ Finish(p, "conflict")
  /\ UNCHANGED <<journal, torn, file, acked, seen, crashes>>

\* Second half: os.replace, without a lock unless a commit is reading.
RecoverReplace(p) ==
  /\ pc[p] = "recoverReplace"
  /\ file' = snap[p]
  /\ Deliver(p, snap[p])

InitReplace(p) ==
  /\ pc[p] = "initReplace"
  /\ file' = <<>>
  /\ Finish(p, "ok")
  /\ seen' = [seen EXCEPT ![p] = 0]
  /\ UNCHANGED <<journal, torn, acked, crashes>>

-----------------------------------------------------------------------------
(* commit                                                                  *)

Acquire(p) ==
  /\ pc[p] = "acquire"
  /\ lock = None
  /\ lock' = p
  /\ task' = [task EXCEPT ![p] = "commit"]
  /\ Goto(p, "readFile")
  /\ UNCHANGED <<journal, torn, file, req, snap, outcome, acked, seen, crashes>>

Op(p) == OperationOf(req[p])

ReplayAnyPayload(p) ==
  /\ pc[p] = "decide"
  /\ ~torn /\ Recorded(req[p].key)
  /\ Finish(p, "ok")
  /\ acked' = acked \cup {Op(p)}
  /\ seen' = [seen EXCEPT ![p] = Len(snap[p])]
  /\ UNCHANGED <<journal, torn, file, crashes>>

\* The key is known: same operation returns its event and the current
\* snapshot, another operation under the same key is refused.
Replay(p) ==
  /\ pc[p] = "decide"
  /\ ~torn /\ Recorded(req[p].key)
  /\ IF \E i \in 1..Len(journal) : journal[i].key = req[p].key /\ journal[i].payload = req[p].payload
     THEN /\ Finish(p, "ok")
          /\ acked' = acked \cup {Op(p)}
          /\ seen' = [seen EXCEPT ![p] = Len(snap[p])]
     ELSE /\ Finish(p, "error")
          /\ UNCHANGED <<acked, seen>>
  /\ UNCHANGED <<journal, torn, file, crashes>>

\* The caller planned from an older snapshot.
RejectStale(p) ==
  /\ pc[p] = "decide"
  /\ ~torn /\ ~Recorded(req[p].key)
  /\ Len(req[p].next) # Len(snap[p]) + 1
  /\ Finish(p, "conflict")
  /\ UNCHANGED <<journal, torn, file, acked, seen, crashes>>

MayAppend(p) ==
  /\ pc[p] = "decide"
  /\ ~torn /\ ~Recorded(req[p].key)
  /\ Len(req[p].next) = Len(snap[p]) + 1

AppendEvent(p) ==
  /\ MayAppend(p)
  /\ journal' = Append(journal, req[p])
  /\ Goto(p, "writeCheck")
  /\ UNCHANGED <<torn, file, lock, task, req, snap, outcome, acked, seen, crashes>>

\* The snapshot file must still have the sequence commit started from.
WriteCheck(p) ==
  /\ pc[p] = "writeCheck"
  /\ \/ /\ FileHasSequence(Len(snap[p]))
        /\ Goto(p, "writeReplace")
        /\ UNCHANGED <<lock, task, req, snap, outcome>>
     \/ /\ ~FileHasSequence(Len(snap[p]))
        /\ Finish(p, "conflict")
  /\ UNCHANGED <<journal, torn, file, acked, seen, crashes>>

WriteReplace(p) ==
  /\ pc[p] = "writeReplace"
  /\ file' = req[p].next
  /\ Finish(p, "ok")
  /\ acked' = acked \cup {Op(p)}
  /\ seen' = [seen EXCEPT ![p] = Len(req[p].next)]
  /\ UNCHANGED <<journal, torn, crashes>>

-----------------------------------------------------------------------------
(* A process dies between two steps; the kernel drops its flock.           *)
Crash(p) ==
  /\ pc[p] # "idle"
  /\ crashes < MaxCrashes
  /\ crashes' = crashes + 1
  /\ Finish(p, "crashed")
  /\ torn' \in IF TornWrites /\ MayAppend(p) THEN BOOLEAN ELSE {torn}
  /\ UNCHANGED <<journal, file, acked, seen>>

Step(p) == \/ ReadFile(p) \/ ReadAgreeing(p) \/ ReadLagging(p) \/ ReadUnreconcilable(p)
           \/ RecoverCheck(p) \/ RecoverReplace(p) \/ InitReplace(p)
           \/ Acquire(p) \/ Replay(p) \/ RejectStale(p)
           \/ AppendEvent(p) \/ WriteCheck(p) \/ WriteReplace(p)

Next == \E p \in Proc : \/ StartRead(p) \/ StartInitialize(p) \/ StartOperation(p)
                        \/ Step(p) \/ Crash(p)

Spec == Init /\ [][Next]_vars

\* A process that is inside a call is scheduled again, and somebody opens the run
\* again: the supervisor's loop does whenever it starts a session or records one, and
\* so does every later command on the run.
Fairness == \A p \in Proc : WF_vars(Step(p)) /\ WF_vars(StartRead(p))

FairSpec == Spec /\ Fairness

-----------------------------------------------------------------------------
(* Properties                                                              *)

KeysOf(n) == [i \in 1..n |-> journal[i].key]

\* A snapshot that is the result of the first Len(s) journal entries.
Faithful(s) == Len(s) <= Len(journal) /\ s = KeysOf(Len(s))

InCommit(p) == task[p] = "commit"

TypeOK ==
  /\ journal \in Seq(Entry) /\ torn \in BOOLEAN
  /\ file \in Snapshot \cup {None} /\ lock \in Proc \cup {None}
  /\ pc \in [Proc -> Location] /\ task \in [Proc -> Task]
  /\ req \in [Proc -> Entry \cup {None}]
  /\ snap \in [Proc -> Snapshot \cup {None}]
  /\ outcome \in [Proc -> Outcome]
  /\ acked \subseteq [key : Key, payload : Payload]
  /\ seen \in [Proc -> Nat] /\ crashes \in Nat

\* No lost update (commit's "CAS", store.py:102): the snapshot recorded with
\* entry i is the result of exactly the entries 1..i, so no operation was
\* planned from a state that another operation had already replaced.
JournalLinear == \A i \in 1..Len(journal) : journal[i].next = KeysOf(i)

\* An idempotency key takes effect at most once, over retries, concurrent
\* callers and crashes (store.py:115-120).
KeysUnique == \A i, j \in 1..Len(journal) : journal[i].key = journal[j].key => i = j

\* Whoever replaced state.json last, under the lock or not, the file is a
\* state the journal went through, never a mixture or a lost branch.
FileFaithful == file # None => Faithful(file)

\* The journal never runs two entries ahead of the snapshot file, so the
\* snapshot can be rebuilt by read_snapshot (store.py:24, "the snapshot can
\* be rebuilt"); holds while one process at a time uses the run.
Rebuildable == journal = <<>> \/ (file # None /\ Len(journal) <= Len(file) + 1)

\* After a crash between the append and the replace, the snapshot file
\* catches up with the journal (store.py:43, "replay the one entry written
\* ahead before a crash").
LagRepaired ==
  (journal # <<>> /\ file # KeysOf(Len(journal))) ~> (file = KeysOf(Len(journal)))

\* SequenceConflict is raised to a caller that would overwrite a newer
\* snapshot (store.py:17-18): its operation did not take effect.
ConflictMeansNotApplied ==
  [][\A p \in Proc : InCommit(p) /\ outcome'[p] = "conflict" /\ pc[p] # "idle"
        => Last(journal) # req[p]]_vars

\* read_snapshot never fails on a run that clients only used through this
\* class (store.py:1, "crash recovery and process concurrency"): the journal
\* parses and is reconciled with the snapshot file.
ReadsNeverFail ==
  [][\A p \in Proc : pc[p] = "readJournal" /\ task[p] = "read"
        => outcome'[p] # "error"]_vars

\* The operations of the journal, in order, are the promised log (RunLog).
LogView == [i \in 1..Len(journal) |-> OperationOf(journal[i])]

Log == INSTANCE RunLog WITH log <- LogView

LogSpec == Log!Spec
=============================================================================
