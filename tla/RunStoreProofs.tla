--------------------------- MODULE RunStoreProofs ---------------------------
(***************************************************************************)
(* What RunStore guarantees for any number of processes, keys, crashes and *)
(* any interleaving of locked commits with unlocked, repairing readers.    *)
(***************************************************************************)
EXTENDS RunStore, SequenceTheorems, TLAPS

\* The request was planned from a state the journal went through.
Planned(r) == \E n \in 0..Len(journal) : r.next = Append(KeysOf(n), r.key)

\* What a process knows at each point of a call.
Local(p) ==
  /\ snap[p] # None => Faithful(snap[p]) /\ file # None
  /\ task[p] \in {"plan", "commit"} => req[p] # None
  /\ pc[p] = "acquire" => task[p] = "plan" /\ Planned(req[p])
  /\ task[p] = "commit" => lock = p /\ Planned(req[p])
  /\ pc[p] \in {"recoverCheck", "recoverReplace"} =>
       /\ snap[p] # None /\ seen[p] <= Len(snap[p])
       /\ task[p] = "commit" => Len(snap[p]) = Len(journal)
  /\ pc[p] = "decide" =>
       /\ task[p] = "commit" /\ snap[p] # None /\ Len(snap[p]) = Len(journal)
  /\ pc[p] \in {"writeCheck", "writeReplace"} =>
       /\ task[p] = "commit" /\ journal # <<>> /\ Last(journal) = req[p]
  /\ pc[p] = "initReplace" => seen[p] = 0 /\ task[p] = "confirmAbsent"
  /\ (pc[p] = "readJournal" /\ snap[p] = None) => seen[p] = 0

Acknowledged == \A a \in acked : \E i \in 1..Len(journal) : OperationOf(journal[i]) = a

SeenBounded == \A p \in Proc : seen[p] <= Len(journal) /\ (file = None => seen[p] = 0)

JournalNeedsFile == journal # <<>> => file # None

IInv == /\ TypeOK /\ JournalLinear /\ KeysUnique /\ FileFaithful
        /\ Acknowledged /\ SeenBounded /\ JournalNeedsFile
        /\ \A p \in Proc : Local(p)

-----------------------------------------------------------------------------
\* The parts of the invariant that only the journal decides.
JournalInv == JournalLinear /\ KeysUnique

\* Nothing that process q relies on changed, while another process moved.
Undisturbed(q) ==
  /\ pc'[q] = pc[q] /\ task'[q] = task[q] /\ req'[q] = req[q]
  /\ snap'[q] = snap[q] /\ seen'[q] = seen[q]
  /\ lock = q => lock' = q
  /\ file # None => file' # None

\* A process that another process's step leaves alone keeps its knowledge.
LEMMA OtherLocal ==
  ASSUME IInv, NEW q \in Proc, Undisturbed(q), journal' = journal
  PROVE  Local(q)'
<1>1. Local(q)
  BY DEF IInv
<1>2. \A s : Faithful(s)' <=> Faithful(s)
  BY DEF Faithful, KeysOf
<1>3. \A r : Planned(r)' <=> Planned(r)
  BY DEF Planned, KeysOf
<1> QED
  BY <1>1, <1>2, <1>3 DEF Undisturbed, Local

\* Steps that leave the journal alone keep its order and its keys.
LEMMA JournalFrame ==
  ASSUME JournalInv, journal' = journal
  PROVE  JournalInv'
BY DEF JournalInv, JournalLinear, KeysUnique, KeysOf

\* An append does not change the snapshots of earlier sequences.
LEMMA AppendKeeps ==
  ASSUME journal \in Seq(Entry), NEW e \in Entry, journal' = Append(journal, e)
  PROVE  /\ Len(journal') = Len(journal) + 1
         /\ \A i \in 1..Len(journal) : journal'[i] = journal[i]
         /\ journal'[Len(journal')] = e
         /\ \A n \in 0..Len(journal) : KeysOf(n)' = KeysOf(n)
         /\ KeysOf(Len(journal))' = Append(KeysOf(Len(journal)), e.key)
<1>1. /\ Len(journal') = Len(journal) + 1
      /\ \A i \in 1..Len(journal) : journal'[i] = journal[i]
      /\ journal'[Len(journal')] = e
  OBVIOUS
<1>2. \A n \in 0..Len(journal) : KeysOf(n)' = KeysOf(n)
  BY <1>1 DEF KeysOf
<1>3. \A n \in 0..Len(journal) : KeysOf(n) \in Seq(Key) /\ Len(KeysOf(n)) = n
  <2> TAKE n \in 0..Len(journal)
  <2>1. n \in Nat /\ \A i \in 1..n : journal[i].key \in Key
    <3>1. Len(journal) \in Nat
      BY LenProperties
    <3>2. \A i \in 1..n : journal[i] \in Entry
      BY <3>1, ElementOfSeq
    <3> QED
      BY <3>1, <3>2 DEF Entry
  <2>2. KeysOf(n) \in [1..n -> Key]
    BY <2>1 DEF KeysOf
  <2>3. KeysOf(n) \in Seq(Key)
    BY <2>1, <2>2, SeqDef
  <2> QED
    BY <2>1, <2>2, <2>3, LenProperties
<1>4. KeysOf(Len(journal))' = Append(KeysOf(Len(journal)), e.key)
  <2> DEFINE n == Len(journal)
  <2>1. KeysOf(n) = [i \in 1..n |-> journal[i].key]
    BY DEF KeysOf
  <2>2. Append(KeysOf(n), e.key) = [i \in 1..(n + 1) |-> IF i \in 1..n THEN journal[i].key ELSE e.key]
    BY <2>1, <1>3 DEF Entry
  <2>3. KeysOf(Len(journal))' = [i \in 1..(n + 1) |-> journal'[i].key]
    BY <1>1 DEF KeysOf
  <2> QED
    BY <2>2, <2>3, <1>1
<1> QED
  BY <1>1, <1>2, <1>4

\* A step of p that leaves the journal alone preserves the invariant when p's
\* own knowledge, the file and the histories stay right.
LEMMA QuietStep ==
  ASSUME IInv, NEW p \in Proc, journal' = journal, TypeOK', Local(p)',
         \A q \in Proc \ {p} : Undisturbed(q),
         file # None => file' # None,
         FileFaithful', Acknowledged', SeenBounded'
  PROVE  IInv'
<1>1. JournalLinear' /\ KeysUnique'
  BY JournalFrame DEF JournalInv, IInv
<1>2. JournalNeedsFile'
  BY DEF JournalNeedsFile, IInv
<1>3. \A q \in Proc : Local(q)'
  BY OtherLocal
<1> QED
  BY <1>1, <1>2, <1>3 DEF IInv

\* A call that ends forgets what its process knew and disturbs nobody.
LEMMA FinishFrame ==
  ASSUME TypeOK, NEW p \in Proc, NEW how \in Outcome, Finish(p, how)
  PROVE  /\ pc' \in [Proc -> Location] /\ task' \in [Proc -> Task]
         /\ req' \in [Proc -> Entry \cup {None}]
         /\ snap' \in [Proc -> Snapshot \cup {None}]
         /\ outcome' \in [Proc -> Outcome] /\ lock' \in Proc \cup {None}
         /\ Local(p)'
         /\ \A q \in Proc \ {p} :
              /\ pc'[q] = pc[q] /\ task'[q] = task[q] /\ req'[q] = req[q]
              /\ snap'[q] = snap[q] /\ (lock = q => lock' = q)
<1>1. /\ pc' \in [Proc -> Location] /\ task' \in [Proc -> Task]
      /\ req' \in [Proc -> Entry \cup {None}]
      /\ snap' \in [Proc -> Snapshot \cup {None}]
      /\ outcome' \in [Proc -> Outcome] /\ lock' \in Proc \cup {None}
  BY DEF Finish, TypeOK, Location, Task
<1>2. pc'[p] = "idle" /\ task'[p] = "read" /\ snap'[p] = None
  BY DEF Finish, TypeOK
<1>3. Local(p)'
  BY <1>2 DEF Local
<1>4. ASSUME NEW q \in Proc \ {p}
      PROVE  /\ pc'[q] = pc[q] /\ task'[q] = task[q] /\ req'[q] = req[q]
             /\ snap'[q] = snap[q] /\ (lock = q => lock' = q)
  BY DEF Finish, TypeOK
<1> QED
  BY <1>1, <1>3, <1>4

\* A call that ends without touching the files or the histories.
LEMMA FinishStep ==
  ASSUME IInv, NEW p \in Proc, NEW how \in Outcome, Finish(p, how),
         UNCHANGED <<journal, file, acked, seen>>, torn' \in BOOLEAN, crashes' \in Nat
  PROVE  IInv'
<1>1. TypeOK'
  BY FinishFrame DEF IInv, TypeOK
<1>2. Local(p)'
  BY FinishFrame DEF IInv
<1>3. \A q \in Proc \ {p} : Undisturbed(q)
  BY FinishFrame DEF IInv, Undisturbed
<1>4. FileFaithful' /\ Acknowledged' /\ SeenBounded'
  BY DEF IInv, FileFaithful, Faithful, KeysOf, Acknowledged, SeenBounded
<1> QED
  BY <1>1, <1>2, <1>3, <1>4, QuietStep

\* Whatever the caller does with the snapshot s it is given, provided that s
\* is a state of the journal no older than what p has seen and, inside a
\* commit, the newest one.
LEMMA DeliverStep ==
  ASSUME IInv, NEW p \in Proc, NEW s \in Snapshot \cup {None}, Deliver(p, s),
         file' \in Snapshot \cup {None}, FileFaithful', file # None => file' # None,
         s # None => Faithful(s) /\ file' # None /\ seen[p] <= Len(s),
         s = None => seen[p] = 0 /\ snap[p] = None,
         task[p] = "commit" /\ s # None => Len(s) = Len(journal)
  PROVE  IInv'
<1> USE DEF IInv
<1>1. journal' = journal /\ torn' = torn /\ acked' = acked /\ crashes' = crashes
  BY DEF Deliver
<1>2. Acknowledged'
  BY <1>1 DEF Acknowledged
<1>3. CASE Finish(p, "ok") /\ seen' = IF s = None THEN seen ELSE [seen EXCEPT ![p] = Len(s)]
  <2>1. seen' \in [Proc -> Nat] /\ SeenBounded'
    BY <1>1, <1>3 DEF TypeOK, Faithful, SeenBounded, Snapshot
  <2>2. TypeOK'
    BY <1>1, <1>3, <2>1, FinishFrame DEF TypeOK, Outcome
  <2>3. Local(p)' /\ \A q \in Proc \ {p} : Undisturbed(q)
    BY <1>3, FinishFrame DEF Outcome, Undisturbed, TypeOK
  <2> QED
    BY <1>1, <1>2, <2>1, <2>2, <2>3, QuietStep
<1>4. CASE \E how \in Outcome : Finish(p, how) /\ seen' = seen
  <2>1. SeenBounded'
    BY <1>1, <1>4 DEF SeenBounded
  <2>2. TypeOK'
    BY <1>1, <1>4, FinishFrame DEF TypeOK
  <2>3. Local(p)' /\ \A q \in Proc \ {p} : Undisturbed(q)
    BY <1>4, FinishFrame DEF Undisturbed
  <2> QED
    BY <1>1, <1>2, <2>1, <2>2, <2>3, QuietStep
<1>5. CASE /\ task[p] = "initialize" /\ s = None
           /\ Goto(p, "readFile")
           /\ task' = [task EXCEPT ![p] = "confirmAbsent"]
           /\ UNCHANGED <<lock, req, snap, outcome, seen>>
  <2>1. TypeOK' /\ SeenBounded'
    BY <1>1, <1>5 DEF TypeOK, Goto, Location, Task, SeenBounded
  <2>2. Local(p)'
    BY <1>1, <1>5 DEF Local, TypeOK, Goto
  <2>3. \A q \in Proc \ {p} : Undisturbed(q)
    BY <1>5 DEF Undisturbed, TypeOK, Goto
  <2> QED
    BY <1>1, <1>2, <2>1, <2>2, <2>3, QuietStep
<1>6. CASE /\ task[p] = "confirmAbsent" /\ s = None
           /\ Goto(p, "initReplace")
           /\ UNCHANGED <<lock, task, req, snap, outcome, seen>>
  <2>1. TypeOK' /\ SeenBounded'
    BY <1>1, <1>6 DEF TypeOK, Goto, Location, Task, SeenBounded
  <2>2. Local(p)'
    BY <1>1, <1>6 DEF Local, TypeOK, Goto
  <2>3. \A q \in Proc \ {p} : Undisturbed(q)
    BY <1>6 DEF Undisturbed, TypeOK, Goto
  <2> QED
    BY <1>1, <1>2, <2>1, <2>2, <2>3, QuietStep
<1>7. CASE /\ task[p] = "plan" /\ s # None
           /\ req' = [req EXCEPT ![p].next = Append(s, req[p].key)]
           /\ snap' = [snap EXCEPT ![p] = None]
           /\ seen' = [seen EXCEPT ![p] = Len(s)]
           /\ Goto(p, "acquire")
           /\ UNCHANGED <<lock, task, outcome>>
  <2>1. req[p] \in Entry
    BY <1>7 DEF Local, TypeOK
  <2>2. /\ req'[p] \in Entry /\ req'[p].next = Append(s, req'[p].key)
        /\ req' \in [Proc -> Entry \cup {None}]
    <3> DEFINE r == [req[p] EXCEPT !.next = Append(s, req[p].key)]
    <3>1. req' = [req EXCEPT ![p] = r]
      BY <1>7
    <3>2. req[p].key \in Key /\ s \in Seq(Key)
      BY <1>7, <2>1 DEF Entry, Snapshot
    <3>3. Append(s, req[p].key) \in Seq(Key)
      BY <3>2, AppendProperties
    <3>4. r \in Entry /\ r.next = Append(s, r.key)
      BY <2>1, <3>3 DEF Entry, Snapshot
    <3> QED
      BY <3>1, <3>4 DEF TypeOK
  <2>3. Len(s) \in 0..Len(journal) /\ s = KeysOf(Len(s))
    BY <1>7 DEF Faithful, Snapshot, TypeOK
  <2>4. TypeOK' /\ SeenBounded'
    BY <1>1, <1>7, <2>2, <2>3 DEF TypeOK, Goto, Location, Task, SeenBounded
  <2>5. Planned(req'[p])
    BY <2>2, <2>3 DEF Planned
  <2>6. Planned(req[p])'
    BY <1>1, <2>5 DEF Planned, KeysOf
  <2>7. req'[p] # None
    BY <2>2, NoneAssumption DEF Entry, Snapshot
  <2>8. Local(p)'
    BY <1>1, <1>7, <2>6, <2>7 DEF Local, TypeOK, Goto
  <2>9. \A q \in Proc \ {p} : Undisturbed(q)
    BY <1>7 DEF Undisturbed, TypeOK, Goto
  <2> QED
    BY <1>1, <1>2, <2>4, <2>8, <2>9, QuietStep
<1>8. CASE /\ task[p] = "commit" /\ s # None
           /\ snap' = [snap EXCEPT ![p] = s]
           /\ Goto(p, "decide")
           /\ UNCHANGED <<lock, task, req, outcome, seen>>
  <2>1. TypeOK' /\ SeenBounded'
    BY <1>1, <1>8 DEF TypeOK, Goto, Location, Task, SeenBounded
  <2>2. Faithful(s)' /\ (Planned(req[p]) => Planned(req[p])')
    BY <1>1, <1>8 DEF Faithful, KeysOf, Planned
  <2>3. Local(p)'
    BY <1>1, <1>8, <2>2 DEF Local, TypeOK, Goto
  <2>4. \A q \in Proc \ {p} : Undisturbed(q)
    BY <1>8 DEF Undisturbed, TypeOK, Goto
  <2> QED
    BY <1>1, <1>2, <2>1, <2>3, <2>4, QuietStep
<1> QED
  BY <1>3, <1>4, <1>5, <1>6, <1>7, <1>8 DEF Deliver, Outcome

-----------------------------------------------------------------------------
\* The start of a call.
LEMMA StartStep ==
  ASSUME IInv, NEW p \in Proc, NEW t \in Task, NEW r \in Entry \cup {None},
         t \in {"read", "initialize"} \/ (t = "plan" /\ r \in Entry), Start(p, t, r)
  PROVE  IInv'
<1> USE DEF IInv
<1>1. TypeOK'
  BY DEF TypeOK, Start, Goto, Location, Outcome
<1>2. r \in Entry => r # None
  BY NoneAssumption DEF Entry, Snapshot
<1>3. Local(p)'
  BY <1>2 DEF Local, Start, Goto, TypeOK, Faithful, KeysOf
<1>4. \A q \in Proc \ {p} : Undisturbed(q)
  BY DEF Undisturbed, Start, Goto, TypeOK
<1>5. FileFaithful' /\ Acknowledged' /\ SeenBounded'
  BY DEF Start, FileFaithful, Faithful, KeysOf, Acknowledged, SeenBounded
<1>6. journal' = journal /\ file' = file
  BY DEF Start
<1> QED
  BY <1>1, <1>3, <1>4, <1>5, <1>6, QuietStep

\* The recorded next snapshot of the last entry is the newest state.
LEMMA LastIsNewest ==
  ASSUME IInv, journal # <<>>
  PROVE  /\ Last(journal).next \in Snapshot
         /\ Faithful(Last(journal).next)
         /\ Len(Last(journal).next) = Len(journal)
<1>1. Len(journal) \in 1..Len(journal) /\ Last(journal) \in Entry
  BY LenProperties, EmptySeq, ElementOfSeq DEF IInv, TypeOK, Last
<1>2. Last(journal).next = KeysOf(Len(journal)) /\ Last(journal).next \in Seq(Key)
  BY <1>1 DEF IInv, JournalLinear, Last, Entry, Snapshot
<1>3. Len(KeysOf(Len(journal))) = Len(journal)
  BY <1>1, <1>2, LenProperties DEF KeysOf
<1> QED
  BY <1>1, <1>2, <1>3 DEF Faithful, Snapshot

LEMMA ReadFileStep ==
  ASSUME IInv, NEW p \in Proc, ReadFile(p)
  PROVE  IInv'
<1> USE DEF IInv
<1>1. TypeOK'
  BY DEF TypeOK, ReadFile, Goto, Location
<1>2. Local(p)'
  BY DEF Local, ReadFile, Goto, TypeOK, Faithful, KeysOf, FileFaithful, SeenBounded, Planned
<1>3. \A q \in Proc \ {p} : Undisturbed(q)
  BY DEF Undisturbed, ReadFile, Goto, TypeOK
<1>4. FileFaithful' /\ Acknowledged' /\ SeenBounded'
  BY DEF ReadFile, FileFaithful, Faithful, KeysOf, Acknowledged, SeenBounded
<1>5. journal' = journal /\ file' = file
  BY DEF ReadFile
<1> QED
  BY <1>1, <1>2, <1>3, <1>4, <1>5, QuietStep

LEMMA ReadAgreeingStep ==
  ASSUME IInv, NEW p \in Proc, ReadAgreeing(p)
  PROVE  IInv'
<1> USE DEF IInv
<1>1. /\ snap[p] \in Snapshot \cup {None} /\ Deliver(p, snap[p])
      /\ file' = file /\ file \in Snapshot \cup {None} /\ FileFaithful'
  BY DEF ReadAgreeing, TypeOK, Deliver, FileFaithful, Faithful, KeysOf
<1>2. snap[p] # None => /\ Faithful(snap[p]) /\ file # None
                       /\ Len(snap[p]) = Len(journal) /\ seen[p] <= Len(snap[p])
  <2>1. snap[p] # None => Len(snap[p]) = Len(journal)
    BY EmptySeq DEF ReadAgreeing, SameSequence, Local, Faithful, TypeOK, Snapshot
  <2> QED
    BY <2>1 DEF Local, SeenBounded
<1>3. snap[p] = None => seen[p] = 0
  BY DEF Local, ReadAgreeing
<1> QED
  BY <1>1, <1>2, <1>3, DeliverStep

LEMMA ReadLaggingStep ==
  ASSUME IInv, NEW p \in Proc, ReadLagging(p)
  PROVE  IInv'
<1> USE DEF IInv
<1> DEFINE s == Last(journal).next
<1>1. s \in Snapshot /\ Faithful(s) /\ Len(s) = Len(journal) /\ journal # <<>>
  BY LastIsNewest DEF ReadLagging
<1>2. s # None /\ file # None /\ seen[p] <= Len(s)
  BY <1>1, NoneAssumption DEF Snapshot, JournalNeedsFile, SeenBounded
<1>3. TypeOK'
  BY <1>1 DEF TypeOK, ReadLagging, Goto, Location
<1>4. Faithful(s)' /\ (Planned(req[p]) => Planned(req[p])')
  BY <1>1 DEF ReadLagging, Faithful, KeysOf, Planned
<1>5. Local(p)'
  BY <1>1, <1>2, <1>4 DEF Local, ReadLagging, Goto, TypeOK
<1>6. \A q \in Proc \ {p} : Undisturbed(q)
  BY DEF Undisturbed, ReadLagging, Goto, TypeOK
<1>7. FileFaithful' /\ Acknowledged' /\ SeenBounded' /\ journal' = journal /\ file' = file
  BY DEF ReadLagging, FileFaithful, Faithful, KeysOf, Acknowledged, SeenBounded
<1> QED
  BY <1>3, <1>5, <1>6, <1>7, QuietStep

LEMMA RecoverCheckStep ==
  ASSUME IInv, NEW p \in Proc, RecoverCheck(p)
  PROVE  IInv'
<1> USE DEF IInv
<1>1. CASE Finish(p, "conflict")
  BY <1>1, FinishStep DEF RecoverCheck, Outcome, TypeOK
<1>2. CASE Goto(p, "recoverReplace") /\ UNCHANGED <<lock, task, req, snap, outcome>>
  <2>1. TypeOK'
    BY <1>2 DEF TypeOK, RecoverCheck, Goto, Location
  <2>2. Local(p)'
    BY <1>2 DEF Local, RecoverCheck, Goto, TypeOK, Faithful, KeysOf, Planned
  <2>3. \A q \in Proc \ {p} : Undisturbed(q)
    BY <1>2 DEF Undisturbed, RecoverCheck, Goto, TypeOK
  <2>4. FileFaithful' /\ Acknowledged' /\ SeenBounded' /\ journal' = journal /\ file' = file
    BY DEF RecoverCheck, FileFaithful, Faithful, KeysOf, Acknowledged, SeenBounded
  <2> QED
    BY <2>1, <2>2, <2>3, <2>4, QuietStep
<1> QED
  BY <1>1, <1>2 DEF RecoverCheck

\* The unlocked replace may install an old state, never a foreign one.
LEMMA RecoverReplaceStep ==
  ASSUME IInv, NEW p \in Proc, RecoverReplace(p)
  PROVE  IInv'
<1> USE DEF IInv
<1>1. snap[p] \in Snapshot /\ Faithful(snap[p]) /\ snap[p] # None /\ seen[p] <= Len(snap[p])
  BY DEF RecoverReplace, Local, TypeOK
<1>2. file' = snap[p] /\ Deliver(p, snap[p]) /\ journal' = journal
  BY DEF RecoverReplace, Deliver
<1>3. FileFaithful'
  BY <1>1, <1>2 DEF FileFaithful, Faithful, KeysOf
<1>4. task[p] = "commit" => Len(snap[p]) = Len(journal)
  BY DEF RecoverReplace, Local
<1> QED
  BY <1>1, <1>2, <1>3, <1>4, DeliverStep

LEMMA InitReplaceStep ==
  ASSUME IInv, NEW p \in Proc, InitReplace(p)
  PROVE  IInv'
<1> USE DEF IInv
<1>1. Finish(p, "ok") /\ "ok" \in Outcome /\ seen[p] = 0
  BY DEF InitReplace, Outcome, Local
<1>2. seen' = seen
  BY <1>1 DEF InitReplace, TypeOK
<1>3. file' = <<>> /\ <<>> \in Snapshot /\ Len(<<>>) = 0 /\ <<>> # None
  BY NoneAssumption, EmptySeq DEF InitReplace, Snapshot
<1>4. KeysOf(0) = <<>>
  <2>1. KeysOf(0) \in [1..0 -> Key]
    BY DEF KeysOf
  <2>2. KeysOf(0) \in Seq(Key)
    BY <2>1, SeqDef
  <2> QED
    BY <2>1, <2>2, LenProperties, EmptySeq DEF KeysOf
<1>5. FileFaithful'
  BY <1>3, <1>4 DEF FileFaithful, Faithful, KeysOf, InitReplace, TypeOK
<1>6. TypeOK'
  BY <1>1, <1>2, <1>3, FinishFrame DEF InitReplace, TypeOK
<1>7. Local(p)' /\ \A q \in Proc \ {p} : Undisturbed(q)
  BY <1>1, <1>2, <1>3, FinishFrame DEF Undisturbed
<1>8. Acknowledged' /\ SeenBounded' /\ journal' = journal
  BY <1>2, <1>3 DEF InitReplace, Acknowledged, SeenBounded
<1> QED
  BY <1>3, <1>5, <1>6, <1>7, <1>8, QuietStep

LEMMA AcquireStep ==
  ASSUME IInv, NEW p \in Proc, Acquire(p)
  PROVE  IInv'
<1> USE DEF IInv
<1>1. TypeOK'
  BY DEF TypeOK, Acquire, Goto, Location, Task
<1>2. Planned(req[p])'
  BY DEF Local, Acquire, Planned, KeysOf
<1>3. Local(p)'
  BY <1>2 DEF Local, Acquire, Goto, TypeOK, Faithful, KeysOf
<1>4. \A q \in Proc \ {p} : Undisturbed(q)
  BY NoneAssumption DEF Undisturbed, Acquire, Goto, TypeOK
<1>5. FileFaithful' /\ Acknowledged' /\ SeenBounded' /\ journal' = journal /\ file' = file
  BY DEF Acquire, FileFaithful, Faithful, KeysOf, Acknowledged, SeenBounded
<1> QED
  BY <1>1, <1>3, <1>4, <1>5, QuietStep

\* A call that ends by acknowledging p's operation, which the journal holds.
LEMMA AcknowledgeStep ==
  ASSUME IInv, NEW p \in Proc, Finish(p, "ok"), NEW n \in 0..Len(journal),
         req[p] \in Entry, \E i \in 1..Len(journal) : OperationOf(journal[i]) = Op(p),
         acked' = acked \cup {Op(p)}, seen' = [seen EXCEPT ![p] = n],
         UNCHANGED <<journal, torn, crashes>>,
         file' \in Snapshot \cup {None}, FileFaithful', file' # None
  PROVE  IInv'
<1> USE DEF IInv
<1>1. Op(p) \in [key : Key, payload : Payload] /\ "ok" \in Outcome
  BY DEF Op, OperationOf, Entry, Outcome
<1>2. TypeOK'
  BY <1>1, FinishFrame DEF TypeOK
<1>3. Local(p)' /\ \A q \in Proc \ {p} : Undisturbed(q)
  BY <1>1, FinishFrame DEF Undisturbed, TypeOK
<1>4. Acknowledged' /\ SeenBounded'
  BY DEF Acknowledged, SeenBounded, TypeOK
<1> QED
  BY <1>2, <1>3, <1>4, QuietStep

LEMMA ReplayStep ==
  ASSUME IInv, NEW p \in Proc, Replay(p)
  PROVE  IInv'
<1> USE DEF IInv
<1>1. CASE Finish(p, "error") /\ UNCHANGED <<acked, seen>>
  BY <1>1, FinishStep DEF Replay, Outcome, TypeOK
<1>2. CASE /\ \E i \in 1..Len(journal) :
                  journal[i].key = req[p].key /\ journal[i].payload = req[p].payload
           /\ Finish(p, "ok")
           /\ acked' = acked \cup {Op(p)}
           /\ seen' = [seen EXCEPT ![p] = Len(snap[p])]
  <2>1. req[p] \in Entry /\ Len(snap[p]) \in 0..Len(journal) /\ file # None
    BY LenProperties DEF Replay, Local, TypeOK
  <2>2. \E i \in 1..Len(journal) : OperationOf(journal[i]) = Op(p)
    BY <1>2 DEF Op, OperationOf
  <2>3. UNCHANGED <<journal, torn, file, crashes>> /\ FileFaithful'
    BY DEF Replay, FileFaithful, Faithful, KeysOf
  <2> QED
    BY <1>2, <2>1, <2>2, <2>3, AcknowledgeStep DEF TypeOK
<1> QED
  BY <1>1, <1>2 DEF Replay

LEMMA RejectStaleStep ==
  ASSUME IInv, NEW p \in Proc, RejectStale(p)
  PROVE  IInv'
BY FinishStep DEF IInv, RejectStale, Outcome, TypeOK

LEMMA WriteCheckStep ==
  ASSUME IInv, NEW p \in Proc, WriteCheck(p)
  PROVE  IInv'
<1> USE DEF IInv
<1>1. CASE Finish(p, "conflict")
  BY <1>1, FinishStep DEF WriteCheck, Outcome, TypeOK
<1>2. CASE Goto(p, "writeReplace") /\ UNCHANGED <<lock, task, req, snap, outcome>>
  <2>1. TypeOK'
    BY <1>2 DEF TypeOK, WriteCheck, Goto, Location
  <2>2. Local(p)'
    BY <1>2 DEF Local, WriteCheck, Goto, TypeOK, Faithful, KeysOf, Planned, Last
  <2>3. \A q \in Proc \ {p} : Undisturbed(q)
    BY <1>2 DEF Undisturbed, WriteCheck, Goto, TypeOK
  <2>4. FileFaithful' /\ Acknowledged' /\ SeenBounded' /\ journal' = journal /\ file' = file
    BY DEF WriteCheck, FileFaithful, Faithful, KeysOf, Acknowledged, SeenBounded
  <2> QED
    BY <2>1, <2>2, <2>3, <2>4, QuietStep
<1> QED
  BY <1>1, <1>2 DEF WriteCheck

LEMMA WriteReplaceStep ==
  ASSUME IInv, NEW p \in Proc, WriteReplace(p)
  PROVE  IInv'
<1> USE DEF IInv
<1>1. journal # <<>> /\ Last(journal) = req[p] /\ req[p] # None /\ req[p] \in Entry
  BY DEF WriteReplace, Local, TypeOK
<1>2. /\ req[p].next \in Snapshot /\ Faithful(req[p].next)
      /\ Len(req[p].next) = Len(journal)
  BY <1>1, LastIsNewest
<1>3. /\ file' = req[p].next /\ file' # None /\ UNCHANGED <<journal, torn, crashes>>
      /\ FileFaithful'
  BY <1>2, NoneAssumption DEF WriteReplace, FileFaithful, Faithful, KeysOf, Snapshot
<1>4. \E i \in 1..Len(journal) : OperationOf(journal[i]) = Op(p)
  <2>1. Len(journal) \in 1..Len(journal)
    BY <1>1, LenProperties, EmptySeq DEF TypeOK
  <2> QED
    BY <1>1, <2>1 DEF Op, Last
<1>5. Len(req[p].next) \in 0..Len(journal)
  BY <1>2, LenProperties DEF TypeOK
<1> QED
  BY <1>1, <1>2, <1>3, <1>4, <1>5, AcknowledgeStep DEF WriteReplace

LEMMA CrashStep ==
  ASSUME IInv, NEW p \in Proc, Crash(p)
  PROVE  IInv'
<1>1. torn' \in BOOLEAN /\ crashes' \in Nat
  BY DEF IInv, TypeOK, Crash
<1> QED
  BY <1>1, FinishStep DEF Crash, Outcome

\* The append: the new entry extends the newest state, under the lock.
LEMMA AppendEventStep ==
  ASSUME IInv, NEW p \in Proc, AppendEvent(p)
  PROVE  IInv'
<1> USE DEF IInv
<1> DEFINE n == Len(journal)
<1> HIDE DEF n
<1>1. /\ task[p] = "commit" /\ lock = p /\ req[p] \in Entry
      /\ Len(snap[p]) = n /\ Len(req[p].next) = n + 1 /\ snap[p] # None /\ file # None
      /\ n \in Nat
  BY LenProperties DEF AppendEvent, MayAppend, Local, TypeOK, n
<1>2. /\ journal' = Append(journal, req[p]) /\ ~Recorded(req[p].key)
      /\ Goto(p, "writeCheck")
      /\ UNCHANGED <<torn, file, lock, task, req, snap, outcome, acked, seen, crashes>>
  BY DEF AppendEvent, MayAppend
<1>3. /\ Len(journal') = n + 1
      /\ \A i \in 1..n : journal'[i] = journal[i]
      /\ journal'[n + 1] = req[p]
      /\ \A m \in 0..n : KeysOf(m)' = KeysOf(m)
      /\ KeysOf(Len(journal))' = Append(KeysOf(n), req[p].key)
  BY <1>1, <1>2, AppendKeeps DEF TypeOK, n
<1>4. req[p].next = Append(KeysOf(n), req[p].key)
  <2>1. PICK m \in 0..n : req[p].next = Append(KeysOf(m), req[p].key)
    BY <1>1 DEF Local, Planned, n
  <2>2. KeysOf(m) \in Seq(Key) /\ Len(KeysOf(m)) = m /\ req[p].key \in Key
    <3>1. m \in Nat /\ \A i \in 1..m : journal[i] \in Entry
      BY <1>1, ElementOfSeq DEF TypeOK, n
    <3>2. KeysOf(m) \in [1..m -> Key]
      BY <3>1 DEF KeysOf, Entry
    <3>3. KeysOf(m) \in Seq(Key)
      BY <3>1, <3>2, SeqDef
    <3> QED
      BY <1>1, <3>1, <3>2, <3>3, LenProperties DEF Entry
  <2>3. Len(req[p].next) = m + 1
    BY <2>1, <2>2, AppendProperties
  <2> QED
    BY <1>1, <2>1, <2>3
<1>5. JournalLinear'
  <2> SUFFICES ASSUME NEW i \in 1..(n + 1)
               PROVE  journal'[i].next = KeysOf(i)'
    BY <1>3 DEF JournalLinear
  <2>1. CASE i \in 1..n
    BY <1>1, <1>3, <2>1 DEF JournalLinear, n
  <2>2. CASE i = n + 1
    BY <1>3, <1>4, <2>2 DEF KeysOf
  <2> QED
    BY <1>1, <2>1, <2>2
<1>6. KeysUnique'
  BY <1>1, <1>2, <1>3 DEF KeysUnique, Recorded, n
<1>7. \A s : Faithful(s) /\ Len(s) \in Nat => Faithful(s)'
  BY <1>1, <1>3 DEF Faithful, n
<1>8. FileFaithful'
  BY <1>1, <1>2, <1>7, LenProperties DEF FileFaithful, TypeOK, Snapshot
<1>9. Acknowledged' /\ SeenBounded' /\ JournalNeedsFile'
  BY <1>1, <1>2, <1>3 DEF Acknowledged, SeenBounded, JournalNeedsFile, TypeOK, n
<1>10. TypeOK'
  BY <1>1, <1>2, AppendProperties DEF TypeOK, Goto, Location
<1>11. \A r : Planned(r) => Planned(r)'
  BY <1>1, <1>3 DEF Planned, n
<1>12. \A q \in Proc : snap[q] # None => Faithful(snap[q])'
  <2> TAKE q \in Proc
  <2> HAVE snap[q] # None
  <2>1. Faithful(snap[q]) /\ Len(snap[q]) \in Nat /\ snap'[q] = snap[q]
    BY <1>2, LenProperties DEF Local, TypeOK, Snapshot
  <2>2. KeysOf(Len(snap[q]))' = KeysOf(Len(snap[q]))
    BY <1>1, <1>2, <1>3, <2>1 DEF Faithful, KeysOf, n
  <2> QED
    BY <1>1, <1>3, <2>1, <2>2 DEF Faithful, n
<1>13. Local(p)'
  <2>1. Last(journal)' = req'[p] /\ journal' # <<>>
    <3>1. journal' # <<>>
      BY <1>1, <1>3, Len(<<>>) = 0
    <3>2. Last(journal)' = journal'[n + 1]
      BY <1>3 DEF Last
    <3> QED
      BY <1>2, <1>3, <3>1, <3>2
  <2> QED
    BY <1>1, <1>2, <1>11, <1>12, <2>1 DEF Local, TypeOK, Goto
<1>14. ASSUME NEW q \in Proc \ {p}
       PROVE  Local(q)'
  <2>1. task[q] # "commit"
    BY <1>1 DEF Local
  <2> QED
    BY <1>2, <1>11, <1>12, <2>1 DEF Local, TypeOK, Goto
<1> QED
  BY <1>5, <1>6, <1>8, <1>9, <1>10, <1>13, <1>14

-----------------------------------------------------------------------------
LEMMA InitIInv == Init => IInv
<1> SUFFICES ASSUME Init
             PROVE  IInv
  OBVIOUS
<1>1. TypeOK
  BY NoneAssumption, EmptySeq DEF Init, TypeOK, Location, Task, Outcome
<1>2. Len(journal) = 0
  BY EmptySeq DEF Init
<1>3. JournalLinear /\ KeysUnique /\ FileFaithful /\ Acknowledged /\ SeenBounded /\ JournalNeedsFile
  BY <1>2 DEF Init, JournalLinear, KeysUnique, FileFaithful, Acknowledged, SeenBounded,
              JournalNeedsFile
<1>4. \A p \in Proc : Local(p)
  BY DEF Init, Local
<1> QED
  BY <1>1, <1>3, <1>4 DEF IInv

LEMMA NextIInv == IInv /\ [Next]_vars => IInv'
<1> SUFFICES ASSUME IInv, [Next]_vars
             PROVE  IInv'
  OBVIOUS
<1>1. CASE UNCHANGED vars
  BY <1>1 DEF vars, IInv, TypeOK, JournalLinear, KeysUnique, FileFaithful, Faithful, KeysOf,
              Acknowledged, SeenBounded, JournalNeedsFile, Local, Planned, Last
<1>2. ASSUME NEW p \in Proc, StartRead(p) \/ StartInitialize(p) \/ StartOperation(p)
      PROVE  IInv'
  <2>1. CASE StartRead(p)
    BY <2>1, StartStep DEF StartRead, Task
  <2>2. CASE StartInitialize(p)
    BY <2>2, StartStep DEF StartInitialize, Task
  <2>3. CASE StartOperation(p)
    <3>1. PICK k \in Key, v \in Payload :
            Start(p, "plan", [key |-> k, payload |-> v, next |-> <<>>])
      BY <2>3 DEF StartOperation
    <3>2. [key |-> k, payload |-> v, next |-> <<>>] \in Entry
      BY EmptySeq DEF Entry, Snapshot
    <3> QED
      BY <3>1, <3>2, StartStep DEF Task
  <2> QED
    BY <1>2, <2>1, <2>2, <2>3
<1>3. ASSUME NEW p \in Proc, Step(p)
      PROVE  IInv'
  <2>1. CASE ReadUnreconcilable(p)
    BY <2>1, FinishStep DEF ReadUnreconcilable, Outcome, IInv, TypeOK
  <2> QED
    BY <1>3, <2>1, ReadFileStep, ReadAgreeingStep, ReadLaggingStep, RecoverCheckStep,
       RecoverReplaceStep, InitReplaceStep, AcquireStep, ReplayStep, RejectStaleStep,
       AppendEventStep, WriteCheckStep, WriteReplaceStep DEF Step
<1> QED
  BY <1>1, <1>2, <1>3, CrashStep DEF Next

\* Every reachable state satisfies the inductive invariant.
THEOREM Invariance == Spec => []IInv
BY InitIInv, NextIInv, PTL DEF Spec

\* The state always has its type (RunStore's files, locks and call frames).
THEOREM TypeCorrect == Spec => []TypeOK
BY Invariance, PTL DEF IInv

\* No update is lost in the journal (the CAS of store.py:102-148), even with
\* readers that rewrite the snapshot file without the lock.
THEOREM NoLostUpdate == Spec => []JournalLinear
BY Invariance, PTL DEF IInv

\* An idempotency key takes effect at most once (store.py:115-120).
THEOREM ExactlyOnce == Spec => []KeysUnique
BY Invariance, PTL DEF IInv

\* state.json is always a state that the journal went through, whoever
\* replaced it last and whichever process died.
THEOREM SnapshotFaithful == Spec => []FileFaithful
BY Invariance, PTL DEF IInv

-----------------------------------------------------------------------------
(* One process at a time.                                                  *)

Alone == \A p, q \in Proc : p = q

\* Without others the file is what the process saw of it, and the newest state
\* when it decides.
Undiverted(p) ==
  /\ pc[p] = "readJournal" => snap[p] = file
  /\ pc[p] \in {"recoverCheck", "recoverReplace"} => Len(snap[p]) = Len(journal)
  /\ pc[p] = "initReplace" => file = None
  /\ pc[p] = "decide" => file # None /\ Len(file) = Len(journal)

SoloInv == Rebuildable /\ \A p \in Proc : Undiverted(p)

\* A call that ends, or the start of one, diverts nobody.
LEMMA SoloQuiet ==
  ASSUME Alone, IInv, SoloInv, NEW p \in Proc,
         pc' = [pc EXCEPT ![p] = "idle"] \/ pc' = [pc EXCEPT ![p] = "readFile"]
             \/ pc' = [pc EXCEPT ![p] = "acquire"],
         UNCHANGED <<journal, file>>
  PROVE  SoloInv'
<1>1. Rebuildable'
  BY DEF SoloInv, Rebuildable
<1>2. \A q \in Proc : q = p
  BY DEF Alone
<1>3. pc'[p] \in {"idle", "readFile", "acquire"}
  BY DEF IInv, TypeOK
<1>4. Undiverted(p)'
  BY <1>3 DEF Undiverted
<1> QED
  BY <1>1, <1>2, <1>4 DEF SoloInv

\* A snapshot that is given to p agrees with the file when p goes on from it.
LEMMA SoloDeliver ==
  ASSUME Alone, IInv, SoloInv, NEW p \in Proc, NEW s, Deliver(p, s), Rebuildable',
         s = None => file' = None,
         s # None /\ task[p] = "commit" => file' # None /\ Len(file') = Len(journal)
  PROVE  SoloInv'
<1>1. \A q \in Proc : q = p
  BY DEF Alone
<1>2. journal' = journal
  BY DEF Deliver
<1>3. \/ pc'[p] \in {"idle", "readFile", "acquire"}
      \/ pc'[p] = "initReplace" /\ s = None
      \/ pc'[p] = "decide" /\ s # None /\ task[p] = "commit"
  <2>1. pc \in [Proc -> Location] /\ task[p] \in Task
    BY DEF IInv, TypeOK
  <2> QED
    BY <2>1 DEF Deliver, Finish, Goto, Task
<1>4. Undiverted(p)'
  BY <1>2, <1>3 DEF Undiverted
<1> QED
  BY <1>1, <1>4 DEF SoloInv

LEMMA SoloStep ==
  ASSUME Alone, IInv, SoloInv, NEW p \in Proc, Step(p)
  PROVE  SoloInv'
<1>1. /\ Rebuildable /\ Undiverted(p) /\ Local(p) /\ TypeOK /\ FileFaithful
      /\ JournalNeedsFile /\ pc \in [Proc -> Location]
      /\ snap \in [Proc -> Snapshot \cup {None}]
      /\ file \in Snapshot \cup {None} /\ Len(journal) \in Nat
      /\ journal = <<>> => Len(journal) = 0
  BY LenProperties, EmptySeq DEF SoloInv, IInv, TypeOK
<1>2. \A q \in Proc : q = p
  BY DEF Alone
<1>3. file # None => Len(file) \in Nat /\ Len(file) <= Len(journal)
  BY <1>1, LenProperties DEF FileFaithful, Faithful, Snapshot
<1>4. CASE ReadFile(p)
  BY <1>1, <1>2, <1>4 DEF ReadFile, Goto, SoloInv, Undiverted, Rebuildable
<1>5. CASE ReadAgreeing(p)
  <2>1. snap[p] = file /\ UNCHANGED <<journal, file>> /\ Deliver(p, snap[p])
    BY <1>1, <1>5 DEF ReadAgreeing, Undiverted, Deliver
  <2>2. file # None => Len(file) = Len(journal)
    BY <1>1, <1>3, <1>5, <2>1 DEF ReadAgreeing, SameSequence
  <2>3. Rebuildable'
    BY <1>1, <2>1 DEF Rebuildable
  <2> QED
    BY <2>1, <2>2, <2>3, SoloDeliver
<1>6. CASE ReadLagging(p)
  <2>1. Len(Last(journal).next) = Len(journal)
    BY <1>6, LastIsNewest DEF ReadLagging
  <2> QED
    BY <1>1, <1>2, <1>6, <2>1 DEF ReadLagging, Goto, SoloInv, Undiverted, Rebuildable
<1>7. CASE ReadUnreconcilable(p)
  BY <1>7, SoloQuiet DEF ReadUnreconcilable, Finish
<1>8. CASE RecoverCheck(p)
  <2>1. CASE Goto(p, "recoverReplace") /\ UNCHANGED snap
    BY <1>1, <1>2, <1>8, <2>1 DEF RecoverCheck, Goto, SoloInv, Undiverted, Rebuildable
  <2>2. CASE Finish(p, "conflict")
    BY <1>8, <2>2, SoloQuiet DEF RecoverCheck, Finish
  <2> QED
    BY <1>8, <2>1, <2>2 DEF RecoverCheck
<1>9. CASE RecoverReplace(p)
  <2>1. /\ file' = snap[p] /\ journal' = journal /\ Deliver(p, snap[p])
        /\ snap[p] # None /\ Len(snap[p]) = Len(journal)
    BY <1>1, <1>9 DEF RecoverReplace, Deliver, Local, Undiverted
  <2>2. Rebuildable'
    BY <1>1, <2>1 DEF Rebuildable
  <2> QED
    BY <2>1, <2>2, SoloDeliver
<1>10. CASE InitReplace(p)
  <2>1. file = None /\ journal = <<>> /\ journal' = journal /\ pc'[p] = "idle"
    BY <1>1, <1>10 DEF InitReplace, Finish, Undiverted, JournalNeedsFile
  <2> QED
    BY <1>2, <2>1 DEF SoloInv, Undiverted, Rebuildable
<1>11. CASE Acquire(p)
  BY <1>11, SoloQuiet DEF Acquire, Goto
<1>12. CASE Replay(p)
  BY <1>12, SoloQuiet DEF Replay, Finish
<1>13. CASE RejectStale(p)
  BY <1>13, SoloQuiet DEF RejectStale, Finish
<1>14. CASE AppendEvent(p)
  <2>1. /\ file # None /\ Len(file) = Len(journal) /\ file' = file
        /\ journal' = Append(journal, req[p]) /\ pc'[p] = "writeCheck"
        /\ req[p] \in Entry /\ journal \in Seq(Entry)
    BY <1>1, <1>14 DEF AppendEvent, MayAppend, Goto, Undiverted, Local, TypeOK
  <2>2. Len(journal') = Len(journal) + 1
    BY <2>1, AppendProperties
  <2> QED
    BY <1>1, <1>2, <2>1, <2>2 DEF SoloInv, Undiverted, Rebuildable
<1>15. CASE WriteCheck(p)
  <2>1. CASE Goto(p, "writeReplace") /\ UNCHANGED snap
    BY <1>1, <1>2, <1>15, <2>1 DEF WriteCheck, Goto, SoloInv, Undiverted, Rebuildable
  <2>2. CASE Finish(p, "conflict")
    BY <1>15, <2>2, SoloQuiet DEF WriteCheck, Finish
  <2> QED
    BY <1>15, <2>1, <2>2 DEF WriteCheck
<1>16. CASE WriteReplace(p)
  <2>1. /\ journal # <<>> /\ Last(journal) = req[p]
        /\ file' = req[p].next /\ journal' = journal /\ pc'[p] = "idle"
    BY <1>1, <1>16 DEF WriteReplace, Finish, Local
  <2>2. Len(file') = Len(journal) /\ file' # None
    BY <2>1, LastIsNewest, NoneAssumption DEF Snapshot
  <2> QED
    BY <1>1, <1>2, <2>1, <2>2 DEF SoloInv, Undiverted, Rebuildable
<1> QED
  BY <1>4, <1>5, <1>6, <1>7, <1>8, <1>9, <1>10, <1>11, <1>12, <1>13, <1>14, <1>15,
     <1>16 DEF Step

LEMMA SoloNext ==
  ASSUME Alone, IInv, SoloInv, [Next]_vars
  PROVE  SoloInv'
<1>1. CASE UNCHANGED vars
  BY <1>1 DEF vars, SoloInv, Rebuildable, Undiverted
<1>2. ASSUME NEW p \in Proc, StartRead(p) \/ StartInitialize(p) \/ StartOperation(p)
      PROVE  SoloInv'
  BY <1>2, SoloQuiet DEF StartRead, StartInitialize, StartOperation, Start, Goto
<1>3. ASSUME NEW p \in Proc, Crash(p)
      PROVE  SoloInv'
  BY <1>3, SoloQuiet DEF Crash, Finish
<1> QED
  BY <1>1, <1>2, <1>3, SoloStep DEF Next

\* While one process at a time uses the run, however often it is killed, the journal
\* is at most one entry ahead of the snapshot file (read_snapshot, commit).
THEOREM SoloRebuildable ==
  ASSUME Alone
  PROVE  Spec => []Rebuildable
<1>1. Init => SoloInv
  BY DEF Init, SoloInv, Rebuildable, Undiverted
<1>2. IInv /\ SoloInv /\ [Next]_vars => SoloInv'
  BY SoloNext
<1>3. SoloInv => Rebuildable
  BY DEF SoloInv
<1> QED
  BY <1>1, <1>2, <1>3, Invariance, PTL DEF Spec

-----------------------------------------------------------------------------
(* RunStore implements RunLog.                                             *)

LEMMA LogViewType ==
  ASSUME TypeOK
  PROVE  /\ Len(LogView) = Len(journal) /\ Len(journal) \in Nat
         /\ \A i \in 1..Len(journal) :
              LogView[i] = OperationOf(journal[i]) /\ journal[i] \in Entry
         /\ LogView \in Seq(Log!Operation)
<1>1. Len(journal) \in Nat /\ \A i \in 1..Len(journal) : journal[i] \in Entry
  BY LenProperties, ElementOfSeq DEF TypeOK
<1>2. \A i \in 1..Len(journal) : OperationOf(journal[i]) \in Log!Operation
  BY <1>1 DEF OperationOf, Entry, Log!Operation
<1>3. LogView \in [1..Len(journal) -> Log!Operation]
  BY <1>2 DEF LogView
<1>4. LogView \in Seq(Log!Operation)
  BY <1>1, <1>3, SeqDef
<1> QED
  BY <1>1, <1>3, <1>4, LenProperties DEF LogView

\* Steps that change neither the journal nor the histories stutter.
LEMMA Stutters ==
  ASSUME journal' = journal, acked' = acked, seen' = seen
  PROVE  UNCHANGED Log!vars
BY DEF Log!vars, LogView, OperationOf

LEMMA ObserveStep ==
  ASSUME IInv, NEW p \in Proc, NEW n \in seen[p]..Len(journal),
         seen' = [seen EXCEPT ![p] = n], journal' = journal, acked' = acked
  PROVE  Log!Next
<1>1. Len(LogView) = Len(journal) /\ n \in 0..Len(journal)
  BY LogViewType DEF IInv, TypeOK
<1>2. LogView' = LogView
  BY DEF LogView, OperationOf
<1>3. Log!Observe(p, n)
  BY <1>1, <1>2 DEF Log!Observe
<1> QED
  BY <1>1, <1>3 DEF Log!Next

LEMMA AcknowledgeRefines ==
  ASSUME IInv, NEW p \in Proc, NEW n \in seen[p]..Len(journal), req[p] \in Entry,
         \E i \in 1..Len(journal) : OperationOf(journal[i]) = Op(p),
         seen' = [seen EXCEPT ![p] = n], journal' = journal, acked' = acked \cup {Op(p)}
  PROVE  Log!Next
<1>1. Len(LogView) = Len(journal) /\ n \in 0..Len(journal)
  BY LogViewType DEF IInv, TypeOK
<1>2. LogView' = LogView
  BY DEF LogView, OperationOf
<1>3. Op(p) \in Log!Operation
  BY DEF Op, OperationOf, Entry, Log!Operation
<1>4. Log!InLog(Op(p))
  BY <1>1, LogViewType DEF Log!InLog, IInv
<1>5. Log!Acknowledge(p, Op(p), n)
  BY <1>1, <1>2, <1>4 DEF Log!Acknowledge
<1> QED
  BY <1>1, <1>3, <1>5 DEF Log!Next

LEMMA AppendRefines ==
  ASSUME IInv, NEW p \in Proc, AppendEvent(p)
  PROVE  Log!Next
<1> USE DEF IInv
<1>1. req[p] \in Entry /\ journal' = Append(journal, req[p]) /\ ~Recorded(req[p].key)
  BY DEF AppendEvent, MayAppend, Local, TypeOK
<1>2. UNCHANGED <<acked, seen>>
  BY DEF AppendEvent
<1>3. Op(p) \in Log!Operation
  BY <1>1 DEF Op, OperationOf, Entry, Log!Operation
<1>4. \A i \in 1..Len(LogView) : LogView[i].key # Op(p).key
  <2> SUFFICES ASSUME NEW i \in 1..Len(LogView)
               PROVE  LogView[i].key # Op(p).key
    OBVIOUS
  <2>1. i \in 1..Len(journal) /\ LogView[i] = OperationOf(journal[i])
    BY LogViewType
  <2>2. LogView[i].key = journal[i].key /\ Op(p).key = req[p].key
    BY <2>1 DEF OperationOf, Op
  <2> QED
    BY <1>1, <2>1, <2>2 DEF Recorded
<1>5. LogView' = Append(LogView, Op(p))
  <2> DEFINE n == Len(journal)
  <2>1. /\ n \in Nat /\ Len(journal') = n + 1 /\ journal'[n + 1] = req[p]
        /\ \A i \in 1..n : journal'[i] = journal[i]
    BY <1>1, LogViewType, AppendProperties DEF TypeOK
  <2>2. LogView' = [i \in 1..(n + 1) |-> OperationOf(journal'[i])]
    BY <2>1 DEF LogView, OperationOf
  <2>3. /\ LogView \in Seq(Log!Operation) /\ Len(LogView) = n
        /\ \A i \in 1..n : LogView[i] = OperationOf(journal'[i])
    BY <2>1, LogViewType
  <2>4. /\ Append(LogView, Op(p)) \in Seq(Log!Operation)
        /\ Len(Append(LogView, Op(p))) = n + 1
        /\ \A i \in 1..n : Append(LogView, Op(p))[i] = LogView[i]
        /\ Append(LogView, Op(p))[n + 1] = Op(p)
    BY <1>3, <2>3, AppendProperties
  <2> HIDE DEF n
  <2>5. \A i \in 1..(n + 1) : LogView'[i] = Append(LogView, Op(p))[i]
    BY <2>1, <2>2, <2>3, <2>4 DEF Op
  <2>6. LogView' \in Seq(Log!Operation) /\ Len(LogView') = n + 1
    <3>1. \A i \in 1..(n + 1) : LogView'[i] \in Log!Operation
      BY <2>1, <2>4, <2>5, ElementOfSeq
    <3>2. LogView' \in [1..(n + 1) -> Log!Operation]
      BY <2>2, <3>1
    <3> QED
      BY <2>1, <3>2, SeqDef, LenProperties
  <2> QED
    BY <2>4, <2>5, <2>6, SeqEqual
<1>6. Log!Apply(Op(p))
  BY <1>2, <1>4, <1>5 DEF Log!Apply
<1> QED
  BY <1>3, <1>6 DEF Log!Next

\* Delivering a snapshot is an observation of the log, or nothing.
LEMMA DeliverRefines ==
  ASSUME IInv, NEW p \in Proc, NEW s \in Snapshot \cup {None}, Deliver(p, s),
         s # None => Len(s) \in seen[p]..Len(journal)
  PROVE  Log!Next \/ UNCHANGED Log!vars
<1>1. journal' = journal /\ acked' = acked
  BY DEF Deliver
<1>2. seen' = seen \/ (s # None /\ seen' = [seen EXCEPT ![p] = Len(s)])
  BY DEF Deliver
<1> QED
  BY <1>1, <1>2, ObserveStep, Stutters

LEMMA StepRefines ==
  ASSUME IInv, NEW p \in Proc, Step(p)
  PROVE  Log!Next \/ UNCHANGED Log!vars
<1> USE DEF IInv
<1>1. CASE ReadFile(p) \/ ReadLagging(p) \/ ReadUnreconcilable(p) \/ RecoverCheck(p)
           \/ Acquire(p) \/ RejectStale(p) \/ WriteCheck(p)
  BY <1>1, Stutters DEF ReadFile, ReadLagging, ReadUnreconcilable, RecoverCheck, Acquire,
                        RejectStale, WriteCheck
<1>2. CASE ReadAgreeing(p)
  <2>1. snap[p] # None => Len(snap[p]) = Len(journal) /\ seen[p] <= Len(journal)
    BY <1>2, EmptySeq
    DEF ReadAgreeing, SameSequence, Local, Faithful, TypeOK, Snapshot, SeenBounded
  <2>2. Len(journal) \in Nat /\ seen[p] \in Nat /\ snap[p] \in Snapshot \cup {None}
    BY LenProperties DEF TypeOK
  <2> QED
    BY <1>2, <2>1, <2>2, DeliverRefines DEF ReadAgreeing
<1>3. CASE RecoverReplace(p)
  <2>1. /\ snap[p] \in Snapshot /\ seen[p] \in Nat /\ seen[p] <= Len(snap[p])
        /\ Len(snap[p]) <= Len(journal)
    BY <1>3 DEF RecoverReplace, Local, TypeOK, Faithful
  <2>2. Len(snap[p]) \in seen[p]..Len(journal)
    BY <2>1, LenProperties DEF Snapshot, TypeOK
  <2> QED
    BY <1>3, <2>1, <2>2, DeliverRefines DEF RecoverReplace
<1>4. CASE InitReplace(p)
  BY <1>4, Stutters DEF InitReplace, Local, TypeOK
<1>5. CASE Replay(p)
  <2>1. CASE UNCHANGED <<acked, seen>>
    BY <1>5, <2>1, Stutters DEF Replay
  <2>2. CASE /\ \E i \in 1..Len(journal) :
                    journal[i].key = req[p].key /\ journal[i].payload = req[p].payload
             /\ acked' = acked \cup {Op(p)}
             /\ seen' = [seen EXCEPT ![p] = Len(snap[p])]
    <3>1. req[p] \in Entry /\ Len(snap[p]) \in seen[p]..Len(journal)
      BY <1>5, LenProperties DEF Replay, Local, TypeOK, SeenBounded
    <3>2. \E i \in 1..Len(journal) : OperationOf(journal[i]) = Op(p)
      BY <2>2 DEF Op, OperationOf
    <3> QED
      BY <1>5, <2>2, <3>1, <3>2, AcknowledgeRefines DEF Replay
  <2> QED
    BY <1>5, <2>1, <2>2 DEF Replay
<1>6. CASE AppendEvent(p)
  BY <1>6, AppendRefines
<1>7. CASE WriteReplace(p)
  <2>1. journal # <<>> /\ Last(journal) = req[p] /\ req[p] \in Entry
    BY <1>7 DEF WriteReplace, Local, TypeOK
  <2>2. Len(req[p].next) \in seen[p]..Len(journal)
    BY <2>1, LastIsNewest, LenProperties DEF SeenBounded, TypeOK
  <2>3. \E i \in 1..Len(journal) : OperationOf(journal[i]) = Op(p)
    <3>1. Len(journal) \in 1..Len(journal)
      BY <2>1, LenProperties, EmptySeq DEF TypeOK
    <3> QED
      BY <2>1, <3>1 DEF Op, Last
  <2> QED
    BY <1>7, <2>1, <2>2, <2>3, AcknowledgeRefines DEF WriteReplace
<1> QED
  BY <1>1, <1>2, <1>3, <1>4, <1>5, <1>6, <1>7 DEF Step

\* Every behaviour of the journal, its snapshot file, the lock, the crashes
\* and the unlocked readers is a behaviour of the atomic log of RunLog.
THEOREM Refinement == Spec => LogSpec
<1>1. Init => Log!Init
  <2> SUFFICES ASSUME Init
               PROVE  Log!Init
    OBVIOUS
  <2>1. TypeOK /\ Len(journal) = 0
    BY InitIInv, EmptySeq DEF IInv, Init
  <2>2. LogView = <<>>
    BY <2>1, LogViewType, EmptySeq
  <2> QED
    BY <2>2 DEF Init, Log!Init
<1>2. IInv /\ [Next]_vars => [Log!Next]_(Log!vars)
  <2> SUFFICES ASSUME IInv, [Next]_vars
               PROVE  Log!Next \/ UNCHANGED Log!vars
    OBVIOUS
  <2>1. CASE UNCHANGED vars
    BY <2>1, Stutters DEF vars
  <2>2. ASSUME NEW p \in Proc,
               StartRead(p) \/ StartInitialize(p) \/ StartOperation(p) \/ Crash(p)
        PROVE  UNCHANGED Log!vars
    BY <2>2, Stutters DEF StartRead, StartInitialize, StartOperation, Start, Crash
  <2> QED
    BY <2>1, <2>2, StepRefines DEF Next
<1> QED
  BY <1>1, <1>2, Invariance, PTL DEF Spec, LogSpec, Log!Spec
=============================================================================
