------------------------------- MODULE Dispatch -------------------------------
(***************************************************************************)
(* The dispatch workers (scheduler_worker.py) on the campaign board: each  *)
(* claims the leases a tick left to be dispatched, queues one message to   *)
(* the Teacher (codex_agent.py, up to 30 s, outside the scheduler lock)    *)
(* and records the receipt or asks for recovery.  Between two of these     *)
(* steps the lease may expire, be released or be granted anew, and the     *)
(* worker may die.                                                         *)
(***************************************************************************)
EXTENDS Scheduler

VARIABLES wpc,   \* where each worker is in run_once
          todo,  \* questions of its `pending' tuple still to be handled
          job,   \* the item its last claim_dispatch returned
          sent   \* tickets whose message reached the Teacher's queue

wvars == <<wpc, todo, job, sent>>
bvars == <<board, maxActive, run, sealed, reconciled>>

\* What record_dispatch and require_recovery are called with.
Job == [q : Question, owner : Thread, generation : Nat]

Ticket(j) == <<j.q, j.generation>>
NoJob == None

ASSUME JobAssumption == NoJob \notin Job

DispatchInit == /\ Init
                /\ wpc = [w \in Worker |-> "idle"]
                /\ todo = [w \in Worker |-> {}]
                /\ job = [w \in Worker |-> NoJob]
                /\ sent = {}

-----------------------------------------------------------------------------
(* run_once                                                                *)

Goto(w, l) == wpc' = [wpc EXCEPT ![w] = l]
Pending(b) == {q \in Question : b[q].state = "LEASED" /\ b[q].lease.dispatch = "PENDING"}

\* The round is over, or an exception leaves it with questions undone.
Leave(w) == /\ wpc' = [wpc EXCEPT ![w] = "idle"]
            /\ todo' = [todo EXCEPT ![w] = {}]
            /\ job' = [job EXCEPT ![w] = NoJob]

Begin(w) == /\ wpc[w] = "idle"
            /\ Tick
            /\ Goto(w, "claim")
            /\ todo' = [todo EXCEPT ![w] = Pending(board')]
            /\ UNCHANGED <<job, sent>>

\* The first of the questions left; claim_dispatch returns it or None.
First(w, q) == q \in todo[w] /\ \A r \in todo[w] : q <= r
Claimable(q) == board[q].state = "LEASED" /\ board[q].lease.ttl # 0
                /\ board[q].lease.dispatch = "PENDING"

Claim(w, q) ==
  /\ wpc[w] = "claim" /\ First(w, q)
  /\ ClaimDispatch(q, w)
  /\ Goto(w, "send")
  /\ todo' = [todo EXCEPT ![w] = @ \ {q}]
  /\ job' = [job EXCEPT ![w] = [q |-> q, owner |-> board[q].lease.owner,
                                generation |-> board[q].generation]]
  /\ UNCHANGED sent

Skip(w, q) == /\ wpc[w] = "claim" /\ First(w, q) /\ ~Claimable(q)
              /\ todo' = [todo EXCEPT ![w] = @ \ {q}]
              /\ UNCHANGED <<bvars, wpc, job, sent>>

\* dispatcher.queue returns a receipt.
SendReceipted(w) == /\ wpc[w] = "send"
                    /\ sent' = sent \cup {Ticket(job[w])}
                    /\ Goto(w, "record")
                    /\ UNCHANGED <<bvars, todo, job>>

\* dispatcher.queue raises, before the message was queued or after it (no
\* valid receipt on stdout).
SendFails(w) == /\ wpc[w] = "send"
                /\ sent' \in {sent, sent \cup {Ticket(job[w])}}
                /\ Goto(w, "recover")
                /\ UNCHANGED <<bvars, todo, job>>

\* subprocess.TimeoutExpired is none of the exceptions run_once handles.
SendTimesOut(w) == /\ wpc[w] = "send"
                   /\ sent' \in {sent, sent \cup {Ticket(job[w])}}
                   /\ Leave(w)
                   /\ UNCHANGED bvars

ClaimIsCurrent(w) ==
  LET j == job[w] IN /\ HoldsLease(j.q, j.owner, j.generation)
                     /\ board[j.q].lease.worker = w

Record(w) == LET j == job[w] IN
  /\ wpc[w] = "record"
  /\ RecordDispatch(j.q, w, j.owner, j.generation)
  /\ Goto(w, "claim") /\ UNCHANGED <<todo, job, sent>>

Recover(w) == LET j == job[w] IN
  /\ wpc[w] = "recover"
  /\ RequireRecovery(j.q, w, j.owner, j.generation)
  /\ Goto(w, "claim") /\ UNCHANGED <<todo, job, sent>>

\* record_dispatch and require_recovery refuse a stale lease or claim: the
\* exception ends the round.
Refused(w) ==
  /\ wpc[w] \in {"record", "recover"} /\ ~ClaimIsCurrent(w)
  /\ Leave(w) /\ UNCHANGED <<bvars, sent>>

EndRound(w) == wpc[w] = "claim" /\ todo[w] = {} /\ Leave(w) /\ UNCHANGED <<bvars, sent>>

CrashWorker(w) == wpc[w] # "idle" /\ Leave(w) /\ UNCHANGED <<bvars, sent>>

WorkerStep(w) == \/ Begin(w) \/ EndRound(w)
                 \/ \E q \in Question : Claim(w, q) \/ Skip(w, q)
                 \/ SendReceipted(w) \/ SendFails(w) \/ SendTimesOut(w)
                 \/ Record(w) \/ Recover(w) \/ Refused(w) \/ CrashWorker(w)

\* A Teacher knows of a lease from the message it was sent.
TeacherStep == \E q \in Question, o \in Thread : \E g \in 0..board[q].generation :
  /\ <<q, g>> \in sent
  /\ \/ Heartbeat(q, o, g) \/ AbandonTopic(q, o, g)
     \/ BindPublishedFamily(q, o, g) \/ BindInterrupted(q, o, g)
     \/ \E id \in External : SetWaitingExternal(q, o, g, id)
  /\ UNCHANGED wvars

ControlStep == Control /\ UNCHANGED wvars

EnvironmentStep == Environment /\ UNCHANGED wvars

DispatchNext == ControlStep \/ TeacherStep \/ EnvironmentStep
                \/ \E w \in Worker : WorkerStep(w)

DispatchSpec == DispatchInit /\ [][DispatchNext]_<<vars, wvars>>

-----------------------------------------------------------------------------
(* Properties                                                              *)

DispatchTypeOK ==
  /\ TypeOK
  /\ wpc \in [Worker -> {"idle", "claim", "send", "record", "recover"}]
  /\ todo \in [Worker -> SUBSET Question]
  /\ job \in [Worker -> Job \cup {NoJob}]
  /\ sent \subseteq Question \X Nat
  /\ \A w \in Worker : wpc[w] \in {"send", "record", "recover"} => job[w] # NoJob

\* A worker about to send is the only one, and nobody has sent that ticket:
\* one grant, one message, however workers race, crash and restart
\* (scheduler.py:182, "prevent concurrent workers from sending twice").
OneMessagePerGrant ==
  \A w \in Worker : wpc[w] = "send" =>
    /\ Ticket(job[w]) \notin sent
    /\ \A v \in Worker \ {w} : wpc[v] = "send" => Ticket(job[v]) # Ticket(job[w])

\* A lease recorded as SENT was sent in this very grant: a receipt of an
\* earlier generation never confirms a later one (scheduler.py:217,
\* "confirmed by the worker claim and by Teacher fencing").
SentWasDelivered ==
  \A q \in Question : board[q].lease # None /\ board[q].lease.dispatch = "SENT" =>
                        <<q, board[q].generation>> \in sent

\* A claim that nobody will send: its worker died or was timed out before the message
\* was queued.
Stranded(q) ==
  /\ board[q].lease # None /\ board[q].lease.dispatch = "SENDING"
  /\ <<q, board[q].generation>> \notin sent
  /\ \A w \in Worker : wpc[w] \in {"send", "record", "recover"} =>
                       Ticket(job[w]) # <<q, board[q].generation>>

\* A stranded claim never comes to life: no worker claims it again, sends its message
\* or confirms it, and nobody prolongs its lease; it ends when the lease is given up, and
\* perhaps granted anew (scheduler.py:191, 224; scheduler_worker.py:50-82).
StrandedStaysStranded ==
  [][\A q \in Question : Stranded(q) =>
       \/ board'[q].lease = None
       \/ board'[q].generation # board[q].generation
       \/ Stranded(q)' /\ board'[q].lease.ttl <= board[q].lease.ttl]_<<vars, wvars>>
=============================================================================
