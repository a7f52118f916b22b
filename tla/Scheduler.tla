------------------------------ MODULE Scheduler ------------------------------
(***************************************************************************)
(* The campaign board (scheduler.py, scheduler_state.py): which question   *)
(* is leased to which Teacher thread.  Every operation runs under          *)
(* scheduler.lock and ends in one atomic replace of scheduler.json, so an  *)
(* operation is one step; the runs it reads, the clock and the Teachers    *)
(* that hold copies of a lease move between steps.                         *)
(*                                                                         *)
(* q1 and q2 are grandfathered and never change; Question holds the        *)
(* positions from 3 on.  A lease carries the time it has left; lease_id is *)
(* unique per grant (uuid4), hence one with the generation.  Run states    *)
(* are grouped by what _sync_run does with them.                           *)
(***************************************************************************)
EXTENDS Naturals, FiniteSets

CONSTANTS Question,      \* positions of the campaign questions, in order
          Thread,        \* Teacher threads (lease owners)
          Worker,        \* dispatch workers
          External,      \* identities of external waits
          RunWait,       \* the wait identity _sync_run derives from a run
          None,          \* no lease, no thread, no wait
          TTL,           \* lease_ttl_sec, in ticks of the clock
          SlotLimit,     \* CAMPAIGN_SLOT_LIMIT
          Batch,         \* questions of one frozen Teacher Skill batch
          ExploredRuns,  \* bound: classes of run states that are explored
          MaxGeneration  \* bound: grants of one question that are explored

RunClass == {"ABSENT", "WORKING", "FINISHED", "DEFERRED", "BLOCKED", "ABANDONED", "UNREADABLE"}

Lease == [owner : Thread, ttl : 0..TTL, dispatch : {"PENDING", "SENDING", "SENT"},
          worker : Worker \cup {None}]

ASSUME QuestionAssumption == Question \in SUBSET Nat /\ IsFiniteSet(Question)
ASSUME NumberAssumption == /\ TTL \in Nat \ {0} /\ SlotLimit \in Nat \ {0}
                           /\ MaxGeneration \in Nat
ASSUME NameAssumption == /\ None \notin Thread /\ None \notin Worker
                         /\ None \notin External \cup {RunWait}
                         /\ Batch \subseteq Question /\ ExploredRuns \subseteq RunClass
                         /\ None \notin Lease

VARIABLES board,      \* scheduler.json: one item per question
          maxActive,  \* scheduler.json: campaign slots in use, 1..SlotLimit
          run,        \* class of the state of each question's run directory
          sealed,     \* questions whose published family is finalized
          reconciled  \* batches the Skill Bank was reconciled with

vars == <<board, maxActive, run, sealed, reconciled>>

QueueState == {"BACKLOG", "READY", "LEASED", "WAITING_EXTERNAL", "PUBLICATION_PENDING",
               "RECOVERY_REQUIRED", "BLOCKED", "ABANDONED", "COMPLETED"}
Item == [state : QueueState, generation : Nat, thread : Thread \cup {None}, enrolled : BOOLEAN,
         lease : Lease \cup {None}, wait : External \cup {RunWait, None}]

Held == {"LEASED", "PUBLICATION_PENDING"}   \* states that keep a lease and a slot

Occupied(b) == {q \in Question : b[q].state \in Held}

Init == /\ board = [q \in Question |->
             [state |-> "BACKLOG", generation |-> 0, thread |-> None, enrolled |-> FALSE,
              lease |-> None, wait |-> None]]
        /\ maxActive \in 1..SlotLimit
        /\ run = [q \in Question |-> "ABSENT"]
        /\ sealed = {} /\ reconciled = {}

-----------------------------------------------------------------------------
(* _sync_and_fill                                                          *)

Released(item, s) == [item EXCEPT !.state = s, !.lease = None, !.wait = None]
Waiting(item, id) == [item EXCEPT !.state = "WAITING_EXTERNAL", !.lease = None, !.wait = id]

SyncedNeverExpiring(item, r) ==
  IF item.state = "LEASED" /\ r \in {"BLOCKED", "ABANDONED"} THEN Released(item, r) ELSE item

\* Expire the lease of one leased item, or follow the state of its run.
Synced(item, r) ==
  CASE item.state # "LEASED" -> item
    [] item.state = "LEASED" /\ (item.lease.ttl = 0 \/ r = "ABSENT") ->
         Released(item, "RECOVERY_REQUIRED")
    [] item.state = "LEASED" /\ item.lease.ttl # 0 /\ r = "FINISHED" ->
         [item EXCEPT !.state = "PUBLICATION_PENDING"]
    [] item.state = "LEASED" /\ item.lease.ttl # 0 /\ r = "DEFERRED" -> Waiting(item, RunWait)
    [] item.state = "LEASED" /\ item.lease.ttl # 0 /\ r \in {"BLOCKED", "ABANDONED"} ->
         Released(item, r)
    [] OTHER -> item

\* Reading the run of an unexpired leased item must not raise.
RunsReadable(b) ==
  \A q \in Question : b[q].state = "LEASED" /\ b[q].lease.ttl # 0 => run[q] # "UNREADABLE"

Eligible(item) == item.state = "READY" /\ item.enrolled /\ item.thread # None

OwnersLeased(b) == {b[q].lease.owner : q \in {r \in Question : b[r].state = "LEASED"}}
Owners(b) == {b[q].lease.owner : q \in Occupied(b)}

FillsOneMore(A, b, slots) ==
  \A q \in Question :
    LET earlier == {r \in A : r < q} IN
    q \in A <=> /\ Eligible(b[q])
                /\ b[q].thread \notin Owners(b) \cup {b[r].thread : r \in earlier}
                /\ Cardinality(Occupied(b)) + Cardinality(earlier) <= slots

FillsOneLess(A, b, slots) ==
  \A q \in Question :
    LET earlier == {r \in A : r < q} IN
    q \in A <=> /\ Eligible(b[q])
                /\ b[q].thread \notin Owners(b) \cup {b[r].thread : r \in earlier}
                /\ Cardinality(Occupied(b)) + Cardinality(earlier) + 1 < slots

\* A is what the loop over the board in position order activates: an eligible
\* question whose Teacher is free, while slots are left.
Fills(A, b, slots) ==
  \A q \in Question :
    LET earlier == {r \in A : r < q} IN
    q \in A <=> /\ Eligible(b[q])
                /\ b[q].thread \notin Owners(b) \cup {b[r].thread : r \in earlier}
                /\ Cardinality(Occupied(b)) + Cardinality(earlier) < slots

Granted(item) ==
  [item EXCEPT !.state = "LEASED", !.generation = @ + 1,
               !.lease = [owner |-> item.thread, ttl |-> TTL, dispatch |-> "PENDING",
                          worker |-> None]]

SyncAndFill(b, slots) ==
  LET s == [q \in Question |-> Synced(b[q], run[q])] IN
  /\ RunsReadable(b)
  /\ \E A \in SUBSET Question :
       /\ Fills(A, s, slots)
       /\ board' = [q \in Question |-> IF q \in A THEN Granted(s[q]) ELSE s[q]]

With(q, item) == [board EXCEPT ![q] = item]

-----------------------------------------------------------------------------
(* Operations of the control plane                                         *)

\* A question and its run, perhaps with a Teacher thread and prompt.
Enqueue(q, t) ==
  /\ board[q].state \in {"BACKLOG", "READY"}
  /\ SyncAndFill(With(q, [board[q] EXCEPT !.state = "READY", !.enrolled = TRUE,
                            !.thread = IF t = None THEN @ ELSE t]), maxActive)
  /\ UNCHANGED <<maxActive, run, sealed, reconciled>>

Tick == SyncAndFill(board, maxActive) /\ UNCHANGED <<maxActive, run, sealed, reconciled>>

Configure(slots) ==
  /\ Cardinality({q \in Question : board[q].state = "LEASED" /\ board[q].lease.ttl # 0}) <= slots
  /\ maxActive' = slots
  /\ SyncAndFill(board, slots)
  /\ UNCHANGED <<run, sealed, reconciled>>

\* After a hold-up an operator sends the question back to the queue.
Requeue(q) ==
  /\ board[q].state \in {"RECOVERY_REQUIRED", "BLOCKED"}
  /\ board[q].generation < MaxGeneration
  /\ SyncAndFill(With(q, Released(board[q], "READY")), maxActive)
  /\ UNCHANGED <<maxActive, run, sealed, reconciled>>

ResumeExternal(q, id) ==
  /\ board[q].state = "WAITING_EXTERNAL" /\ board[q].wait = id
  /\ board[q].generation < MaxGeneration
  /\ SyncAndFill(With(q, Released(board[q], "READY")), maxActive)
  /\ UNCHANGED <<maxActive, run, sealed, reconciled>>

-----------------------------------------------------------------------------
(* Operations of a lease owner, who presents a copy of the lease           *)

HoldsLease(q, owner, generation) ==
  /\ board[q].state \in Held
  /\ board[q].lease.owner = owner
  /\ board[q].generation = generation
  /\ board[q].lease.ttl # 0

HeartbeatLate(q, owner, generation) ==
  /\ board[q].state \in Held /\ board[q].lease.owner = owner
  /\ board[q].generation = generation
  /\ board' = With(q, [board[q] EXCEPT !.lease.ttl = TTL])
  /\ UNCHANGED <<maxActive, run, sealed, reconciled>>

Heartbeat(q, owner, generation) ==
  /\ HoldsLease(q, owner, generation)
  /\ board' = With(q, [board[q] EXCEPT !.lease.ttl = TTL])
  /\ UNCHANGED <<maxActive, run, sealed, reconciled>>

SetWaitingExternal(q, owner, generation, id) ==
  /\ HoldsLease(q, owner, generation)
  /\ SyncAndFill(With(q, Waiting(board[q], id)), maxActive)
  /\ UNCHANGED <<maxActive, run, sealed, reconciled>>

AbandonTopic(q, owner, generation) ==
  /\ HoldsLease(q, owner, generation)
  /\ SyncAndFill(With(q, Released(board[q], "ABANDONED")), maxActive)
  /\ UNCHANGED <<maxActive, run, sealed, reconciled>>

Roster(q) == IF q \in Batch THEN Batch ELSE {q}

UnfinishedWithSelf(q) == {r \in Roster(q) : board[r].state # "COMPLETED"}
Unfinished(q) == {r \in Roster(q) \ {q} : board[r].state # "COMPLETED"}

\* Members the reconcile loop looks at: up to the first unfinished one.
Inspected(q) == {r \in Roster(q) : \A u \in Unfinished(q) : r <= u}

MayBind(q, owner, generation) ==
  /\ HoldsLease(q, owner, generation)
  /\ board[q].enrolled /\ run[q] = "FINISHED"

\* The family is finalized, the batch reconciled if q is its last question,
\* and the question completes.
BindPublishedFamily(q, owner, generation) ==
  /\ MayBind(q, owner, generation)
  /\ \A r \in Inspected(q) : board[r].enrolled /\ run[r] \notin {"ABSENT", "UNREADABLE"}
  /\ sealed' = sealed \cup {q}
  /\ reconciled' = IF Unfinished(q) = {} THEN reconciled \cup {Roster(q)} ELSE reconciled
  /\ SyncAndFill(With(q, Released(board[q], "COMPLETED")), maxActive)
  /\ UNCHANGED <<maxActive, run>>

\* The bind raises or the process dies after the family was finalized, and
\* perhaps after the batch was reconciled; the board keeps the lease.
BindInterrupted(q, owner, generation) ==
  /\ MayBind(q, owner, generation)
  /\ sealed' = sealed \cup {q}
  /\ reconciled' \in {reconciled} \cup
       {reconciled \cup {Roster(q)} : u \in IF Unfinished(q) = {} THEN {q} ELSE {}}
  /\ UNCHANGED <<board, maxActive, run>>

-----------------------------------------------------------------------------
(* Operations of a dispatch worker                                         *)

ClaimDispatchTwice(q, w) ==
  /\ board[q].state = "LEASED" /\ board[q].lease.ttl # 0
  /\ board' = With(q, [board[q] EXCEPT !.lease.dispatch = "SENDING", !.lease.worker = w])
  /\ UNCHANGED <<maxActive, run, sealed, reconciled>>

ClaimDispatch(q, w) ==
  /\ board[q].state = "LEASED"
  /\ board[q].lease.ttl # 0
  /\ board[q].lease.dispatch = "PENDING"
  /\ board' = With(q, [board[q] EXCEPT !.lease.dispatch = "SENDING", !.lease.worker = w])
  /\ UNCHANGED <<maxActive, run, sealed, reconciled>>

RecordDispatchUnfenced(q, w, owner, generation) ==
  /\ board[q].state \in Held /\ board[q].lease.ttl # 0
  /\ board[q].lease.dispatch = "SENDING"
  /\ board' = With(q, [board[q] EXCEPT !.lease.dispatch = "SENT"])
  /\ UNCHANGED <<maxActive, run, sealed, reconciled>>

RecordDispatch(q, w, owner, generation) ==
  /\ HoldsLease(q, owner, generation)
  /\ board[q].lease.dispatch = "SENDING" /\ board[q].lease.worker = w
  /\ board' = With(q, [board[q] EXCEPT !.lease.dispatch = "SENT"])
  /\ UNCHANGED <<maxActive, run, sealed, reconciled>>

RequireRecovery(q, w, owner, generation) ==
  /\ HoldsLease(q, owner, generation)
  /\ board[q].lease.worker = w
  /\ SyncAndFill(With(q, Released(board[q], "RECOVERY_REQUIRED")), maxActive)
  /\ UNCHANGED <<maxActive, run, sealed, reconciled>>

-----------------------------------------------------------------------------
(* Environment: the clock and the runs                                     *)

TimePasses ==
  /\ board' = [q \in Question |->
       IF board[q].lease = None \/ board[q].lease.ttl = 0 THEN board[q]
       ELSE [board[q] EXCEPT !.lease.ttl = @ - 1]]
  /\ board' # board
  /\ UNCHANGED <<maxActive, run, sealed, reconciled>>

\* The workflow moves the run of q; a run directory never disappears.  An
\* abandoned topic is final.
RunMoves(q, r) ==
  /\ run[q] # "ABANDONED" /\ r # "ABSENT" /\ r # run[q]
  /\ run' = [run EXCEPT ![q] = r]
  /\ UNCHANGED <<board, maxActive, sealed, reconciled>>

Control == \/ Tick
           \/ \E slots \in 1..SlotLimit : Configure(slots)
           \/ \E q \in Question : \/ \E t \in Thread \cup {None} : Enqueue(q, t)
                                  \/ Requeue(q)
                                  \/ \E id \in External \cup {RunWait} : ResumeExternal(q, id)

OwnerStep == \E q \in Question, o \in Thread : \E g \in 0..board[q].generation :
  \/ Heartbeat(q, o, g) \/ AbandonTopic(q, o, g)
  \/ BindPublishedFamily(q, o, g) \/ BindInterrupted(q, o, g)
  \/ \E id \in External : SetWaitingExternal(q, o, g, id)

DispatchStep == \E q \in Question, w \in Worker :
  \/ ClaimDispatch(q, w)
  \/ \E o \in Thread, g \in 0..board[q].generation :
       RecordDispatch(q, w, o, g) \/ RequireRecovery(q, w, o, g)

Environment == TimePasses \/ \E q \in Question, r \in ExploredRuns : RunMoves(q, r)

Next == Control \/ OwnerStep \/ DispatchStep \/ Environment

Spec == Init /\ [][Next]_vars

-----------------------------------------------------------------------------
(* Properties                                                              *)

\* SchedulerSnapshot.validate and ScheduledQuestion.validate, except for the
\* counts below: what _write refuses to store (scheduler_state.py:167-263).
ItemOK(item) ==
  /\ item.state \in Held => item.lease # None /\ item.lease.owner = item.thread
  /\ item.state \notin Held => item.lease = None
  /\ item.state = "WAITING_EXTERNAL" <=> item.wait # None
  /\ item.state # "BACKLOG" <=> item.enrolled

TypeOK == /\ board \in [Question -> Item]
          /\ maxActive \in 1..SlotLimit
          /\ run \in [Question -> RunClass]
          /\ sealed \subseteq Question
          /\ reconciled \subseteq SUBSET Question

\* No operation produces a board that validate refuses, so none fails for a
\* state that earlier operations built (scheduler_state.py:167-204).
BoardValid == \A q \in Question : ItemOK(board[q])

\* At most maxActive questions are leased, whatever is expired, lowered or
\* completed in between (scheduler_state.py:253-257); and never more slots
\* than the campaign has, those awaiting publication included.
SlotsBounded ==
  /\ Cardinality({q \in Question : board[q].state = "LEASED"}) <= maxActive
  /\ Cardinality(Occupied(board)) <= SlotLimit

\* One Teacher owner never holds two leases (scheduler_state.py:258-259),
\* counting a lease that awaits publication, which validate does not.
OneLeasePerOwner ==
  \A q, r \in Occupied(board) : board[q].lease.owner = board[r].lease.owner => q = r

\* A lease that stopped being valid - expired, released, replaced - never
\* becomes valid again, whatever its holder presents (scheduler.py:166,
\* "an expired lease cannot be revived").
LeaseNeverRevives ==
  [][\A q \in Question, o \in Thread : \A g \in 1..board[q].generation :
        ~HoldsLease(q, o, g) => ~HoldsLease(q, o, g)']_vars

\* A batch whose questions are all completed has been reconciled, whatever
\* the order of the publications and however many were interrupted
\* (scheduler.py:410-433).
BatchReconciled ==
  \A q \in Question :
    (\A r \in Roster(q) : board[r].state = "COMPLETED") => Roster(q) \in reconciled

\* After a tick no slot is idle while an eligible question has a free
\* Teacher (scheduler.py:132, "automatically fill the current slots").
TickFillsSlots ==
  [][Tick /\ Cardinality(Occupied(board')) < maxActive =>
       \A q \in Question : Eligible(board'[q]) => board'[q].thread \in Owners(board')]_vars

\* Not kept: after a tick no lease is stale (scheduler.py:132, "expire stale leases");
\* one that awaits publication stays, and keeps its slot (scheduler.py:439).
TickExpiresLeases ==
  [][Tick => \A q \in Question : board'[q].lease # None => board'[q].lease.ttl # 0]_vars

\* What a tick leaves of the leases it found: none of a leased question has run out, and
\* one that was not granted just now is of a run that is being worked on.
Settles ==
  Tick =>
    \A q \in Question : board'[q].state = "LEASED" =>
      /\ board'[q].lease.ttl # 0
      /\ run[q] = "WORKING" \/ board'[q].generation = board[q].generation + 1

\* A tick gives up what a dead Teacher or a finished run leaves behind, before it fills
\* the slots, whichever of the two came first ("expire stale leases", scheduler.py:132,
\* 438-452).  A lease that awaits publication is not covered, see TickExpiresLeases.
TickSettles == [][Settles]_vars

\* Not kept: one run that cannot be read stops the ticks of the whole board, so that an
\* expired lease of another question can no longer be released (scheduler.py:496).
ExpiredCanBeReleased ==
  \A q \in Question : board[q].state = "LEASED" /\ board[q].lease.ttl = 0 => ENABLED Tick
=============================================================================
