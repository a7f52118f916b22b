------------------------------- MODULE RunLog -------------------------------
(***************************************************************************)
(* What the run journal promises to its clients, whatever files, locks and *)
(* crashes are underneath (store.py, class RunStore): operations take      *)
(* effect one at a time, each idempotency key at most once; an operation   *)
(* is acknowledged only after it took effect; and what a client is shown   *)
(* of a run never goes back in time.                                       *)
(***************************************************************************)
EXTENDS Naturals, Sequences

CONSTANTS Proc,     \* the processes that open the run
          Key,      \* idempotency keys
          Payload   \* what an operation says, besides its key

VARIABLES log,      \* operations that took effect, in order
          acked,    \* operations reported as done to some caller
          seen      \* sequence number of the last snapshot each process was given

vars == <<log, acked, seen>>

Operation == [key : Key, payload : Payload]

InLog(op) == \E i \in 1..Len(log) : log[i] = op

Init == /\ log = <<>>
        /\ acked = {}
        /\ seen = [p \in Proc |-> 0]

\* An operation takes effect; its key must be new to the run.
Apply(op) == /\ \A i \in 1..Len(log) : log[i].key # op.key
             /\ log' = Append(log, op)
             /\ UNCHANGED <<acked, seen>>

\* Process p is given the snapshot of sequence n, no older than the last one.
Observe(p, n) == /\ n \in seen[p]..Len(log)
                 /\ seen' = [seen EXCEPT ![p] = n]
                 /\ UNCHANGED <<log, acked>>

\* Process p is told that op is done and is given a snapshot with it.
Acknowledge(p, op, n) == /\ InLog(op)
                         /\ n \in seen[p]..Len(log)
                         /\ acked' = acked \cup {op}
                         /\ seen' = [seen EXCEPT ![p] = n]
                         /\ UNCHANGED log

Next == \/ \E op \in Operation : Apply(op)
        \/ \E p \in Proc, n \in 0..Len(log) : Observe(p, n)
        \/ \E p \in Proc, op \in Operation, n \in 0..Len(log) : Acknowledge(p, op, n)

Spec == Init /\ [][Next]_vars
=============================================================================
