---------------------------- MODULE CommandQueue ----------------------------
(***************************************************************************)
(* What command serialization promises to its users, one vdev at a time:   *)
(* at most one command of a vdev runs, and those waiting run in the order  *)
(* in which they were queued, high priority ones queued at the front.      *)
(***************************************************************************)
EXTENDS Integers, Sequences

CONSTANTS Vdevs, Cmds, None

VARIABLES running,  \* the command each vdev runs, or None
          waiting   \* the commands waiting on each vdev

vars == <<running, waiting>>

Init == /\ running = [v \in Vdevs |-> None]
        /\ waiting = [v \in Vdevs |-> <<>>]

(* A new command overtakes no waiting one... *)
Start(c) == /\ running[c.vdev] = None /\ waiting[c.vdev] = <<>>
            /\ running' = [running EXCEPT ![c.vdev] = c]
            /\ UNCHANGED waiting

(* ...unless it has high priority. *)
Enqueue(c) == /\ waiting' = [waiting EXCEPT ![c.vdev] =
                    IF c.is_high_priority THEN <<c>> \o @ ELSE Append(@, c)]
              /\ UNCHANGED running

Promote(v) == /\ running[v] = None /\ waiting[v] # <<>>
              /\ running' = [running EXCEPT ![v] = Head(waiting[v])]
              /\ waiting' = [waiting EXCEPT ![v] = Tail(@)]

Finish(v) == /\ running[v] # None
             /\ running' = [running EXCEPT ![v] = None]
             /\ UNCHANGED waiting

Withdraw(v, i) ==
  /\ i \in DOMAIN waiting[v]
  /\ waiting' = [waiting EXCEPT ![v] =
        [j \in 1..(Len(@) - 1) |-> IF j < i THEN @[j] ELSE @[j + 1]]]
  /\ UNCHANGED running

Next == \/ \E c \in Cmds : Start(c) \/ Enqueue(c)
        \/ \E v \in Vdevs : \/ Promote(v) \/ Finish(v)
                            \/ \E i \in DOMAIN waiting[v] : Withdraw(v, i)

Spec == Init /\ [][Next]_vars
=============================================================================
