------------------------ MODULE SerializationClaims ------------------------
(***************************************************************************)
(* What comments of the serialization sources say of the component, and    *)
(* what its users rely on beyond the invariants of Serialization.          *)
(***************************************************************************)
EXTENDS Serialization

(* non_scan.c:94-97, "For blocking commands, no other commands from any    *)
(* vdev should be active".                                                 *)
BlockingExclusive == \A m, n \in Elems(pact) : ncmd[m].is_blocking => m = n

-----------------------------------------------------------------------------
(* Without blocking commands and cancels, a vdev that has commands waiting *)
(* and none active is about to be looked at by a dequeue of that vdev.     *)
NoLostWakeup == \A v \in Vdevs : (vpend[v] # <<>> /\ v \notin bitmap) =>
  \E t \in Threads : \E i \in DOMAIN stack[t] :
     stack[t][i].op = "move" /\ stack[t][i].vdev = v

(* What a vdev runs and what waits on it. *)
RunningOn(v) == IF vact[v] = <<>> THEN NoCmd ELSE ncmd[vact[v][1]]
WaitingOn(v) == [i \in DOMAIN vpend[v] |-> ncmd[vpend[v][i]]]
Queue == INSTANCE CommandQueue WITH
  None <- NoCmd,
  running <- [v \in Vdevs |-> RunningOn(v)],
  waiting <- [v \in Vdevs |-> WaitingOn(v)]

(* The component implements a queue per vdev that runs one command at a    *)
(* time, in order, whatever else interleaves: no command runs twice, is    *)
(* lost, or overtakes one of its vdev.                                     *)
ImplementsQueue == Queue!Spec

(* Every context runs until it leaves the component (the locks are spin    *)
(* locks held for bounded loops).                                          *)
FairSpec == Spec /\ \A t \in Threads : WF_vars("cursor" \notin bugs /\ Continue(t))

(* A removal asked for while the command was being activated (dequeue_cmd  *)
(* only marks the node) is carried out after the activation.               *)
RemovalTakesEffect == \A n \in Nodes : (REMOVAL \in flags[n]) ~> (REMOVAL \notin flags[n])

(* So is a cancel, which the cancel loop only marks on such a node.        *)
CancelTakesEffect == \A n \in Nodes : (CANCEL \in flags[n]) ~> (CANCEL \notin flags[n])

(* Moreover the owner of an active command sooner or later asks for its    *)
(* removal.                                                                *)
OwnersAnswer == \A c \in Cmds : SF_vars(\E t \in Threads : RemoveCmd(t, c))
OwnedSpec == FairSpec /\ OwnersAnswer

(* Every pending command is sooner or later activated. *)
PendingActivated == \A n \in Nodes : (n \in Elems(ppend)) ~> (n \notin Elems(ppend))

(* No owner answers, but timers expire and the scheduler handles messages. *)
TimedSpec == /\ FairSpec /\ SF_vars(Timeout)
             /\ \A n \in Nodes : WF_vars(TimerFires(n))

(* The timeout of a command whose owner never answers gives back its place. *)
TimeoutReclaims == \A n \in Nodes : (n \in Elems(pact)) ~> (n \notin Elems(pact))
=============================================================================
