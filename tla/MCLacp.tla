------------------------------- MODULE MCLacp -------------------------------
EXTENDS Lacp, TLC

CONSTANTS sysA, sysB, sysC, a1, a2, b1

(* One system with two ports, whose partners are not modelled *)
AloneSystem == [p \in {a1, a2} |-> sysA]
NoPeers == [p \in {a1, a2} |-> NoPort]

(* Two systems with a port each, linked *)
PairSystem == [p \in {a1, b1} |-> IF p = a1 THEN sysA ELSE sysB]
PairPeer == [p \in {a1, b1} |-> IF p = a1 THEN b1 ELSE a1]

(* Runs and frames take milliseconds, timers a second or more.  As a bound *)
(* on the frames that are on their way, a timer that makes a port speak    *)
(* again expires when the port has no run due and its partner has seen to  *)
(* the frame it sent before.  Frames of the two ends still cross.          *)
Settled(p) ==
  /\ port[p].initialized /\ ~Ready(p)
  /\ Peer[p] # NoPort => wire[Peer[p]] = <<>> /\ ~Ready(Peer[p])

PacedNext == \E p \in Ports : Event(p) \/ (Settled(p) /\ Timer(p))
PacedSpec == Init /\ [][PacedNext]_vars /\ Fairness

(* What the partners of a1 and a2 may say to the port of number n: who     *)
(* they are, whether they can aggregate and whether they are in sync       *)
ForeignInfo(y, aggregates, sync) ==
  [system |-> y, port |-> 1, key |-> 1, activity |-> TRUE, timeout |-> TRUE,
   aggregation |-> aggregates, synchronization |-> sync]
Of(n) ==
  [system |-> sysA, port |-> n, key |-> 1, activity |-> TRUE, timeout |-> FALSE,
   aggregation |-> TRUE, synchronization |-> FALSE]
ForeignPdus(p, n) ==
  {[actor |-> ForeignInfo(y, g, sync), partner |-> Of(n)] :
     <<y, g, sync>> \in {<<sysB, TRUE, TRUE>>, <<sysB, FALSE, TRUE>>, <<sysC, TRUE, TRUE>>}}
NoForeignPdus(p, n) == {}

Same == Permutations({a1, a2})

(* When and how often a port speaks is not seen by the machines that       *)
(* receive, select and attach: without a modelled partner it is left out.  *)
(* So are the numbers of the ports, that the partners know.                *)
Unspoken ==
  <<[p \in Ports |->
       [port[p] EXCEPT !.ntt = FALSE, !.transmit = "NO_TX", !.pkt_sent = 0,
                       !.periodic = "NO_PERIODIC", !.periodic_timer = FALSE,
                       !.partner.timeout = FALSE, !.number = 0,
                       !.message = IF @ = NoPdu THEN @ ELSE [@ EXCEPT !.partner = 0]]],
    agg, list, wire, faults>>
=============================================================================
