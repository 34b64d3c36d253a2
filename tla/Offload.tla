------------------------------ MODULE Offload -------------------------------
(***************************************************************************)
(* What acceleration promises: a connection is handed to an engine on      *)
(* request and within a limit, it counts as accelerated only after the     *)
(* engine took its rule, and it is given back, with its slot, only after   *)
(* the rule is gone - or it is abandoned, and then its slot is kept.       *)
(***************************************************************************)
EXTENDS Integers, FiniteSets

CONSTANTS Conns, Limit

VARIABLES phase,  \* how far the acceleration of each connection is
          ruled,  \* the connections that the engine has a rule for
          used    \* slots of the limit in use

vars == <<phase, ruled, used>>

Over == {"off", "failed"}

(* Whatever is between a request and its end needs a slot, and so does a   *)
(* rule that was abandoned.                                                *)
Needing == {c \in Conns : phase[c] \notin Over \/ c \in ruled}

Init == /\ phase = [c \in Conns |-> "off"]
        /\ ruled = {} /\ used = 0

To(c, p) == phase' = [phase EXCEPT ![c] = p]

Ask(c) == /\ phase[c] = "off" /\ used < Limit
          /\ To(c, "asked") /\ used' = used + 1
          /\ UNCHANGED ruled

(* The engine takes the rule, once for each request... *)
Grant(c) == /\ phase[c] = "asked" /\ c \notin ruled
            /\ To(c, "granted") /\ ruled' = ruled \cup {c}
            /\ UNCHANGED used

(* ...and may drop it at any time. *)
Drop(c) == /\ c \in ruled /\ ruled' = ruled \ {c}
           /\ UNCHANGED <<phase, used>>

Confirm(c) == phase[c] = "granted" /\ To(c, "on") /\ UNCHANGED <<ruled, used>>

(* The request comes to nothing: it was not made, refused, or the rule was *)
(* dropped before it was confirmed.                                        *)
Refuse(c) == /\ phase[c] \in {"asked", "granted"} /\ c \notin ruled
             /\ \E p \in Over : To(c, p)
             /\ used' = used - 1
             /\ UNCHANGED ruled

Withdraw(c) == phase[c] = "on" /\ To(c, "ending") /\ UNCHANGED <<ruled, used>>
Retry(c) == phase[c] = "ending" /\ To(c, "on") /\ UNCHANGED <<ruled, used>>
Abandon(c) == phase[c] = "ending" /\ To(c, "failed") /\ UNCHANGED <<ruled, used>>

(* The acceleration is over, and its slot is freed afterwards. *)
End(c) == /\ phase[c] \in {"on", "ending"} /\ c \notin ruled
          /\ \E p \in Over : To(c, p)
          /\ UNCHANGED <<ruled, used>>

Free == /\ used > Cardinality(Needing) /\ used' = used - 1
        /\ UNCHANGED <<phase, ruled>>

Fail(c) == phase[c] = "off" /\ To(c, "failed") /\ UNCHANGED <<ruled, used>>

Next == \/ \E c \in Conns : \/ Ask(c) \/ Grant(c) \/ Drop(c) \/ Confirm(c) \/ Refuse(c)
                            \/ Withdraw(c) \/ Retry(c) \/ Abandon(c) \/ End(c) \/ Fail(c)
        \/ Free

Spec == Init /\ [][Next]_vars
=============================================================================
