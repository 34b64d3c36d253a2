-------------------------- MODULE EcmCountsProofs ---------------------------
(***************************************************************************)
(* The global counters of EcmAccel are exact, and so the limit they gate   *)
(* holds for the rules of the NSS, for any number of connections and       *)
(* contexts and any limits.                                                *)
(***************************************************************************)
EXTENDS EcmAccelProofs

-----------------------------------------------------------------------------
(* What is counted over all connections, contexts and messages *)

DestroyCmd == {m \in CmdType : m.type = "destroy"}
DestroyMsg == {m \in HostType : m.type = "destroy"}
AllDestroys == In(cmds, DestroyCmd) + In(host, DestroyMsg)
Working(P) == {x \in Contexts : ctx[x].pc \in P}
Retrying == Cardinality(Working({"rearm", "unpend"}))
Ending == Cardinality(Working({"ended"}))
InModes(M) == {c \in Conns : Mode(c) \in M}

(* A connection that failed with its rule in the NSS is still counted. *)
Orphan(c) == Failed(Mode(c)) /\ rule[c] # NoRule
Orphans == {c \in Conns : Orphan(c)}
Excess == accelerated_count - Ending - InMode({"ACCEL", "DECEL_PENDING"})

(* The counters say what they are kept for, orphans are counted, and the   *)
(* limit holds.                                                            *)
CountInv ==
  /\ pending_accel_count = InMode({"ACCEL_PENDING"})
  /\ pending_decel_count = Retrying + AllDestroys
  /\ Cardinality(Orphans) <= Excess /\ Excess <= InMode({"FAIL_DRIVER"})
  /\ pending_accel_count + accelerated_count <= AccelLimit

-----------------------------------------------------------------------------
(* How the numbers change *)

(* The number of connections in a set of modes. *)
LEMMA ModesFinite ==
  ASSUME NEW M
  PROVE  IsFiniteSet(InModes(M)) /\ InMode(M) = Cardinality(InModes(M)) /\ InMode(M) \in Nat
<1>1. InModes(M) \subseteq Conns
  BY DEF InModes
<1>2. IsFiniteSet(InModes(M))
  BY <1>1, FiniteAssumption, FS_Subset
<1>3. InMode(M) = Cardinality(InModes(M))
  BY DEF InMode, InModes, Mode
<1> QED  BY <1>2, <1>3, FS_CardinalityType

(* What the counters are compared with are numbers. *)
LEMMA NumberTypes ==
  ASSUME TypeOK
  PROVE  /\ Retrying \in Nat /\ Ending \in Nat /\ AllDestroys \in Nat
         /\ IsFiniteSet(Orphans) /\ Cardinality(Orphans) \in Nat
<1>1. \A P : Working(P) \subseteq Contexts
  BY DEF Working
<1>2. Retrying \in Nat /\ Ending \in Nat
  BY <1>1, FiniteAssumption, FS_Subset, FS_CardinalityType DEF Retrying, Ending
<1>3. In(cmds, DestroyCmd) \in Nat /\ In(host, DestroyMsg) \in Nat
  BY InType DEF TypeOK
<1>4. AllDestroys \in Nat
  BY <1>3 DEF AllDestroys
<1>5. Orphans \subseteq Conns
  BY DEF Orphans
<1> QED  BY <1>2, <1>4, <1>5, FiniteAssumption, FS_Subset, FS_CardinalityType

(* Only x and c change. *)
OnlyAt(x, c) ==
  /\ \A y \in Contexts \ {x} : ctx'[y] = ctx[y]
  /\ \A d \in Conns \ {c} : feci'[d] = feci[d] /\ rule'[d] = rule[d]

(* One connection changes its mode. *)
LEMMA ModesChange ==
  ASSUME NEW c \in Conns, \A d \in Conns \ {c} : feci'[d] = feci[d], NEW M
  PROVE  InMode(M)' = InMode(M) - OneIf(Mode(c) \in M) + OneIf(Mode(c)' \in M)
<1> DEFINE T == InModes(M)
           U == InModes(M)'
<1>1. T \ {c} = U \ {c}
  BY DEF InModes, Mode
<1>2. (c \in T <=> Mode(c) \in M) /\ (c \in U <=> Mode(c)' \in M)
  BY DEF InModes, Mode
<1>3. IsFiniteSet(T) /\ InMode(M) = Cardinality(T)
  BY ModesFinite
<1>4. InMode(M)' = Cardinality(U)
  BY DEF InMode, InModes, Mode
<1> HIDE DEF T, U
<1>5. /\ Cardinality(T) \in Nat
      /\ Cardinality(U) = Cardinality(T) - (IF c \in T THEN 1 ELSE 0)
                                         + (IF c \in U THEN 1 ELSE 0)
  BY <1>1, <1>3, SizeChange
<1> QED  BY <1>2, <1>3, <1>4, <1>5 DEF OneIf

(* One context changes what it is at. *)
LEMMA WorkingChange ==
  ASSUME NEW x \in Contexts, \A y \in Contexts \ {x} : ctx'[y] = ctx[y], NEW P
  PROVE  Cardinality(Working(P))' = Cardinality(Working(P))
           - OneIf(ctx[x].pc \in P) + OneIf(ctx'[x].pc \in P)
<1> DEFINE T == Working(P)
           U == Working(P)'
<1>1. T \ {x} = U \ {x} /\ T \subseteq Contexts
  BY DEF Working
<1>2. (x \in T <=> ctx[x].pc \in P) /\ (x \in U <=> ctx'[x].pc \in P)
  BY DEF Working
<1>3. IsFiniteSet(T)
  BY <1>1, FiniteAssumption, FS_Subset
<1> HIDE DEF T, U
<1>4. /\ Cardinality(T) \in Nat
      /\ Cardinality(U) = Cardinality(T) - (IF x \in T THEN 1 ELSE 0)
                                         + (IF x \in U THEN 1 ELSE 0)
  BY <1>1, <1>3, SizeChange
<1>5. Cardinality(U) = Cardinality(T) - OneIf(ctx[x].pc \in P) + OneIf(ctx'[x].pc \in P)
  BY <1>2, <1>4 DEF OneIf
<1> QED  BY <1>5 DEF T, U

(* One connection becomes or ceases to be an orphan. *)
LEMMA OrphansChange ==
  ASSUME TypeOK, NEW c \in Conns,
         \A d \in Conns \ {c} : feci'[d] = feci[d] /\ rule'[d] = rule[d]
  PROVE  Cardinality(Orphans)' = Cardinality(Orphans) - OneIf(Orphan(c)) + OneIf(Orphan(c)')
<1> DEFINE T == Orphans
           U == Orphans'
<1>1. T \ {c} = U \ {c}
  BY DEF Orphans, Orphan, Mode
<1>2. (c \in T <=> Orphan(c)) /\ (c \in U <=> Orphan(c)')
  BY DEF Orphans, Orphan, Mode
<1>3. IsFiniteSet(T)
  BY NumberTypes
<1> HIDE DEF T, U
<1>4. /\ Cardinality(T) \in Nat
      /\ Cardinality(U) = Cardinality(T) - (IF c \in T THEN 1 ELSE 0)
                                         + (IF c \in U THEN 1 ELSE 0)
  BY <1>1, <1>3, SizeChange
<1>5. Cardinality(U) = Cardinality(T) - OneIf(Orphan(c)) + OneIf(Orphan(c)')
  BY <1>2, <1>4 DEF OneIf
<1> QED  BY <1>5 DEF T, U

(* What the step of x on c must do to the counters, if v is what it leaves *)
(* counted of an acceleration it gives up.                                 *)
Counted(x, c, v) ==
  /\ pending_accel_count' = pending_accel_count
       - OneIf(Mode(c) = "ACCEL_PENDING") + OneIf(Mode(c)' = "ACCEL_PENDING")
  /\ pending_decel_count' = pending_decel_count + AllDestroys' - AllDestroys
       - OneIf(ctx[x].pc \in {"rearm", "unpend"}) + OneIf(ctx'[x].pc \in {"rearm", "unpend"})
  /\ accelerated_count' = accelerated_count + v
       - OneIf(ctx[x].pc = "ended") + OneIf(ctx'[x].pc = "ended")
       - OneIf(Mode(c) \in {"ACCEL", "DECEL_PENDING"})
       + OneIf(Mode(c)' \in {"ACCEL", "DECEL_PENDING"})
  /\ OneIf(Orphan(c)') - OneIf(Orphan(c)) <= v
  /\ v <= OneIf(Mode(c)' = "FAIL_DRIVER") - OneIf(Mode(c) = "FAIL_DRIVER")
  /\ \/ pending_accel_count' + accelerated_count' <= pending_accel_count + accelerated_count
     \/ pending_accel_count' + accelerated_count' <= AccelLimit

(* A step of one context on one connection that counts what it changes. *)
LEMMA CountStep ==
  ASSUME TypeOK, TypeOK', CountInv, NEW x \in Contexts, NEW c \in Conns, NEW v \in {0, 1},
         OnlyAt(x, c), Counted(x, c, v)
  PROVE  CountInv'
<1>1. \A b : OneIf(b) \in Int
  BY DEF OneIf
<1>2. /\ pending_accel_count \in Int /\ pending_decel_count \in Int /\ accelerated_count \in Int
      /\ pending_accel_count' \in Int /\ pending_decel_count' \in Int
      /\ accelerated_count' \in Int
  BY DEF TypeOK
<1>3. /\ Retrying \in Nat /\ Ending \in Nat /\ AllDestroys \in Nat
      /\ Cardinality(Orphans) \in Nat
  BY NumberTypes
<1>4. AllDestroys' \in Nat
  <2>1. In(cmds', DestroyCmd) \in Nat /\ In(host', DestroyMsg) \in Nat
    BY InType DEF TypeOK
  <2> QED  BY <2>1 DEF AllDestroys, DestroyCmd, DestroyMsg
<1>5. \A M : InMode(M) \in Nat
  BY ModesFinite
<1>6. ASSUME NEW M  PROVE InMode(M)' = InMode(M) - OneIf(Mode(c) \in M) + OneIf(Mode(c)' \in M)
  BY ModesChange DEF OnlyAt
<1>7. /\ InMode({"ACCEL_PENDING"})' = InMode({"ACCEL_PENDING"})
           - OneIf(Mode(c) = "ACCEL_PENDING") + OneIf(Mode(c)' = "ACCEL_PENDING")
      /\ InMode({"FAIL_DRIVER"})' = InMode({"FAIL_DRIVER"})
           - OneIf(Mode(c) = "FAIL_DRIVER") + OneIf(Mode(c)' = "FAIL_DRIVER")
      /\ InMode({"ACCEL", "DECEL_PENDING"})' = InMode({"ACCEL", "DECEL_PENDING"})
           - OneIf(Mode(c) \in {"ACCEL", "DECEL_PENDING"})
           + OneIf(Mode(c)' \in {"ACCEL", "DECEL_PENDING"})
  BY <1>6 DEF OneIf
<1>8. /\ Retrying' = Retrying - OneIf(ctx[x].pc \in {"rearm", "unpend"})
                              + OneIf(ctx'[x].pc \in {"rearm", "unpend"})
      /\ Ending' = Ending - OneIf(ctx[x].pc = "ended") + OneIf(ctx'[x].pc = "ended")
  <2>1. \A P : Cardinality(Working(P))' = Cardinality(Working(P))
                 - OneIf(ctx[x].pc \in P) + OneIf(ctx'[x].pc \in P)
    BY WorkingChange DEF OnlyAt
  <2> QED  BY <2>1 DEF Retrying, Ending, OneIf
<1>9. Cardinality(Orphans)' = Cardinality(Orphans) - OneIf(Orphan(c)) + OneIf(Orphan(c)')
  BY OrphansChange DEF OnlyAt
<1>10. pending_accel_count' = InMode({"ACCEL_PENDING"})'
  BY <1>1, <1>2, <1>5, <1>7 DEF Counted, CountInv
<1>11. pending_decel_count' = Retrying' + AllDestroys'
  BY <1>1, <1>2, <1>3, <1>4, <1>8 DEF Counted, CountInv
<1>12. Excess' = Excess + v
  BY <1>1, <1>2, <1>3, <1>5, <1>7, <1>8 DEF Counted, Excess
<1>13. Excess \in Int
  BY <1>2, <1>3, <1>5 DEF Excess
<1>14. Cardinality(Orphans)' <= Excess' /\ Excess' <= InMode({"FAIL_DRIVER"})'
  BY <1>1, <1>3, <1>5, <1>7, <1>9, <1>12, <1>13 DEF Counted, CountInv
<1>15. pending_accel_count' + accelerated_count' <= AccelLimit
  BY <1>2, LimitAssumption DEF Counted, CountInv
<1> QED  BY <1>10, <1>11, <1>14, <1>15 DEF CountInv

(* The destroys under way, when a message is sent, taken or answered *)
LEMMA DestroysSent ==
  ASSUME TypeOK, NEW m \in CmdType, cmds' = Append(cmds, m), UNCHANGED host
  PROVE  AllDestroys' = AllDestroys + OneIf(m.type = "destroy")
<1>1. cmds \in Seq(CmdType) /\ host \in Seq(HostType)
  BY DEF TypeOK
<1>2. In(cmds', DestroyCmd) = In(cmds, DestroyCmd) + (IF m \in DestroyCmd THEN 1 ELSE 0)
  BY <1>1, InAppend
<1>3. In(cmds, DestroyCmd) \in Nat /\ In(host, DestroyMsg) \in Nat
  BY <1>1, InType
<1>4. m \in DestroyCmd <=> m.type = "destroy"
  BY DEF DestroyCmd
<1>5. AllDestroys' = In(cmds', DestroyCmd) + In(host, DestroyMsg)
  BY DEF AllDestroys, DestroyCmd, DestroyMsg
<1> QED  BY <1>2, <1>3, <1>4, <1>5 DEF AllDestroys, OneIf

(* An answer is handled. *)
LEMMA DestroysTaken ==
  ASSUME TypeOK, NEW i \in DOMAIN host, NEW m, m = host[i], host' = RemoveAt(host, i),
         UNCHANGED cmds
  PROVE  AllDestroys' = AllDestroys - OneIf(m.type = "destroy")
<1>1. cmds \in Seq(CmdType) /\ host \in Seq(HostType) /\ m \in HostType
  BY DEF TypeOK
<1>2. In(host', DestroyMsg) = In(host, DestroyMsg) - (IF m \in DestroyMsg THEN 1 ELSE 0)
  BY <1>1, InRemoveAt
<1>3. In(cmds, DestroyCmd) \in Nat /\ In(host, DestroyMsg) \in Nat
  BY <1>1, InType
<1>4. m \in DestroyMsg <=> m.type = "destroy"
  BY <1>1 DEF DestroyMsg
<1>5. AllDestroys' = In(cmds, DestroyCmd) + In(host', DestroyMsg)
  BY DEF AllDestroys, DestroyCmd, DestroyMsg
<1> QED  BY <1>2, <1>3, <1>4, <1>5 DEF AllDestroys, OneIf

(* Messages that are no destroy pass on. *)
LEMMA DestroysKept ==
  ASSUME TypeOK,
         \/ UNCHANGED <<cmds, host>>
         \/ /\ cmds # <<>> /\ cmds' = Tail(cmds)
            /\ \E ack \in BOOLEAN : host' = Append(host, [type |-> Head(cmds).type,
                                                         c |-> Head(cmds).c, ack |-> ack])
         \/ /\ UNCHANGED cmds
            /\ \E c \in Conns, t \in {"sync", "flush"} :
                 host' = Append(host, [type |-> t, c |-> c, ack |-> FALSE])
  PROVE  AllDestroys' = AllDestroys
<1>1. cmds \in Seq(CmdType) /\ host \in Seq(HostType)
  BY DEF TypeOK
<1>2. In(cmds, DestroyCmd) \in Nat /\ In(host, DestroyMsg) \in Nat
  BY <1>1, InType
<1>3. AllDestroys' = In(cmds', DestroyCmd) + In(host', DestroyMsg)
  BY DEF AllDestroys, DestroyCmd, DestroyMsg
<1>4. CASE UNCHANGED <<cmds, host>>
  BY <1>3, <1>4 DEF AllDestroys
<1>5. ASSUME cmds # <<>>, cmds' = Tail(cmds), NEW ack \in BOOLEAN,
             host' = Append(host, [type |-> Head(cmds).type, c |-> Head(cmds).c, ack |-> ack])
      PROVE  AllDestroys' = AllDestroys
  <2>1. PICK m : m = Head(cmds)
    OBVIOUS
  <2>2. PICK r : r = [type |-> m.type, c |-> m.c, ack |-> ack]
    OBVIOUS
  <2>3. m \in CmdType
    BY <1>1, <1>5, <2>1
  <2>4. r \in HostType /\ r.type = m.type
    BY <2>2, <2>3 DEF CmdType, HostType
  <2>5. In(cmds', DestroyCmd) = In(cmds, DestroyCmd) - (IF m \in DestroyCmd THEN 1 ELSE 0)
    BY <1>1, <1>5, <2>1, InTail
  <2>6. In(host', DestroyMsg) = In(host, DestroyMsg) + (IF r \in DestroyMsg THEN 1 ELSE 0)
    BY <1>1, <1>5, <2>1, <2>2, <2>4, InAppend
  <2>7. m \in DestroyCmd <=> r \in DestroyMsg
    BY <2>3, <2>4 DEF DestroyCmd, DestroyMsg
  <2> QED  BY <1>2, <1>3, <2>5, <2>6, <2>7 DEF AllDestroys
<1>6. ASSUME UNCHANGED cmds, NEW c \in Conns, NEW t \in {"sync", "flush"},
             host' = Append(host, [type |-> t, c |-> c, ack |-> FALSE])
      PROVE  AllDestroys' = AllDestroys
  <2>1. PICK r : r = [type |-> t, c |-> c, ack |-> FALSE]
    OBVIOUS
  <2>2. r \in HostType /\ r.type = t
    BY <2>1 DEF HostType
  <2>3. In(host', DestroyMsg) = In(host, DestroyMsg) + (IF r \in DestroyMsg THEN 1 ELSE 0)
    BY <1>1, <1>6, <2>1, <2>2, InAppend
  <2>4. r \notin DestroyMsg
    BY <2>2 DEF DestroyMsg
  <2> QED  BY <1>2, <1>3, <1>6, <2>3, <2>4 DEF AllDestroys
<1> QED  BY <1>4, <1>5, <1>6

-----------------------------------------------------------------------------
(* The steps *)

(* A step that leaves the modes, and the contexts that are counted, alone *)
LEMMA QuietCounts ==
  ASSUME IndInv, IndInv', CountInv, NEW x \in Contexts, NEW c \in Conns, OnlyAt(x, c),
         UNCHANGED counts, AllDestroys' = AllDestroys, Mode(c)' = Mode(c),
         \/ rule'[c] = rule[c] \/ rule'[c] = NoRule \/ Mode(c) = "ACCEL_PENDING",
         ctx[x].pc \in {"ended", "rearm", "unpend"} \/ ctx'[x].pc \in {"ended", "rearm", "unpend"}
           => ctx'[x].pc = ctx[x].pc \/ (ctx[x].pc = "rearm" /\ ctx'[x].pc = "unpend")
  PROVE  CountInv'
<1>1. TypeOK /\ TypeOK'
  BY DEF IndInv
<1>2. UNCHANGED <<pending_accel_count, pending_decel_count, accelerated_count>>
  BY DEF counts
<1>3. /\ OneIf(ctx[x].pc = "ended") = OneIf(ctx'[x].pc = "ended")
      /\ OneIf(ctx[x].pc \in {"rearm", "unpend"}) = OneIf(ctx'[x].pc \in {"rearm", "unpend"})
  BY DEF OneIf
<1>4. /\ OneIf(Mode(c)' = "ACCEL_PENDING") = OneIf(Mode(c) = "ACCEL_PENDING")
      /\ OneIf(Mode(c)' \in {"ACCEL", "DECEL_PENDING"}) = OneIf(Mode(c) \in {"ACCEL", "DECEL_PENDING"})
      /\ OneIf(Mode(c)' = "FAIL_DRIVER") = OneIf(Mode(c) = "FAIL_DRIVER")
  BY DEF OneIf
<1>5. \A b : OneIf(b) \in Int
  BY DEF OneIf
<1>6. Orphan(c)' => Orphan(c)
  BY DEF Orphan, Failed, FailModes
<1>7. OneIf(Orphan(c)') <= OneIf(Orphan(c))
  BY <1>6 DEF OneIf
<1>8. /\ pending_accel_count \in Int /\ pending_decel_count \in Int /\ accelerated_count \in Int
      /\ AllDestroys \in Int
  BY <1>1, NumberTypes, SMTT(30) DEF TypeOK
<1>9. Counted(x, c, 0)
  BY <1>2, <1>3, <1>4, <1>5, <1>7, <1>8 DEF Counted
<1> QED  BY <1>1, <1>9, CountStep

(* One that only moves a context on *)
LEMMA MovingCounts ==
  ASSUME IndInv, IndInv', CountInv, NEW x \in Contexts, UNCHANGED <<feci, nss, counts>>,
         \A y \in Contexts \ {x} : ctx'[y] = ctx[y],
         ctx[x].pc \notin {"ended", "rearm", "unpend"},
         ctx'[x].pc \notin {"ended", "rearm", "unpend"}
  PROVE  CountInv'
<1>1. PICK c \in Conns : TRUE
  BY FiniteAssumption
<1>2. UNCHANGED <<cmds, host>> /\ UNCHANGED rule /\ UNCHANGED counts
  BY DEF nss
<1>3. OnlyAt(x, c) /\ Mode(c)' = Mode(c)
  BY <1>2 DEF OnlyAt, Mode
<1>4. AllDestroys' = AllDestroys
  BY <1>2, DestroysKept DEF IndInv
<1> QED  BY <1>2, <1>3, <1>4, QuietCounts

(* One that changes the mode of c, and leaves the messages and rules alone *)
LEMMA ModeCounts ==
  ASSUME IndInv, IndInv', CountInv, NEW x \in Contexts, NEW c \in Conns,
         \A y \in Contexts \ {x} : ctx'[y] = ctx[y],
         \A d \in Conns \ {c} : feci'[d] = feci[d],
         UNCHANGED <<nss, pending_decel_count>>,
         ctx[x].pc \notin {"rearm", "unpend"}, ctx'[x].pc \notin {"rearm", "unpend"},
         pending_accel_count' = pending_accel_count
           - OneIf(Mode(c) = "ACCEL_PENDING") + OneIf(Mode(c)' = "ACCEL_PENDING"),
         accelerated_count' = accelerated_count
           - OneIf(ctx[x].pc = "ended") + OneIf(ctx'[x].pc = "ended")
           - OneIf(Mode(c) \in {"ACCEL", "DECEL_PENDING"})
           + OneIf(Mode(c)' \in {"ACCEL", "DECEL_PENDING"}),
         ~Failed(Mode(c)), Failed(Mode(c)') => rule[c] = NoRule,
         \/ pending_accel_count' + accelerated_count' <= pending_accel_count + accelerated_count
         \/ pending_accel_count' + accelerated_count' <= AccelLimit
  PROVE  CountInv'
<1>1. TypeOK /\ TypeOK'
  BY DEF IndInv
<1>2. UNCHANGED <<cmds, host>> /\ UNCHANGED rule /\ UNCHANGED pending_decel_count
  BY DEF nss
<1>3. AllDestroys' = AllDestroys /\ AllDestroys \in Int /\ pending_decel_count \in Int
  BY <1>1, <1>2, DestroysKept, NumberTypes, SMTT(30) DEF TypeOK
<1>4. /\ OneIf(ctx[x].pc \in {"rearm", "unpend"}) = 0
      /\ OneIf(ctx'[x].pc \in {"rearm", "unpend"}) = 0
  BY DEF OneIf
<1>5. OneIf(Orphan(c)') = 0 /\ OneIf(Orphan(c)) = 0
  BY <1>2 DEF Orphan, OneIf
<1>6. OneIf(Mode(c)' = "FAIL_DRIVER") \in Nat /\ OneIf(Mode(c) = "FAIL_DRIVER") = 0
  BY DEF OneIf, Failed, FailModes
<1>7. \A b : OneIf(b) \in Int
  BY DEF OneIf
<1>8. accelerated_count \in Int /\ pending_accel_count \in Int
  BY <1>1 DEF TypeOK
<1>9. Counted(x, c, 0)
  BY <1>2, <1>3, <1>4, <1>5, <1>6, <1>7, <1>8 DEF Counted
<1>10. OnlyAt(x, c)
  BY <1>2 DEF OnlyAt
<1> QED  BY <1>1, <1>9, <1>10, CountStep

(* A packet is handled. *)
LEMMA PacketCounts ==
  ASSUME IndInv, IndInv', CountInv, NEW x \in PacketCtx, Packet(x)
  PROVE  CountInv'
<1>1. TypeOK /\ x \in Contexts /\ Conn(x) \in Conns /\ ctx[x] \in CtxType
  BY NotTimer, Known
<1>2. PICK c \in Conns : c = Conn(x)
  BY <1>1
<1>3. /\ feci \in [Conns -> FeciType] /\ feci[c] \in FeciType /\ ctx \in [Contexts -> CtxType]
      /\ pending_accel_count \in Int /\ accelerated_count \in Int
  BY <1>1 DEF TypeOK, CtxType
<1>4. \A y \in Contexts \ {x} : ctx'[y] = ctx[y]
  BY <1>3 DEF Packet, TimerSet, PacketStart, PacketExpired, Regenerate, AccelUnwanted,
     AccelPendingSet, AccelDenied, BuildAborted, RuleBuilt, CreateSent, CreateRefused, Goto,
     Return, Leave
<1>5. ctx[x].pc \in {"add", "packet", "regen", "accel", "build", "tx"}
  BY DEF Packet, TimerSet, PacketStart, PacketExpired, Regenerate, AccelUnwanted,
     AccelPendingSet, AccelDenied, BuildAborted, RuleBuilt, CreateSent, CreateRefused, At
<1>6. ctx'[x].pc \in {"idle", "packet", "regen", "accel", "build", "tx"}
  BY <1>1, <1>3, IdleType DEF Packet, TimerSet, PacketStart, PacketExpired, Regenerate,
     AccelUnwanted, AccelPendingSet, AccelDenied, BuildAborted, RuleBuilt, CreateSent,
     CreateRefused, Goto, Return, Leave, CtxType
<1>7. CASE UNCHANGED <<feci, nss, counts>>
  BY <1>1, <1>4, <1>5, <1>6, <1>7, MovingCounts
<1>8. CASE CreateSent(x)
  <2>1. /\ cmds' = Append(cmds, [type |-> "create", c |-> c, gen |-> ctx[x].gen])
        /\ feci' = [feci EXCEPT ![c].driver_fail = 0] /\ UNCHANGED host /\ UNCHANGED rule
        /\ UNCHANGED counts
    BY <1>2, <1>8 DEF CreateSent
  <2>2. PICK m : m = [type |-> "create", c |-> c, gen |-> ctx[x].gen]
    OBVIOUS
  <2>3. m \in CmdType /\ m.type = "create" /\ cmds' = Append(cmds, m)
    BY <1>1, <2>1, <2>2 DEF CmdType, CtxType
  <2>4. AllDestroys' = AllDestroys
    <3>1. AllDestroys' = AllDestroys + OneIf(m.type = "destroy") /\ AllDestroys \in Nat
      BY <1>1, <2>1, <2>3, DestroysSent, NumberTypes
    <3> QED  BY <2>3, <3>1 DEF OneIf
  <2>5. Mode(c)' = Mode(c) /\ \A d \in Conns \ {c} : feci'[d] = feci[d]
    BY <1>3, <2>1 DEF Mode, FeciType
  <2>6. OnlyAt(x, c)
    BY <1>4, <2>1, <2>5 DEF OnlyAt
  <2> QED  BY <1>1, <1>5, <1>6, <2>1, <2>4, <2>5, <2>6, QuietCounts
<1>9. CASE AccelPendingSet(x)
  <2>1. /\ feci' = [feci EXCEPT ![c].accel_mode = "ACCEL_PENDING"] /\ Mode(c) = "DECEL"
        /\ pending_accel_count + accelerated_count < AccelLimit
        /\ pending_accel_count' = pending_accel_count + 1
        /\ accelerated_count' = accelerated_count /\ UNCHANGED <<nss, pending_decel_count>>
    BY <1>2, <1>9 DEF AccelPendingSet, AccelPermitted, Mode
  <2>2. Mode(c)' = "ACCEL_PENDING" /\ \A d \in Conns \ {c} : feci'[d] = feci[d]
    BY <1>3, <2>1 DEF Mode, FeciType
  <2>3. /\ OneIf(Mode(c) = "ACCEL_PENDING") = 0 /\ OneIf(Mode(c)' = "ACCEL_PENDING") = 1
        /\ OneIf(ctx[x].pc = "ended") = 0 /\ OneIf(ctx'[x].pc = "ended") = 0
        /\ OneIf(Mode(c) \in {"ACCEL", "DECEL_PENDING"}) = 0
        /\ OneIf(Mode(c)' \in {"ACCEL", "DECEL_PENDING"}) = 0
    BY <1>5, <1>6, <2>1, <2>2 DEF OneIf
  <2>4. ~Failed(Mode(c)) /\ ~Failed(Mode(c)')
    BY <2>1, <2>2 DEF Failed, FailModes
  <2>5. pending_accel_count' + accelerated_count' <= AccelLimit
    BY <1>3, <2>1, LimitAssumption
  <2> QED
    BY <1>1, <1>3, <1>4, <1>5, <1>6, <2>1, <2>2, <2>3, <2>4, <2>5, ModeCounts
<1>10. CASE BuildAborted(x) \/ CreateRefused(x)
  <2>1. /\ ctx[x].pc \in {"build", "tx"} /\ pending_accel_count' = pending_accel_count - 1
        /\ accelerated_count' = accelerated_count /\ UNCHANGED <<nss, pending_decel_count>>
        /\ \A d \in Conns \ {c} : feci'[d] = feci[d]
    BY <1>2, <1>3, <1>10 DEF BuildAborted, CreateRefused, At
  <2>2. Mode(c)' \in {"DECEL", "FAIL_RULE", "FAIL_DRIVER"}
    <3>1. CASE BuildAborted(x)
      BY <1>2, <1>3, <3>1 DEF BuildAborted, PendingCleared, Mode, FeciType
    <3>2. CASE CreateRefused(x)
      <4>1. \E mode \in {"DECEL", "FAIL_DRIVER"} : \E n :
              feci'[c] = [PendingCleared(feci[c], mode) EXCEPT !.driver_fail = n]
        BY <1>2, <1>3, <3>2 DEF CreateRefused
      <4> QED  BY <1>3, <4>1 DEF PendingCleared, Mode, FeciType
    <3> QED  BY <1>10, <3>1, <3>2
  <2>3. Mode(c) = "ACCEL_PENDING" /\ Creates(c) = 0
    BY <1>1, <1>2, <2>1, Owners
  <2>4. rule[c] = NoRule
    <3>1. AckedCreates(c) = 0
      BY <1>1, <2>3, CountTypes, AckedAtMost
    <3> QED  BY <2>3, <3>1, NoRuleWhen
  <2>5. /\ OneIf(Mode(c) = "ACCEL_PENDING") = 1 /\ OneIf(Mode(c)' = "ACCEL_PENDING") = 0
        /\ OneIf(ctx[x].pc = "ended") = 0 /\ OneIf(ctx'[x].pc = "ended") = 0
        /\ OneIf(Mode(c) \in {"ACCEL", "DECEL_PENDING"}) = 0
        /\ OneIf(Mode(c)' \in {"ACCEL", "DECEL_PENDING"}) = 0
    BY <1>5, <1>6, <2>2, <2>3 DEF OneIf
  <2>6. ~Failed(Mode(c))
    BY <2>3 DEF Failed, FailModes
  <2>7. pending_accel_count' + accelerated_count' <= pending_accel_count + accelerated_count
    BY <1>3, <2>1
  <2> QED
    BY <1>1, <1>3, <1>4, <1>5, <1>6, <2>1, <2>4, <2>5, <2>6, <2>7, ModeCounts
<1> QED
  BY <1>7, <1>8, <1>9, <1>10 DEF Packet, TimerSet, PacketStart, PacketExpired, Regenerate,
     AccelUnwanted, AccelDenied, RuleBuilt

(* The steps of a deceleration and of a defunct *)
LEMMA DecelerationCounts ==
  ASSUME IndInv, IndInv', CountInv, NEW x \in Contexts, Deceleration(x)
  PROVE  CountInv'
<1>1. TypeOK /\ TypeOK' /\ Conn(x) \in Conns /\ ctx[x] \in CtxType
  BY Known DEF IndInv
<1>2. PICK c \in Conns : c = Conn(x)
  BY <1>1
<1>3. /\ feci \in [Conns -> FeciType] /\ feci[c] \in FeciType /\ ctx \in [Contexts -> CtxType]
      /\ pending_accel_count \in Int /\ accelerated_count \in Int
      /\ pending_decel_count \in Int /\ AllDestroys \in Int
  <2>1. AllDestroys \in Int
    BY <1>1, NumberTypes
  <2> QED  BY <1>1, <2>1 DEF TypeOK, CtxType
<1>4. /\ \A y \in Contexts \ {x} : ctx'[y] = ctx[y]
      /\ \A d \in Conns \ {c} : feci'[d] = feci[d]
  BY <1>2, <1>3 DEF Deceleration, Decelerate, Defunct, DestroySent, DestroyGivenUp,
     DestroyRefused, Rearm, FailureHandled, LastRef, SendReturns, Goto, Return, Leave
<1>5. \A b : OneIf(b) \in Int
  BY DEF OneIf
<1>6. CASE LastRef(x)
  <2>1. ctx[x].pc = "last" /\ ctx'[x].pc = "idle" /\ UNCHANGED <<feci, nss, counts>>
    BY <1>3, <1>6, IdleType DEF LastRef, At, Leave
  <2> QED  BY <1>4, <2>1, MovingCounts
<1>7. CASE Rearm(x)
  <2>1. /\ ctx[x].pc = "rearm" /\ ctx'[x].pc = "unpend" /\ UNCHANGED <<feci, cmds, host, rule>>
        /\ UNCHANGED counts
    BY <1>1, <1>3, <1>7 DEF Rearm, At, Goto, CtxType, nss
  <2>2. AllDestroys' = AllDestroys
    BY <1>1, <2>1, DestroysKept
  <2>3. OnlyAt(x, c) /\ Mode(c)' = Mode(c)
    BY <1>4, <2>1 DEF OnlyAt, Mode
  <2> QED  BY <2>1, <2>2, <2>3, QuietCounts
<1>8. CASE Decelerate(x) \/ Defunct(x)
  <2>1. ctx[x].pc = "decel" /\ UNCHANGED nss /\ UNCHANGED counts
    BY <1>8 DEF Decelerate, Defunct, At
  <2>2. ctx'[x].pc \in {"idle", "send", "last"}
    BY <1>1, <1>3, <1>8, IdleType DEF Decelerate, Defunct, Goto, Return, Leave, CtxType
  <2>3. \/ Mode(c)' = Mode(c)
        \/ Mode(c) = "ACCEL" /\ Mode(c)' = "DECEL_PENDING"
        \/ Mode(c) = "DECEL" /\ Mode(c)' = "FAIL_DEFUNCT"
    <3>1. CASE Decelerate(x)
      <4>1. feci'[c] = DecelNoted(feci[c])
        BY <1>2, <1>3, <3>1 DEF Decelerate
      <4> QED  BY <1>3, <4>1, DecelNotedOK DEF Mode, DecelAllowed
    <3>2. CASE Defunct(x)
      <4>1. feci'[c] = Defuncted(feci[c])
        BY <1>2, <1>3, <3>2 DEF Defunct
      <4> QED  BY <1>3, <4>1, DefunctedOK DEF Mode, DecelAllowed
    <3> QED  BY <1>8, <3>1, <3>2
  <2>4. CASE Mode(c)' = Mode(c)
    <3>1. AllDestroys' = AllDestroys /\ UNCHANGED rule
      BY <1>1, <2>1, DestroysKept DEF nss
    <3>2. OnlyAt(x, c)
      BY <1>4, <3>1 DEF OnlyAt
    <3> QED  BY <2>1, <2>2, <2>4, <3>1, <3>2, QuietCounts
  <2>5. CASE \/ Mode(c) = "ACCEL" /\ Mode(c)' = "DECEL_PENDING"
             \/ Mode(c) = "DECEL" /\ Mode(c)' = "FAIL_DEFUNCT"
    <3>1. /\ OneIf(Mode(c) = "ACCEL_PENDING") = 0 /\ OneIf(Mode(c)' = "ACCEL_PENDING") = 0
          /\ OneIf(ctx[x].pc = "ended") = 0 /\ OneIf(ctx'[x].pc = "ended") = 0
          /\ OneIf(Mode(c) \in {"ACCEL", "DECEL_PENDING"})
               = OneIf(Mode(c)' \in {"ACCEL", "DECEL_PENDING"})
      BY <2>1, <2>2, <2>5 DEF OneIf
    <3>2. ~Failed(Mode(c)) /\ (Failed(Mode(c)') => rule[c] = NoRule)
      BY <2>5, NoRuleWhen DEF Failed, FailModes
    <3>3. /\ pending_accel_count' = pending_accel_count /\ accelerated_count' = accelerated_count
          /\ pending_decel_count' = pending_decel_count /\ UNCHANGED <<nss, pending_decel_count>>
      BY <2>1 DEF counts
    <3>4. ctx[x].pc \notin {"rearm", "unpend"} /\ ctx'[x].pc \notin {"rearm", "unpend"}
      BY <2>1, <2>2
    <3>5. /\ pending_accel_count' = pending_accel_count
               - OneIf(Mode(c) = "ACCEL_PENDING") + OneIf(Mode(c)' = "ACCEL_PENDING")
          /\ accelerated_count' = accelerated_count
               - OneIf(ctx[x].pc = "ended") + OneIf(ctx'[x].pc = "ended")
               - OneIf(Mode(c) \in {"ACCEL", "DECEL_PENDING"})
               + OneIf(Mode(c)' \in {"ACCEL", "DECEL_PENDING"})
          /\ pending_accel_count' + accelerated_count' <= pending_accel_count + accelerated_count
      BY <1>3, <1>5, <3>1, <3>3
    <3> QED
      BY ONLY IndInv, IndInv', CountInv, x \in Contexts, c \in Conns,
              <1>4, <3>2, <3>3, <3>4, <3>5, ModeCounts
  <2> QED  BY <2>3, <2>4, <2>5
<1>9. CASE DestroySent(x) \/ DestroyGivenUp(x) \/ DestroyRefused(x)
  <2>1. ctx[x].pc = "send" /\ Mode(c) = "DECEL_PENDING" /\ UNCHANGED rule
    BY <1>2, <1>9, Owners DEF DestroySent, DestroyGivenUp, DestroyRefused, At, nss
  <2>2. OnlyAt(x, c)
    BY <1>4, <2>1 DEF OnlyAt
  <2>3. /\ OneIf(ctx[x].pc = "ended") = 0 /\ OneIf(ctx[x].pc \in {"rearm", "unpend"}) = 0
        /\ OneIf(Mode(c) = "ACCEL_PENDING") = 0 /\ OneIf(Mode(c) = "FAIL_DRIVER") = 0
        /\ OneIf(Mode(c) \in {"ACCEL", "DECEL_PENDING"}) = 1 /\ OneIf(Orphan(c)) = 0
    BY <2>1 DEF OneIf, Orphan, Failed, FailModes
  <2>4. CASE DestroySent(x)
    <3>1. /\ pending_decel_count' = pending_decel_count + 1
          /\ cmds' = Append(cmds, [type |-> "destroy", c |-> c, gen |-> 0]) /\ UNCHANGED host
          /\ feci' = [feci EXCEPT ![c].driver_fail = 0]
          /\ pending_accel_count' = pending_accel_count /\ accelerated_count' = accelerated_count
      BY <1>2, <2>4 DEF DestroySent
    <3>2. PICK m : m = [type |-> "destroy", c |-> c, gen |-> 0]
      OBVIOUS
    <3>3. m \in CmdType /\ m.type = "destroy"
      BY <3>2, BoundAssumption DEF CmdType
    <3>4. AllDestroys' = AllDestroys + 1
      <4>1. AllDestroys' = AllDestroys + OneIf(m.type = "destroy")
        BY <1>1, <3>1, <3>2, <3>3, DestroysSent
      <4> QED  BY <3>3, <4>1 DEF OneIf
    <3>5. ctx'[x].pc \in {"idle", "last"}
      BY <1>1, <1>3, <2>4, IdleType DEF DestroySent, SendReturns, Leave, CtxType
    <3>6. Mode(c)' = "DECEL_PENDING"
      BY <1>3, <2>1, <3>1 DEF Mode, FeciType
    <3>7. /\ OneIf(ctx'[x].pc = "ended") = 0 /\ OneIf(ctx'[x].pc \in {"rearm", "unpend"}) = 0
          /\ OneIf(Mode(c)' = "ACCEL_PENDING") = 0 /\ OneIf(Mode(c)' = "FAIL_DRIVER") = 0
          /\ OneIf(Mode(c)' \in {"ACCEL", "DECEL_PENDING"}) = 1 /\ OneIf(Orphan(c)') = 0
      BY <3>5, <3>6 DEF OneIf, Orphan, Failed, FailModes
    <3>8. Counted(x, c, 0)
      BY <1>3, <2>3, <3>1, <3>4, <3>7 DEF Counted
    <3> QED  BY <1>1, <2>2, <3>8, CountStep
  <2>5. CASE DestroyGivenUp(x)
    <3>1. /\ feci' = [feci EXCEPT ![c].driver_fail = DriverFailLimit,
                                  ![c].accel_mode = "FAIL_DRIVER"]
          /\ UNCHANGED <<cmds, host>> /\ pending_decel_count' = pending_decel_count
          /\ pending_accel_count' = pending_accel_count /\ accelerated_count' = accelerated_count
      BY <1>2, <2>5 DEF DestroyGivenUp, nss, counts
    <3>2. AllDestroys' = AllDestroys
      BY <1>1, <3>1, DestroysKept
    <3>3. ctx'[x].pc \in {"idle", "last"}
      BY <1>1, <1>3, <2>5, IdleType DEF DestroyGivenUp, SendReturns, Leave, CtxType
    <3>4. Mode(c)' = "FAIL_DRIVER"
      BY <1>3, <3>1 DEF Mode, FeciType
    <3>5. /\ OneIf(ctx'[x].pc = "ended") = 0 /\ OneIf(ctx'[x].pc \in {"rearm", "unpend"}) = 0
          /\ OneIf(Mode(c)' = "ACCEL_PENDING") = 0 /\ OneIf(Mode(c)' = "FAIL_DRIVER") = 1
          /\ OneIf(Mode(c)' \in {"ACCEL", "DECEL_PENDING"}) = 0
          /\ OneIf(Orphan(c)') \in 0..1
      BY <3>3, <3>4 DEF OneIf
    <3>6. Counted(x, c, 1)
      BY <1>3, <2>3, <3>1, <3>2, <3>5 DEF Counted
    <3> QED  BY <1>1, <2>2, <3>6, CountStep
  <2>6. CASE DestroyRefused(x)
    <3>1. /\ \E n : feci' = [feci EXCEPT ![c].driver_fail = n, ![c].accel_mode = "ACCEL",
                        ![c].is_defunct = FALSE, ![c].destroy_fail_handle_pending = TRUE]
          /\ UNCHANGED <<cmds, host>> /\ pending_decel_count' = pending_decel_count + 1
          /\ pending_accel_count' = pending_accel_count /\ accelerated_count' = accelerated_count
      BY <1>2, <2>6 DEF DestroyRefused, nss
    <3>2. AllDestroys' = AllDestroys
      BY <1>1, <3>1, DestroysKept
    <3>3. ctx'[x].pc = "rearm"
      BY <1>1, <1>3, <2>6 DEF DestroyRefused, Goto, CtxType
    <3>4. Mode(c)' = "ACCEL"
      BY <1>3, <3>1 DEF Mode, FeciType
    <3>5. /\ OneIf(ctx'[x].pc = "ended") = 0 /\ OneIf(ctx'[x].pc \in {"rearm", "unpend"}) = 1
          /\ OneIf(Mode(c)' = "ACCEL_PENDING") = 0 /\ OneIf(Mode(c)' = "FAIL_DRIVER") = 0
          /\ OneIf(Mode(c)' \in {"ACCEL", "DECEL_PENDING"}) = 1 /\ OneIf(Orphan(c)') = 0
      BY <3>3, <3>4 DEF OneIf, Orphan, Failed, FailModes
    <3>6. Counted(x, c, 0)
      BY <1>3, <2>3, <3>1, <3>2, <3>5 DEF Counted
    <3> QED  BY <1>1, <2>2, <3>6, CountStep
  <2> QED  BY <1>9, <2>4, <2>5, <2>6
<1>10. CASE FailureHandled(x)
  <2>1. /\ ctx[x].pc = "unpend" /\ UNCHANGED <<cmds, host>> /\ UNCHANGED rule
        /\ pending_decel_count' = pending_decel_count - 1
        /\ pending_accel_count' = pending_accel_count /\ accelerated_count' = accelerated_count
        /\ feci' = [feci EXCEPT ![c].destroy_fail_handle_pending = FALSE]
    BY <1>2, <1>10 DEF FailureHandled, At, nss
  <2>2. AllDestroys' = AllDestroys
    BY <1>1, <2>1, DestroysKept
  <2>3. ctx'[x].pc \in {"idle", "last"}
    BY <1>1, <1>3, <1>10, IdleType DEF FailureHandled, SendReturns, Leave, CtxType
  <2>4. Mode(c)' = Mode(c)
    BY <1>3, <2>1 DEF Mode, FeciType
  <2>5. /\ OneIf(ctx[x].pc = "ended") = 0 /\ OneIf(ctx[x].pc \in {"rearm", "unpend"}) = 1
        /\ OneIf(ctx'[x].pc = "ended") = 0 /\ OneIf(ctx'[x].pc \in {"rearm", "unpend"}) = 0
        /\ OneIf(Mode(c)' = "ACCEL_PENDING") = OneIf(Mode(c) = "ACCEL_PENDING")
        /\ OneIf(Mode(c)' = "FAIL_DRIVER") = OneIf(Mode(c) = "FAIL_DRIVER")
        /\ OneIf(Mode(c)' \in {"ACCEL", "DECEL_PENDING"})
             = OneIf(Mode(c) \in {"ACCEL", "DECEL_PENDING"})
        /\ OneIf(Orphan(c)') = OneIf(Orphan(c))
    BY <2>1, <2>3, <2>4 DEF OneIf, Orphan
  <2>6. Counted(x, c, 0)
    BY <1>3, <1>5, <2>1, <2>2, <2>5 DEF Counted
  <2>7. OnlyAt(x, c)
    BY <1>4, <2>1 DEF OnlyAt
  <2> QED  BY <1>1, <2>6, <2>7, CountStep
<1> QED  BY <1>6, <1>7, <1>8, <1>9, <1>10 DEF Deceleration

(* The steps of a sync message *)
LEMMA SyncCounts ==
  ASSUME IndInv, IndInv', CountInv, NEW x \in NssCtx, Sync(x)
  PROVE  CountInv'
<1>1. TypeOK /\ TypeOK' /\ x \in Contexts /\ Conn(x) \in Conns /\ ctx[x] \in CtxType
  BY NotTimer, Known DEF IndInv
<1>2. PICK c \in Conns : c = Conn(x)
  BY <1>1
<1>3. /\ feci \in [Conns -> FeciType] /\ feci[c] \in FeciType /\ ctx \in [Contexts -> CtxType]
      /\ pending_accel_count \in Int /\ accelerated_count \in Int /\ pending_decel_count \in Int
  BY <1>1 DEF TypeOK, CtxType
<1>4. AllDestroys \in Int /\ \A b : OneIf(b) \in Int
  BY <1>1, NumberTypes DEF OneIf
<1>5. /\ \A y \in Contexts \ {x} : ctx'[y] = ctx[y]
      /\ \A d \in Conns \ {c} : feci'[d] = feci[d]
      /\ UNCHANGED nss /\ UNCHANGED <<cmds, host>> /\ UNCHANGED rule
  BY <1>2, <1>3 DEF Sync, AccelCeased, AccelEnded, RegenPeek, Goto, Return, Leave, nss
<1>6. OnlyAt(x, c) /\ AllDestroys' = AllDestroys
  BY <1>1, <1>5, DestroysKept DEF OnlyAt
<1>7. CASE RegenPeek(x)
  <2>1. /\ ctx[x].pc = "peek" /\ ctx'[x].pc \in {"idle", "decel"}
        /\ UNCHANGED <<feci, nss, counts>>
    BY <1>1, <1>3, <1>7, IdleType DEF RegenPeek, At, Goto, Leave, CtxType
  <2> QED  BY <1>1, <1>5, <2>1, MovingCounts
<1>8. CASE AccelEnded(x)
  <2>1. /\ ctx[x].pc = "ended" /\ ctx'[x].pc \in {"idle", "peek"} /\ feci' = feci
        /\ accelerated_count' = accelerated_count - 1
        /\ pending_accel_count' = pending_accel_count /\ pending_decel_count' = pending_decel_count
    BY <1>1, <1>3, <1>8, IdleType DEF AccelEnded, At, Goto, Return, Leave, CtxType
  <2>2. /\ OneIf(ctx[x].pc = "ended") = 1 /\ OneIf(ctx[x].pc \in {"rearm", "unpend"}) = 0
        /\ OneIf(ctx'[x].pc = "ended") = 0 /\ OneIf(ctx'[x].pc \in {"rearm", "unpend"}) = 0
        /\ OneIf(Mode(c)' = "ACCEL_PENDING") = OneIf(Mode(c) = "ACCEL_PENDING")
        /\ OneIf(Mode(c)' = "FAIL_DRIVER") = OneIf(Mode(c) = "FAIL_DRIVER")
        /\ OneIf(Mode(c)' \in {"ACCEL", "DECEL_PENDING"})
             = OneIf(Mode(c) \in {"ACCEL", "DECEL_PENDING"})
        /\ OneIf(Orphan(c)') = OneIf(Orphan(c))
    BY <1>5, <2>1 DEF OneIf, Orphan, Mode
  <2>3. Counted(x, c, 0)
    BY <1>3, <1>4, <1>6, <2>1, <2>2 DEF Counted
  <2> QED  BY <1>1, <1>6, <2>3, CountStep
<1>9. CASE AccelCeased(x)
  <2>1. ctx[x].pc = "sync" /\ UNCHANGED counts
    BY <1>9 DEF AccelCeased, At
  <2>2. \/ Mode(c)' = Mode(c) /\ ctx'[x].pc = "peek"
        \/ /\ Mode(c) = "ACCEL" /\ Mode(c)' \in {"DECEL", "FAIL_NO_ACTION"}
           /\ ctx'[x].pc = "ended"
    BY <1>1, <1>2, <1>3, <1>9 DEF AccelCeased, Mode, Goto, FeciType, CtxType
  <2>3. CASE Mode(c)' = Mode(c) /\ ctx'[x].pc = "peek"
    BY <1>1, <1>5, <1>6, <2>1, <2>3, QuietCounts
  <2>4. CASE /\ Mode(c) = "ACCEL" /\ Mode(c)' \in {"DECEL", "FAIL_NO_ACTION"}
             /\ ctx'[x].pc = "ended"
    <3>1. Syncing(c) > 0
      BY <1>1, <1>2, <2>1, BusyCounts DEF Syncing, Conn
    <3>2. ~Failed(Mode(c)) /\ (Failed(Mode(c)') => rule[c] = NoRule)
      BY <2>4, <3>1, NoRuleWhen DEF Failed, FailModes
    <3>3. /\ OneIf(Mode(c) = "ACCEL_PENDING") = 0 /\ OneIf(Mode(c)' = "ACCEL_PENDING") = 0
          /\ OneIf(ctx[x].pc = "ended") = 0 /\ OneIf(ctx'[x].pc = "ended") = 1
          /\ OneIf(Mode(c) \in {"ACCEL", "DECEL_PENDING"}) = 1
          /\ OneIf(Mode(c)' \in {"ACCEL", "DECEL_PENDING"}) = 0
      BY <2>1, <2>4 DEF OneIf
    <3>4. /\ pending_accel_count' = pending_accel_count /\ accelerated_count' = accelerated_count
          /\ UNCHANGED <<nss, pending_decel_count>>
          /\ ctx[x].pc \notin {"rearm", "unpend"} /\ ctx'[x].pc \notin {"rearm", "unpend"}
      BY <1>5, <2>1, <2>4 DEF counts
    <3> QED  BY <1>1, <1>3, <1>5, <3>2, <3>3, <3>4, ModeCounts
  <2> QED  BY <2>2, <2>3, <2>4
<1> QED  BY <1>7, <1>8, <1>9 DEF Sync

(* The handler of a message of c, which comes to an end or to x *)
LEMMA HandledCounts ==
  ASSUME IndInv, IndInv', CountInv, NEW x \in NssCtx, NEW i \in DOMAIN host,
         NEW m, m = host[i], NEW c \in Conns, c = m.c,
         \A y \in Contexts \ {x} : ctx'[y] = ctx[y],
         \A d \in Conns \ {c} : feci'[d] = feci[d],
         UNCHANGED <<cmds, rule>>, host' = RemoveAt(host, i),
         ctx[x].pc = "idle", ctx'[x].pc \notin {"rearm", "unpend"},
         pending_accel_count' = pending_accel_count - OneIf(m.type = "create"),
         pending_decel_count' = pending_decel_count - OneIf(m.type = "destroy"),
         Mode(c)' = Mode(c) \/ (~Failed(Mode(c)) /\ (Failed(Mode(c)') => rule[c] = NoRule)),
         OneIf(Mode(c)' = "ACCEL_PENDING") = OneIf(Mode(c) = "ACCEL_PENDING") - OneIf(m.type = "create"),
         accelerated_count' = accelerated_count + OneIf(ctx'[x].pc = "ended")
           - OneIf(Mode(c) \in {"ACCEL", "DECEL_PENDING"})
           + OneIf(Mode(c)' \in {"ACCEL", "DECEL_PENDING"}),
         accelerated_count' <= accelerated_count + OneIf(m.type = "create")
  PROVE  CountInv'
<1>1. TypeOK /\ TypeOK' /\ x \in Contexts
  BY NotTimer DEF IndInv
<1>2. OnlyAt(x, c) /\ UNCHANGED cmds /\ UNCHANGED rule
  BY DEF OnlyAt
<1>3. AllDestroys' = AllDestroys - OneIf(m.type = "destroy") /\ AllDestroys \in Int
  BY <1>1, <1>2, DestroysTaken, NumberTypes
<1>4. /\ pending_accel_count \in Int /\ accelerated_count \in Int /\ pending_decel_count \in Int
      /\ accelerated_count' \in Int
  BY <1>1 DEF TypeOK
<1>5. \A b : OneIf(b) \in Int
  BY DEF OneIf
<1>6. /\ OneIf(ctx[x].pc = "ended") = 0 /\ OneIf(ctx[x].pc \in {"rearm", "unpend"}) = 0
      /\ OneIf(ctx'[x].pc \in {"rearm", "unpend"}) = 0
  BY DEF OneIf
<1>7. OneIf(Orphan(c)') <= OneIf(Orphan(c))
  BY <1>2 DEF OneIf, Orphan
<1>8. OneIf(Mode(c)' = "FAIL_DRIVER") >= OneIf(Mode(c) = "FAIL_DRIVER")
  BY DEF OneIf, Failed, FailModes
<1>9. pending_accel_count' = pending_accel_count
        - OneIf(Mode(c) = "ACCEL_PENDING") + OneIf(Mode(c)' = "ACCEL_PENDING")
  BY <1>4, <1>5
<1>10. pending_decel_count' = pending_decel_count + AllDestroys' - AllDestroys
  BY <1>3, <1>4, <1>5
<1>11. pending_accel_count' + accelerated_count' <= pending_accel_count + accelerated_count
  BY <1>4, <1>5
<1>12. Counted(x, c, 0)
  <2>1. pending_decel_count' = pending_decel_count + AllDestroys' - AllDestroys
          - OneIf(ctx[x].pc \in {"rearm", "unpend"}) + OneIf(ctx'[x].pc \in {"rearm", "unpend"})
    BY <1>3, <1>4, <1>5, <1>6, <1>10
  <2>2. accelerated_count' = accelerated_count + 0
          - OneIf(ctx[x].pc = "ended") + OneIf(ctx'[x].pc = "ended")
          - OneIf(Mode(c) \in {"ACCEL", "DECEL_PENDING"})
          + OneIf(Mode(c)' \in {"ACCEL", "DECEL_PENDING"})
    BY <1>4, <1>5, <1>6
  <2>3. /\ OneIf(Orphan(c)') - OneIf(Orphan(c)) <= 0
        /\ 0 <= OneIf(Mode(c)' = "FAIL_DRIVER") - OneIf(Mode(c) = "FAIL_DRIVER")
    <3>1. /\ OneIf(Orphan(c)') \in Int /\ OneIf(Orphan(c)) \in Int
          /\ OneIf(Mode(c)' = "FAIL_DRIVER") \in Int /\ OneIf(Mode(c) = "FAIL_DRIVER") \in Int
      BY DEF OneIf
    <3> QED  BY ONLY <1>5, <1>7, <1>8, <3>1
  <2> QED  BY <1>9, <1>11, <2>1, <2>2, <2>3 DEF Counted
<1> QED  BY <1>1, <1>2, <1>12, CountStep

(* A message from the NSS is handled. *)
LEMMA MessageCounts ==
  ASSUME IndInv, IndInv', CountInv, NEW x \in NssCtx, NEW i \in DOMAIN host,
         Response(x, i) \/ SyncSeen(x, i)
  PROVE  CountInv'
<1>1. PICK m : m = host[i]
  OBVIOUS
<1>2. PICK c : c = m.c
  OBVIOUS
<1>3. /\ m \in HostType /\ c \in Conns
      /\ m.type = "create" => Mode(c) = "ACCEL_PENDING"
      /\ m.type = "destroy" => Mode(c) = "DECEL_PENDING"
      /\ m.type = "create" /\ ~m.ack => rule[c] = NoRule
      /\ m.type = "destroy" => rule[c] = NoRule
  BY <1>1, <1>2, Answers, NoRuleAnswered
<1>4. /\ feci \in [Conns -> FeciType] /\ feci[c] \in FeciType /\ ctx \in [Contexts -> CtxType]
      /\ pending_accel_count \in Int /\ accelerated_count \in Int /\ pending_decel_count \in Int
      /\ x \in Contexts
  BY <1>3, NotTimer DEF IndInv, TypeOK, CtxType
<1>5. /\ UNCHANGED <<cmds, rule>> /\ host' = RemoveAt(host, i) /\ ctx[x].pc = "idle"
  BY DEF Response, CreateNacked, CreateFlushed, CreateAcked, DestroyAnswered, SyncSeen, At
<1>6. /\ \A d \in Conns \ {c} : feci'[d] = feci[d]
      /\ \A y \in Contexts \ {x} : ctx'[y] = ctx[y]
  BY <1>1, <1>2, <1>4 DEF Response, CreateNacked, CreateFlushed, CreateAcked, DestroyAnswered,
     SyncSeen
<1>7. ~Failed("ACCEL_PENDING") /\ ~Failed("DECEL_PENDING") /\ ~Failed("ACCEL") /\ ~Failed("DECEL")
  BY DEF Failed, FailModes
<1>8. CASE CreateNacked(x, i) \/ CreateFlushed(x, i)
  <2>1. /\ m.type = "create" /\ UNCHANGED ctx /\ pending_accel_count' = pending_accel_count - 1
        /\ pending_decel_count' = pending_decel_count /\ accelerated_count' = accelerated_count
    BY <1>1, <1>8 DEF CreateNacked, CreateFlushed
  <2>2. /\ Mode(c)' \in {"DECEL", "FAIL_DEFUNCT", "FAIL_ACCEL_ENGINE"}
        /\ Failed(Mode(c)') => rule[c] = NoRule
    <3>1. CASE CreateNacked(x, i)
      <4>1. \E mode \in {"DECEL", "FAIL_DEFUNCT", "FAIL_ACCEL_ENGINE"} : \E n :
              feci'[c] = [PendingCleared(feci[c], mode) EXCEPT !.ae_nack = n]
        BY <1>1, <1>2, <1>3, <1>4, <3>1 DEF CreateNacked
      <4>2. rule[c] = NoRule
        BY <1>1, <1>3, <3>1 DEF CreateNacked
      <4> QED  BY <1>4, <4>1, <4>2 DEF PendingCleared, Mode, FeciType
    <3>2. CASE CreateFlushed(x, i)
      <4>1. \E n : feci'[c] = [PendingCleared(feci[c], "DECEL") EXCEPT
                                 !.flush_happened = FALSE, !.no_action_seen = n]
        BY <1>1, <1>2, <1>3, <1>4, <3>2 DEF CreateFlushed
      <4>2. Mode(c)' = "DECEL"
        BY <1>4, <4>1 DEF PendingCleared, Mode, FeciType
      <4> QED  BY <1>7, <4>2
    <3> QED  BY <1>8, <3>1, <3>2
  <2>3. /\ OneIf(m.type = "create") = 1 /\ OneIf(m.type = "destroy") = 0
        /\ OneIf(Mode(c)' = "ACCEL_PENDING") = 0 /\ OneIf(Mode(c) = "ACCEL_PENDING") = 1
        /\ OneIf(Mode(c) \in {"ACCEL", "DECEL_PENDING"}) = 0
        /\ OneIf(Mode(c)' \in {"ACCEL", "DECEL_PENDING"}) = 0
        /\ OneIf(ctx'[x].pc = "ended") = 0
    BY <1>3, <1>5, <2>1, <2>2 DEF OneIf
  <2>4. ctx'[x].pc \notin {"rearm", "unpend"} /\ ~Failed(Mode(c))
    BY <1>3, <1>5, <1>7, <2>1
  <2> QED  BY <1>1, <1>2, <1>3, <1>4, <1>5, <1>6, <2>1, <2>2, <2>3, <2>4, HandledCounts
<1>9. CASE CreateAcked(x, i)
  <2>1. /\ m.type = "create" /\ pending_accel_count' = pending_accel_count - 1
        /\ pending_decel_count' = pending_decel_count
        /\ accelerated_count' = accelerated_count + 1
    BY <1>1, <1>9 DEF CreateAcked
  <2>2. Mode(c)' = "ACCEL"
    <3> DEFINE g == [PendingCleared(feci[c], "ACCEL") EXCEPT !.ae_nack = 0]
               n == AtMost(g.no_action_seen + 1, NoActionLimit)
    <3>1. feci'[c] = [g EXCEPT !.is_defunct = FALSE] \/ feci'[c] = [g EXCEPT !.no_action_seen = n]
      BY <1>1, <1>2, <1>3, <1>4, <1>9 DEF CreateAcked
    <3>2. /\ [g EXCEPT !.is_defunct = FALSE].accel_mode = "ACCEL"
          /\ [g EXCEPT !.no_action_seen = n].accel_mode = "ACCEL"
      BY <1>4 DEF PendingCleared, FeciType
    <3> HIDE DEF g, n
    <3> QED  BY <3>1, <3>2 DEF Mode
  <2>3. ctx'[x].pc \in {"idle", "decel"}
    <3>1. \/ ctx' = ctx
          \/ \E op : ctx' = [ctx EXCEPT ![x] = [Idle EXCEPT !.pc = "decel", !.c = c, !.op = op]]
      BY <1>1, <1>2, <1>9 DEF CreateAcked
    <3> QED  BY <1>4, <1>5, <3>1, IdleType DEF CtxType
  <2>4. /\ OneIf(m.type = "create") = 1 /\ OneIf(m.type = "destroy") = 0
        /\ OneIf(Mode(c)' = "ACCEL_PENDING") = 0 /\ OneIf(Mode(c) = "ACCEL_PENDING") = 1
        /\ OneIf(Mode(c) \in {"ACCEL", "DECEL_PENDING"}) = 0
        /\ OneIf(Mode(c)' \in {"ACCEL", "DECEL_PENDING"}) = 1
        /\ OneIf(ctx'[x].pc = "ended") = 0
    BY <1>3, <2>1, <2>2, <2>3 DEF OneIf
  <2>5. ~Failed(Mode(c)) /\ ~Failed(Mode(c)') /\ ctx'[x].pc \notin {"rearm", "unpend"}
    BY <1>3, <1>7, <2>1, <2>2, <2>3
  <2> QED  BY <1>1, <1>2, <1>3, <1>4, <1>5, <1>6, <2>1, <2>4, <2>5, HandledCounts
<1>10. CASE DestroyAnswered(x, i)
  <2>1. /\ m.type = "destroy" /\ pending_decel_count' = pending_decel_count - 1
        /\ pending_accel_count' = pending_accel_count /\ accelerated_count' = accelerated_count
        /\ \E mode \in {"FAIL_DEFUNCT", "DECEL", "FAIL_DECEL"} :
             feci' = [feci EXCEPT ![c].accel_mode = mode]
        /\ ctx' = [ctx EXCEPT ![x] = [Idle EXCEPT !.pc = "ended", !.c = c]]
    BY <1>1, <1>2, <1>3, <1>10 DEF DestroyAnswered, Mode
  <2>2. Mode(c)' \in {"FAIL_DEFUNCT", "DECEL", "FAIL_DECEL"}
    BY <1>3, <1>4, <2>1 DEF Mode, FeciType
  <2>3. ctx'[x].pc = "ended"
    BY <1>4, <2>1, IdleType DEF CtxType
  <2>4. /\ OneIf(m.type = "create") = 0 /\ OneIf(m.type = "destroy") = 1
        /\ OneIf(Mode(c)' = "ACCEL_PENDING") = 0 /\ OneIf(Mode(c) = "ACCEL_PENDING") = 0
        /\ OneIf(Mode(c) \in {"ACCEL", "DECEL_PENDING"}) = 1
        /\ OneIf(Mode(c)' \in {"ACCEL", "DECEL_PENDING"}) = 0
        /\ OneIf(ctx'[x].pc = "ended") = 1
    BY <1>3, <2>1, <2>2, <2>3 DEF OneIf
  <2>5. ~Failed(Mode(c)) /\ rule[c] = NoRule /\ ctx'[x].pc \notin {"rearm", "unpend"}
    BY <1>3, <1>7, <2>1, <2>3
  <2> QED  BY <1>1, <1>2, <1>3, <1>4, <1>5, <1>6, <2>1, <2>4, <2>5, HandledCounts
<1>11. CASE SyncSeen(x, i)
  <2>1. /\ m.type \in {"sync", "flush"} /\ UNCHANGED counts
        /\ UNCHANGED feci \/ feci' = [feci EXCEPT ![c].no_action_seen = 0]
        /\ \/ UNCHANGED ctx
           \/ \E pc \in {"sync", "peek"} :
                ctx' = [ctx EXCEPT ![x] = [Idle EXCEPT !.pc = pc, !.c = c, !.op = "decel"]]
    BY <1>1, <1>2, <1>11 DEF SyncSeen, IsNote
  <2>2. /\ pending_accel_count' = pending_accel_count /\ accelerated_count' = accelerated_count
        /\ pending_decel_count' = pending_decel_count
    BY <2>1 DEF counts
  <2>3. Mode(c)' = Mode(c)
    BY <1>3, <1>4, <2>1 DEF Mode, FeciType
  <2>4. ctx'[x].pc \in {"idle", "sync", "peek"}
    BY <1>4, <1>5, <2>1, IdleType, ZenonT(40) DEF CtxType
  <2>5. /\ OneIf(m.type = "create") = 0 /\ OneIf(m.type = "destroy") = 0
        /\ OneIf(Mode(c)' = "ACCEL_PENDING") = OneIf(Mode(c) = "ACCEL_PENDING")
        /\ OneIf(Mode(c)' \in {"ACCEL", "DECEL_PENDING"})
             = OneIf(Mode(c) \in {"ACCEL", "DECEL_PENDING"})
        /\ OneIf(ctx'[x].pc = "ended") = 0
        /\ OneIf(Mode(c) \in {"ACCEL", "DECEL_PENDING"}) \in Int
        /\ OneIf(Mode(c) = "ACCEL_PENDING") \in Int
    BY <2>1, <2>3, <2>4 DEF OneIf
  <2>6. ctx'[x].pc \notin {"rearm", "unpend"}
    BY <2>4
  <2> QED  BY <1>1, <1>2, <1>3, <1>4, <1>5, <1>6, <2>2, <2>3, <2>5, <2>6, HandledCounts
<1> QED  BY <1>8, <1>9, <1>10, <1>11 DEF Response

(* The steps of the NSS *)
LEMMA NssCounts ==
  ASSUME IndInv, IndInv', CountInv,
         \/ NssCreate(TRUE) \/ NssCreate(FALSE) \/ NssDestroy
         \/ \E c \in Conns : NssSync(c) \/ NssFlush(c)
  PROVE  CountInv'
<1>1. TypeOK /\ UNCHANGED <<feci, ctx>> /\ UNCHANGED counts /\ rule \in [Conns -> 0..NoRule]
  BY DEF NssCreate, NssDestroy, NssSync, NssFlush, IndInv, TypeOK
<1>2. PICK c \in Conns :
        /\ \A d \in Conns \ {c} : rule'[d] = rule[d]
        /\ rule'[c] = rule[c] \/ rule'[c] = NoRule \/ Mode(c) = "ACCEL_PENDING"
  <2>1. CASE NssCreate(TRUE) \/ NssCreate(FALSE)
    <3>1. PICK m : m = Head(cmds)
      OBVIOUS
    <3>2. PICK c : c = m.c
      OBVIOUS
    <3>3. /\ cmds # <<>> /\ m.type = "create"
          /\ rule' = [rule EXCEPT ![c] = m.gen] \/ rule' = rule
      BY <2>1, <3>1, <3>2 DEF NssCreate
    <3>4. c \in Conns /\ Mode(c) = "ACCEL_PENDING"
      BY <3>1, <3>2, <3>3, Commands
    <3>5. \A d \in Conns \ {c} : rule'[d] = rule[d]
      BY <1>1, <3>3
    <3> QED  BY <3>4, <3>5
  <2>2. CASE NssDestroy
    <3>1. PICK m : m = Head(cmds)
      OBVIOUS
    <3>2. PICK c : c = m.c
      OBVIOUS
    <3>3. cmds # <<>> /\ rule' = [rule EXCEPT ![c] = NoRule]
      BY <2>2, <3>1, <3>2 DEF NssDestroy
    <3>4. c \in Conns
      BY <3>1, <3>2, <3>3, Commands
    <3>5. rule'[c] = NoRule /\ \A d \in Conns \ {c} : rule'[d] = rule[d]
      BY <1>1, <3>3, <3>4
    <3> QED  BY <3>4, <3>5
  <2>3. CASE \E c \in Conns : NssSync(c) \/ NssFlush(c)
    <3>1. PICK c \in Conns : NssSync(c) \/ NssFlush(c)
      BY <2>3
    <3>2. rule' = rule \/ rule' = [rule EXCEPT ![c] = NoRule]
      BY <3>1 DEF NssSync, NssFlush
    <3>3. /\ \A d \in Conns \ {c} : rule'[d] = rule[d]
          /\ rule'[c] = rule[c] \/ rule'[c] = NoRule
      BY <1>1, <3>2
    <3> QED  BY <3>3
  <2> QED  BY <2>1, <2>2, <2>3
<1>3. PICK x \in Contexts : TRUE
  BY NotTimer
<1>4. OnlyAt(x, c) /\ Mode(c)' = Mode(c)
  BY <1>1, <1>2 DEF OnlyAt, Mode
<1>5. AllDestroys' = AllDestroys
  <2>1. CASE NssCreate(TRUE) \/ NssCreate(FALSE) \/ NssDestroy
    <3>1. /\ cmds # <<>> /\ cmds' = Tail(cmds)
          /\ \E ack \in BOOLEAN : host' = Append(host, [type |-> Head(cmds).type,
                                                       c |-> Head(cmds).c, ack |-> ack])
      BY <2>1 DEF NssCreate, NssDestroy
    <3> QED  BY <1>1, <3>1, DestroysKept
  <2>2. CASE \E d \in Conns : NssSync(d) \/ NssFlush(d)
    <3>1. /\ UNCHANGED cmds
          /\ \E d \in Conns, t \in {"sync", "flush"} :
               host' = Append(host, [type |-> t, c |-> d, ack |-> FALSE])
      BY <2>2 DEF NssSync, NssFlush
    <3> QED  BY <1>1, <3>1, DestroysKept
  <2> QED  BY <2>1, <2>2
<1>6. ctx'[x].pc = ctx[x].pc
  BY <1>1
<1> QED  BY <1>1, <1>2, <1>4, <1>5, <1>6, QuietCounts

(* The first packet, which may deny acceleration for good *)
LEMMA AddCounts ==
  ASSUME IndInv, IndInv', CountInv, NEW x \in PacketCtx, NEW c \in Conns, ConnectionAdd(x, c)
  PROVE  CountInv'
<1>1. /\ TypeOK /\ x \in Contexts /\ feci \in [Conns -> FeciType]
      /\ ctx \in [Contexts -> CtxType]
      /\ pending_accel_count \in Int /\ accelerated_count \in Int /\ pending_decel_count \in Int
  BY NotTimer DEF IndInv, TypeOK, CtxType
<1>2. /\ ctx[x].pc = "idle" /\ ~ci[c].added /\ UNCHANGED nss /\ UNCHANGED counts
      /\ \E mode \in {"DECEL", "FAIL_DENIED"} : feci' = [feci EXCEPT ![c].accel_mode = mode]
      /\ ctx' = [ctx EXCEPT ![x] = [Idle EXCEPT !.pc = "add", !.c = c]]
  BY DEF ConnectionAdd, At
<1>3. /\ \A y \in Contexts \ {x} : ctx'[y] = ctx[y]
      /\ \A d \in Conns \ {c} : feci'[d] = feci[d]
      /\ Mode(c)' \in {"DECEL", "FAIL_DENIED"}
  BY <1>1, <1>2 DEF Mode, FeciType
<1>4. ctx'[x].pc = "add"
  BY <1>1, <1>2, IdleType DEF CtxType
<1>5. Mode(c) = "DECEL" /\ rule[c] = NoRule
  <2>1. Mode(c) = "DECEL"
    BY <1>2 DEF IndInv, ConnInv, Untouched
  <2> QED  BY <2>1, NoRuleWhen
<1>6. /\ OneIf(Mode(c) = "ACCEL_PENDING") = 0 /\ OneIf(Mode(c)' = "ACCEL_PENDING") = 0
      /\ OneIf(ctx[x].pc = "ended") = 0 /\ OneIf(ctx'[x].pc = "ended") = 0
      /\ OneIf(Mode(c) \in {"ACCEL", "DECEL_PENDING"}) = 0
      /\ OneIf(Mode(c)' \in {"ACCEL", "DECEL_PENDING"}) = 0
  BY <1>2, <1>3, <1>4, <1>5 DEF OneIf
<1>7. /\ pending_accel_count' = pending_accel_count /\ accelerated_count' = accelerated_count
      /\ UNCHANGED <<nss, pending_decel_count>>
      /\ ctx[x].pc \notin {"rearm", "unpend"} /\ ctx'[x].pc \notin {"rearm", "unpend"}
  BY <1>2, <1>4 DEF counts
<1>8. ~Failed(Mode(c))
  BY <1>5 DEF Failed, FailModes
<1> QED  BY <1>1, <1>3, <1>5, <1>6, <1>7, <1>8, ModeCounts

(* CountInv is preserved by every step, *)
LEMMA NextCounts == IndInv /\ IndInv' /\ CountInv /\ [Next]_vars => CountInv'
<1> SUFFICES ASSUME IndInv, IndInv', CountInv, [Next]_vars  PROVE CountInv'
  OBVIOUS
<1>1. ctx \in [Contexts -> CtxType]
  BY DEF IndInv, TypeOK, CtxType
<1>2. CASE UNCHANGED <<feci, nss, counts>> /\ UNCHANGED ctx
  <2>1. UNCHANGED <<feci, cmds, host, rule, pending_accel_count, pending_decel_count,
                    accelerated_count, ctx>>
    BY <1>2 DEF nss, counts
  <2> QED
    BY <2>1 DEF CountInv, InMode, Retrying, Ending, Working, AllDestroys, DestroyCmd, DestroyMsg,
       Orphans, Orphan, Mode, Excess
<1>3. CASE \E x \in PacketCtx, c \in Conns : ConnectionAdd(x, c)
  BY <1>3, AddCounts
<1>4. CASE \E x \in PacketCtx, c \in Conns : PacketSeen(x, c)
  <2>1. PICK x \in PacketCtx, c \in Conns : PacketSeen(x, c)
    BY <1>4
  <2>2. /\ ctx[x].pc = "idle" /\ UNCHANGED <<feci, nss, counts>> /\ x \in Contexts
        /\ ctx' = [ctx EXCEPT ![x] = [Idle EXCEPT !.pc = "packet", !.c = c]]
    BY <2>1, NotTimer DEF PacketSeen, At
  <2>3. ctx'[x].pc = "packet" /\ \A y \in Contexts \ {x} : ctx'[y] = ctx[y]
    BY <1>1, <2>2, IdleType DEF CtxType
  <2> QED  BY <2>2, <2>3, MovingCounts
<1>5. CASE \/ \E x \in UserCtx, c \in Conns, op \in {"decel", "make"} : ForceDecel(x, c, op)
           \/ \E c \in Conns : TimerExpires(c)
  <2>1. ASSUME NEW x \in UserCtx, NEW c \in Conns, NEW op \in {"decel", "make"},
               ForceDecel(x, c, op)
        PROVE  CountInv'
    <3>1. /\ ctx[x].pc = "idle" /\ UNCHANGED <<feci, nss, counts>> /\ x \in Contexts
          /\ ctx' = [ctx EXCEPT ![x] = [Idle EXCEPT !.pc = "decel", !.c = c, !.op = op]]
      BY <2>1, NotTimer DEF ForceDecel, At
    <3>2. ctx'[x].pc = "decel" /\ \A y \in Contexts \ {x} : ctx'[y] = ctx[y]
      BY <1>1, <3>1, IdleType DEF CtxType
    <3> QED  BY <3>1, <3>2, MovingCounts
  <2>2. ASSUME NEW c \in Conns, TimerExpires(c)
        PROVE  CountInv'
    <3>1. /\ ctx[TimerCtx].pc = "idle" /\ UNCHANGED <<feci, nss, counts>> /\ TimerCtx \in Contexts
          /\ ctx' = [ctx EXCEPT ![TimerCtx] = [Idle EXCEPT !.pc = "decel", !.c = c, !.op = "expiry"]]
      BY <2>2 DEF TimerExpires, At, Contexts
    <3>2. ctx'[TimerCtx].pc = "decel" /\ \A y \in Contexts \ {TimerCtx} : ctx'[y] = ctx[y]
      BY <1>1, <3>1, IdleType DEF CtxType
    <3> QED  BY <3>1, <3>2, MovingCounts
  <2> QED  BY <1>5, <2>1, <2>2
<1>6. CASE \E x \in PacketCtx : Packet(x)
  BY <1>6, PacketCounts
<1>7. CASE \E x \in Contexts : Deceleration(x)
  BY <1>7, DecelerationCounts
<1>8. CASE \E x \in NssCtx, i \in DOMAIN host : Response(x, i) \/ SyncSeen(x, i)
  BY <1>8, MessageCounts
<1>9. CASE \E x \in NssCtx : Sync(x)
  BY <1>9, SyncCounts
<1>10. CASE \/ NssCreate(TRUE) \/ NssCreate(FALSE) \/ NssDestroy
            \/ \E c \in Conns : NssSync(c) \/ NssFlush(c)
  BY <1>10, NssCounts
<1>11. CASE AllRegenNeeded \/ \E c \in Conns : RegenNeeded(c)
  BY <1>2, <1>11 DEF AllRegenNeeded, RegenNeeded
<1>12. CASE UNCHANGED vars
  BY <1>2, <1>12 DEF vars, nss
<1> QED
  BY <1>3, <1>4, <1>5, <1>6, <1>7, <1>8, <1>9, <1>10, <1>11, <1>12 DEF Next

(* ... and holds at the start. *)
LEMMA InitCounts == Init => CountInv
<1> SUFFICES ASSUME Init  PROVE CountInv
  OBVIOUS
<1>1. /\ \A x \in Contexts : ctx[x] = Idle
      /\ cmds = <<>> /\ host = <<>> /\ \A c \in Conns : rule[c] = NoRule
      /\ \A c \in Conns : Mode(c) = "DECEL"
      /\ pending_accel_count = 0 /\ pending_decel_count = 0 /\ accelerated_count = 0
  BY DEF Init, Mode
<1>2. ASSUME NEW M, "DECEL" \notin M  PROVE InMode(M) = 0
  <2>1. InModes(M) = {}
    BY <1>1, <1>2 DEF InModes
  <2> QED  BY <2>1, ModesFinite, FS_EmptySet
<1>3. ASSUME NEW P, "idle" \notin P  PROVE Cardinality(Working(P)) = 0
  <2>1. Working(P) = {}
    BY <1>1, <1>3, IdleType DEF Working
  <2> QED  BY <2>1, FS_EmptySet
<1>4. AllDestroys = 0
  BY <1>1, InEmpty DEF AllDestroys
<1>5. Cardinality(Orphans) = 0
  <2>1. Orphans = {}
    BY <1>1 DEF Orphans, Orphan
  <2> QED  BY <2>1, FS_EmptySet
<1>6. /\ InMode({"ACCEL_PENDING"}) = 0 /\ InMode({"ACCEL", "DECEL_PENDING"}) = 0
      /\ InMode({"FAIL_DRIVER"}) = 0 /\ Retrying = 0 /\ Ending = 0
  BY <1>2, <1>3 DEF Retrying, Ending
<1> QED  BY <1>1, <1>4, <1>5, <1>6, LimitAssumption DEF CountInv, Excess

(* The inductive invariant of the counters *)
THEOREM CountInvariance == Spec => [](IndInv /\ CountInv)
<1>1. Init => CountInv
  BY InitCounts
<1>2. IndInv /\ IndInv' /\ CountInv /\ [Next]_vars => CountInv'
  BY NextCounts
<1> QED  BY <1>1, <1>2, Invariance, PTL DEF Spec

(* The counters that gate acceleration are exact whatever interleaves: a   *)
(* late answer, a flush before an ACK or a retried destroy is counted once.*)
THEOREM CountersExact == Spec => []CountsExact
<1>1. IndInv /\ CountInv => CountsExact
  <2> SUFFICES ASSUME IndInv, CountInv  PROVE CountsExact
    OBVIOUS
  <2>1. TypeOK /\ cmds \in Seq(CmdType) /\ host \in Seq(HostType)
    BY DEF IndInv, TypeOK
  <2>2. /\ \A i \in DOMAIN cmds : cmds[i] \in DestroyCmd <=> cmds[i].type = "destroy"
        /\ \A i \in DOMAIN host : host[i] \in DestroyMsg <=> host[i].type = "destroy"
    BY <2>1 DEF DestroyCmd, DestroyMsg
  <2>3. /\ {i \in DOMAIN cmds : cmds[i].type = "destroy"}
             = {i \in DOMAIN cmds : cmds[i] \in DestroyCmd}
        /\ {i \in DOMAIN host : host[i].type = "destroy"}
             = {i \in DOMAIN host : host[i] \in DestroyMsg}
    BY <2>2
  <2>4. /\ Retrying = Cardinality({x \in Contexts : ctx[x].pc \in {"rearm", "unpend"}})
        /\ Ending = Cardinality({x \in Contexts : ctx[x].pc = "ended"})
        /\ AllDestroys = Cardinality({i \in DOMAIN cmds : cmds[i].type = "destroy"})
                          + Cardinality({i \in DOMAIN host : host[i].type = "destroy"})
    <3>1. Working({"ended"}) = {x \in Contexts : ctx[x].pc = "ended"}
      BY DEF Working
    <3> QED  BY <2>3, <3>1 DEF Retrying, Ending, Working, AllDestroys, In
  <2>5. /\ Retrying \in Nat /\ Ending \in Nat /\ Cardinality(Orphans) \in Nat
        /\ In(cmds, DestroyCmd) \in Nat /\ In(host, DestroyMsg) \in Nat
    BY <2>1, NumberTypes, InType
  <2>6. InMode({"FAIL_DRIVER"}) \in Nat /\ InMode({"ACCEL", "DECEL_PENDING"}) \in Nat
        /\ accelerated_count \in Int
    BY <2>1, ModesFinite DEF TypeOK
  <2>7. /\ pending_accel_count = InMode({"ACCEL_PENDING"})
        /\ pending_decel_count = Retrying + In(cmds, DestroyCmd) + In(host, DestroyMsg)
    BY <2>5 DEF CountInv, AllDestroys
  <2>8. accelerated_count - Ending - InMode({"ACCEL", "DECEL_PENDING"})
          \in 0..InMode({"FAIL_DRIVER"})
    BY <2>5, <2>6 DEF CountInv, Excess
  <2> QED  BY <2>3, <2>4, <2>7, <2>8 DEF CountsExact, In
<1> QED  BY <1>1, CountInvariance, PTL

(* Every connection that is being accelerated, or whose rule is left in    *)
(* the NSS, has a slot, and so has every end that is not counted yet.      *)
Slots == pending_accel_count + accelerated_count
NeedsSlot == {c \in Conns : PhaseOf(c) \notin {"off", "failed"} \/ rule[c] # NoRule}

LEMMA SlotsHeld ==
  ASSUME IndInv, CountInv
  PROVE  /\ IsFiniteSet(NeedsSlot) /\ Cardinality(NeedsSlot) \in Nat
         /\ Cardinality(NeedsSlot) + Ending <= Slots
<1> DEFINE A == InModes({"ACCEL_PENDING"})
           B == InModes({"ACCEL", "DECEL_PENDING"})
           O == Orphans
<1>1. TypeOK
  BY DEF IndInv
<1>2. NeedsSlot \subseteq (A \cup B) \cup O
  <2> SUFFICES ASSUME NEW c \in Conns, PhaseOf(c) \notin {"off", "failed"} \/ rule[c] # NoRule
               PROVE  c \in A \/ c \in B \/ c \in O
    BY DEF NeedsSlot
  <2>1. Mode(c) \in Modes
    BY <1>1 DEF TypeOK, FeciType, Mode
  <2>2. CASE rule[c] # NoRule
    <3>1. Mode(c) # "DECEL"
      BY <2>2, NoRuleWhen
    <3> QED  BY <2>1, <2>2, <3>1 DEF Modes, InModes, Orphans, Orphan, Failed
  <2>3. CASE PhaseOf(c) \notin {"off", "failed"}
    <3>1. Mode(c) \in {"ACCEL_PENDING", "ACCEL", "DECEL_PENDING"}
      BY <2>1, <2>3 DEF PhaseOf, Mode
    <3> QED  BY <3>1 DEF InModes
  <2> QED  BY <2>2, <2>3
<1>3. /\ IsFiniteSet(A) /\ IsFiniteSet(B) /\ IsFiniteSet(O)
      /\ Cardinality(A) = InMode({"ACCEL_PENDING"}) /\ Cardinality(A) \in Nat
      /\ Cardinality(B) = InMode({"ACCEL", "DECEL_PENDING"}) /\ Cardinality(B) \in Nat
      /\ Cardinality(O) \in Nat /\ Ending \in Nat
  BY <1>1, ModesFinite, NumberTypes
<1> HIDE DEF A, B, O
<1>4. /\ IsFiniteSet(A \cup B) /\ Cardinality(A \cup B) <= Cardinality(A) + Cardinality(B)
      /\ Cardinality(A \cup B) \in Nat
  BY <1>3, AtMostSum
<1>5. /\ IsFiniteSet((A \cup B) \cup O)
      /\ Cardinality((A \cup B) \cup O) <= Cardinality(A \cup B) + Cardinality(O)
      /\ Cardinality((A \cup B) \cup O) \in Nat
  BY <1>3, <1>4, AtMostSum
<1>6. /\ IsFiniteSet(NeedsSlot) /\ Cardinality(NeedsSlot) \in Nat
      /\ Cardinality(NeedsSlot) <= Cardinality((A \cup B) \cup O)
  BY <1>2, <1>5, FS_Subset, FS_CardinalityType
<1>7. /\ pending_accel_count = Cardinality(A) /\ Cardinality(O) <= Excess
      /\ Excess = accelerated_count - Ending - Cardinality(B) /\ accelerated_count \in Int
  BY <1>1, <1>3 DEF CountInv, Excess, TypeOK, O
<1> QED  BY <1>3, <1>4, <1>5, <1>6, <1>7 DEF Slots

(* The NSS never has more rules than the fixed limit of accelerated        *)
(* connections, which ECM checks on counters that trail what the NSS does, *)
(* not even with rules the driver would not let it destroy.                *)
THEOREM RulesWithinLimit == Spec => []RulesLimited
<1>1. IndInv /\ CountInv => RulesLimited
  <2> SUFFICES ASSUME IndInv, CountInv  PROVE RulesLimited
    OBVIOUS
  <2>1. TypeOK
    BY DEF IndInv
  <2> DEFINE R == {c \in Conns : rule[c] # NoRule}
  <2>2. R \subseteq NeedsSlot
    BY DEF NeedsSlot
  <2> HIDE DEF R
  <2>3. Cardinality(R) <= Cardinality(NeedsSlot) /\ Cardinality(R) \in Nat
    BY <2>2, SlotsHeld, FS_Subset, FS_CardinalityType
  <2>4. Slots <= AccelLimit /\ Slots \in Int /\ Ending \in Nat
    BY <2>1, NumberTypes DEF CountInv, Slots, TypeOK
  <2>5. Cardinality(R) <= AccelLimit
    BY <2>3, <2>4, SlotsHeld, LimitAssumption
  <2> QED  BY <2>5 DEF RulesLimited, R
<1> QED  BY <1>1, CountInvariance, PTL

-----------------------------------------------------------------------------
(* Acceleration implements Offload *)

(* A connection that a step leaves as it is, *)
SameRuled(c) == rule'[c] # NoRule <=> rule[c] # NoRule
Stays(c) == PhaseOf(c)' = PhaseOf(c) /\ SameRuled(c)

(* ... and what a step may do to one. *)
Turn(c) ==
  \/ Slots' = Slots /\ Stays(c)
  \/ /\ Slots' = Slots /\ SameRuled(c)
     /\ \/ PhaseOf(c) = "granted" /\ PhaseOf(c)' = "on"
        \/ PhaseOf(c) = "on" /\ PhaseOf(c)' = "ending"
        \/ PhaseOf(c) = "ending" /\ PhaseOf(c)' \in {"on", "failed"}
        \/ PhaseOf(c) = "off" /\ PhaseOf(c)' = "failed"
  \/ /\ Slots' = Slots /\ SameRuled(c) /\ rule[c] = NoRule
     /\ PhaseOf(c) \in {"on", "ending"} /\ PhaseOf(c)' \in {"off", "failed"}
  \/ /\ Slots' = Slots - 1 /\ SameRuled(c) /\ rule[c] = NoRule
     /\ PhaseOf(c) \in {"asked", "granted"} /\ PhaseOf(c)' \in {"off", "failed"}
  \/ /\ Slots < AccelLimit /\ Slots' = Slots + 1 /\ SameRuled(c)
     /\ PhaseOf(c) = "off" /\ PhaseOf(c)' = "asked"
  \/ /\ Slots' = Slots /\ rule[c] = NoRule /\ rule'[c] # NoRule
     /\ PhaseOf(c) = "asked" /\ PhaseOf(c)' = "granted"
  \/ Slots' = Slots /\ rule[c] # NoRule /\ rule'[c] = NoRule /\ PhaseOf(c)' = PhaseOf(c)

SlotFreed ==
  /\ Slots > Cardinality(NeedsSlot) /\ Slots' = Slots - 1 /\ \A c \in Conns : Stays(c)

EngineStep ==
  \/ \E c \in Conns : Turn(c) /\ \A d \in Conns \ {c} : Stays(d)
  \/ SlotFreed

(* Such a turn is a step of Offload. *)
LEMMA TurnImplements ==
  ASSUME NEW c \in Conns, Turn(c), \A d \in Conns \ {c} : Stays(d)
  PROVE  [Engine!Next]_(Engine!vars)
<1> DEFINE f == [d \in Conns |-> PhaseOf(d)]
           g == [d \in Conns |-> PhaseOf(d)']
           R == {d \in Conns : rule[d] # NoRule}
           Q == {d \in Conns : rule'[d] # NoRule}
<1>1. g = [f EXCEPT ![c] = PhaseOf(c)'] /\ f[c] = PhaseOf(c)
  BY DEF Stays
<1>2. R \ {c} = Q \ {c} /\ (c \in R <=> rule[c] # NoRule) /\ (c \in Q <=> rule'[c] # NoRule)
  BY DEF Stays, SameRuled
<1>3. PhaseOf(c)' = PhaseOf(c) => g = f
  BY DEF Stays
<1>4. SameRuled(c) => Q = R
  BY <1>2 DEF SameRuled
<1>5. CASE Slots' = Slots /\ Stays(c)
  <2>1. g = f /\ Q = R
    BY <1>3, <1>4, <1>5 DEF Stays
  <2>2. UNCHANGED Engine!vars
    BY <1>5, <2>1 DEF Engine!vars, Slots
  <2> QED  BY <2>2
<1>6. ASSUME Slots' = Slots, SameRuled(c), NEW p, p = PhaseOf(c), NEW q, q = PhaseOf(c)',
             \/ p = "granted" /\ q = "on"
             \/ p = "on" /\ q = "ending"
             \/ p = "ending" /\ q \in {"on", "failed"}
             \/ p = "off" /\ q = "failed"
      PROVE  Engine!Next
  <2>1. f[c] = p /\ g = [f EXCEPT ![c] = q] /\ Q = R
    BY <1>1, <1>4, <1>6
  <2>2. CASE p = "granted" /\ q = "on"
    BY <1>6, <2>1, <2>2 DEF Engine!Next, Engine!Confirm, Engine!To, Slots
  <2>3. CASE p = "on" /\ q = "ending"
    BY <1>6, <2>1, <2>3 DEF Engine!Next, Engine!Withdraw, Engine!To, Slots
  <2>4. CASE p = "ending" /\ q = "on"
    BY <1>6, <2>1, <2>4 DEF Engine!Next, Engine!Retry, Engine!To, Slots
  <2>5. CASE p = "ending" /\ q = "failed"
    BY <1>6, <2>1, <2>5 DEF Engine!Next, Engine!Abandon, Engine!To, Slots
  <2>6. CASE p = "off" /\ q = "failed"
    BY <1>6, <2>1, <2>6 DEF Engine!Next, Engine!Fail, Engine!To, Slots
  <2> QED  BY <1>6, <2>2, <2>3, <2>4, <2>5, <2>6
<1>7. ASSUME SameRuled(c), rule[c] = NoRule, NEW p, p = PhaseOf(c), NEW q, q = PhaseOf(c)',
             q \in {"off", "failed"},
             \/ Slots' = Slots /\ p \in {"on", "ending"}
             \/ Slots' = Slots - 1 /\ p \in {"asked", "granted"}
      PROVE  Engine!Next
  <2>1. f[c] = p /\ g = [f EXCEPT ![c] = q] /\ Q = R /\ c \notin R
    BY <1>1, <1>2, <1>4, <1>7
  <2>2. CASE Slots' = Slots /\ p \in {"on", "ending"}
    <3>1. Engine!End(c)
      BY <1>7, <2>1, <2>2 DEF Engine!End, Engine!To, Engine!Over, Slots
    <3> QED  BY <3>1 DEF Engine!Next
  <2>3. CASE Slots' = Slots - 1 /\ p \in {"asked", "granted"}
    <3>1. Engine!Refuse(c)
      BY <1>7, <2>1, <2>3 DEF Engine!Refuse, Engine!To, Engine!Over, Slots
    <3> QED  BY <3>1 DEF Engine!Next
  <2> QED  BY <1>7, <2>2, <2>3
<1>8. ASSUME Slots < AccelLimit, Slots' = Slots + 1, SameRuled(c), PhaseOf(c) = "off",
             PhaseOf(c)' = "asked"
      PROVE  Engine!Next
  <2>1. f[c] = "off" /\ g = [f EXCEPT ![c] = "asked"] /\ Q = R
    BY <1>1, <1>4, <1>8
  <2>2. Engine!Ask(c)
    BY <1>8, <2>1 DEF Engine!Ask, Engine!To, Slots
  <2> QED  BY <2>2 DEF Engine!Next
<1>9. ASSUME Slots' = Slots, rule[c] = NoRule, rule'[c] # NoRule, PhaseOf(c) = "asked",
             PhaseOf(c)' = "granted"
      PROVE  Engine!Next
  <2>1. /\ f[c] = "asked" /\ g = [f EXCEPT ![c] = "granted"]
        /\ c \notin R /\ Q = R \cup {c}
    BY <1>1, <1>2, <1>9
  <2>2. Engine!Grant(c)
    BY <1>9, <2>1 DEF Engine!Grant, Engine!To, Slots
  <2> QED  BY <2>2 DEF Engine!Next
<1>10. ASSUME Slots' = Slots, rule[c] # NoRule, rule'[c] = NoRule, PhaseOf(c)' = PhaseOf(c)
       PROVE  Engine!Next
  <2>1. g = f /\ c \in R /\ Q = R \ {c}
    BY <1>2, <1>3, <1>10
  <2>2. Engine!Drop(c)
    BY <1>10, <2>1 DEF Engine!Drop, Slots
  <2> QED  BY <2>2 DEF Engine!Next
<1> QED
  BY <1>5, <1>6, <1>7, <1>8, <1>9, <1>10 DEF Turn

(* A slot that is freed is a step of Offload, too. *)
LEMMA FreedImplements ==
  ASSUME SlotFreed
  PROVE  Engine!Next
<1> DEFINE f == [d \in Conns |-> PhaseOf(d)]
           g == [d \in Conns |-> PhaseOf(d)']
           R == {d \in Conns : rule[d] # NoRule}
           Q == {d \in Conns : rule'[d] # NoRule}
<1>1. g = f /\ Q = R
  BY DEF SlotFreed, Stays, SameRuled
<1>2. NeedsSlot = {d \in Conns : f[d] \notin {"off", "failed"} \/ d \in R}
  BY DEF NeedsSlot
<1>3. Engine!Needing = NeedsSlot
  BY <1>2 DEF Engine!Needing, Engine!Over
<1>4. Engine!Cardinality(Engine!Needing) = Cardinality(NeedsSlot)
  BY <1>3 DEF Engine!Cardinality, Cardinality
<1>5. Engine!Free
  BY <1>1, <1>4 DEF Engine!Free, SlotFreed, Slots
<1> QED  BY <1>5 DEF Engine!Next

(* A create is granted when its acknowledgement is on the way. *)
LEMMA GrantedCount ==
  ASSUME NEW s \in Seq(HostType), NEW c
  PROVE  (\E i \in DOMAIN s : s[i].c = c /\ s[i].type = "create" /\ s[i].ack)
           <=> In(s, AckOf(c, "create")) > 0
<1>1. \A i \in DOMAIN s : s[i] \in AckOf(c, "create")
        <=> s[i].c = c /\ s[i].type = "create" /\ s[i].ack
  BY MsgKinds
<1>2. In(s, AckOf(c, "create")) \in Nat
  BY InType
<1>3. ASSUME NEW i \in DOMAIN s, s[i] \in AckOf(c, "create")
      PROVE  In(s, AckOf(c, "create")) > 0
  BY <1>3, InPositive
<1>4. ASSUME \A i \in DOMAIN s : s[i] \notin AckOf(c, "create")
      PROVE  In(s, AckOf(c, "create")) = 0
  <2>1. {i \in DOMAIN s : s[i] \in AckOf(c, "create")} = {}
    BY <1>4
  <2> QED  BY <2>1, FS_EmptySet DEF In
<1> QED  BY <1>1, <1>2, <1>3, <1>4

(* The phase of a connection, before and after a step *)
LEMMA Phases ==
  ASSUME TypeOK, TypeOK', NEW c \in Conns
  PROVE  /\ Mode(c) = "DECEL" => PhaseOf(c) = "off"
         /\ Mode(c) = "ACCEL_PENDING" =>
              PhaseOf(c) = IF AckedCreates(c) > 0 THEN "granted" ELSE "asked"
         /\ Mode(c) = "ACCEL" => PhaseOf(c) = "on"
         /\ Mode(c) = "DECEL_PENDING" => PhaseOf(c) = "ending"
         /\ Failed(Mode(c)) => PhaseOf(c) = "failed"
         /\ Mode(c)' = "DECEL" => PhaseOf(c)' = "off"
         /\ Mode(c)' = "ACCEL_PENDING" =>
              PhaseOf(c)' = IF AckedCreates(c)' > 0 THEN "granted" ELSE "asked"
         /\ Mode(c)' = "ACCEL" => PhaseOf(c)' = "on"
         /\ Mode(c)' = "DECEL_PENDING" => PhaseOf(c)' = "ending"
         /\ Failed(Mode(c)') => PhaseOf(c)' = "failed"
         /\ /\ Mode(c)' = Mode(c)
            /\ Mode(c) = "ACCEL_PENDING" => AckedCreates(c)' = AckedCreates(c)
            => PhaseOf(c)' = PhaseOf(c)
<1>1. Granted(c) <=> AckedCreates(c) > 0
  <2>1. host \in Seq(HostType)
    BY DEF TypeOK
  <2> QED  BY <2>1, GrantedCount DEF Granted, AckedCreates
<1>2. Granted(c)' <=> AckedCreates(c)' > 0
  <2>1. PICK s \in Seq(HostType) : s = host'
    BY DEF TypeOK
  <2>2. Granted(c)' <=> \E i \in DOMAIN s : s[i].c = c /\ s[i].type = "create" /\ s[i].ack
    BY <2>1 DEF Granted
  <2>3. AckedCreates(c)' = In(s, AckOf(c, "create"))
    BY <2>1 DEF AckedCreates, AckOf, MsgOf
  <2> QED  BY <2>2, <2>3, GrantedCount
<1>3. PhaseOf(c) = CASE Mode(c) = "DECEL" -> "off"
                     [] Mode(c) = "ACCEL_PENDING" -> IF Granted(c) THEN "granted" ELSE "asked"
                     [] Mode(c) = "ACCEL" -> "on"
                     [] Mode(c) = "DECEL_PENDING" -> "ending"
                     [] OTHER -> "failed"
  BY DEF PhaseOf, Mode
<1>4. PhaseOf(c)' = CASE Mode(c)' = "DECEL" -> "off"
                      [] Mode(c)' = "ACCEL_PENDING" -> IF Granted(c)' THEN "granted" ELSE "asked"
                      [] Mode(c)' = "ACCEL" -> "on"
                      [] Mode(c)' = "DECEL_PENDING" -> "ending"
                      [] OTHER -> "failed"
  BY DEF PhaseOf, Mode
<1>5. ASSUME NEW m, Failed(m)
      PROVE  m \notin {"DECEL", "ACCEL_PENDING", "ACCEL", "DECEL_PENDING"}
  BY <1>5 DEF Failed, FailModes
<1>6. Failed(Mode(c)) => PhaseOf(c) = "failed"
  BY <1>3, <1>5
<1>7. Failed(Mode(c)') => PhaseOf(c)' = "failed"
  BY <1>4, <1>5
<1>8. /\ Mode(c)' = Mode(c) /\ (Mode(c) = "ACCEL_PENDING" => AckedCreates(c)' = AckedCreates(c))
      => PhaseOf(c)' = PhaseOf(c)
  BY <1>1, <1>2, <1>3, <1>4
<1>9. /\ Mode(c) = "DECEL" => PhaseOf(c) = "off"
      /\ Mode(c) = "ACCEL_PENDING" =>
           PhaseOf(c) = IF AckedCreates(c) > 0 THEN "granted" ELSE "asked"
      /\ Mode(c) = "ACCEL" => PhaseOf(c) = "on"
      /\ Mode(c) = "DECEL_PENDING" => PhaseOf(c) = "ending"
  BY <1>1, <1>3
<1>10. /\ Mode(c)' = "DECEL" => PhaseOf(c)' = "off"
       /\ Mode(c)' = "ACCEL_PENDING" =>
            PhaseOf(c)' = IF AckedCreates(c)' > 0 THEN "granted" ELSE "asked"
       /\ Mode(c)' = "ACCEL" => PhaseOf(c)' = "on"
       /\ Mode(c)' = "DECEL_PENDING" => PhaseOf(c)' = "ending"
  BY <1>2, <1>4
<1> QED  BY <1>6, <1>7, <1>8, <1>9, <1>10

(* Nothing that Offload sees changes. *)
LEMMA StillTurn ==
  ASSUME UNCHANGED <<feci, host, rule, counts>>
  PROVE  EngineStep
<1>1. UNCHANGED <<feci, host, rule, pending_accel_count, accelerated_count>>
  BY DEF counts
<1>2. Slots' = Slots /\ \A c \in Conns : Stays(c)
  BY <1>1 DEF Slots, Stays, SameRuled, PhaseOf, Granted
<1>3. PICK c \in Conns : TRUE
  BY FiniteAssumption
<1> QED  BY <1>2, <1>3 DEF EngineStep, Turn

Over(m) == m = "DECEL" \/ Failed(m)

(* A step that changes the mode of c and leaves the rules alone *)
LEMMA ModeTurn ==
  ASSUME TypeOK, TypeOK', NEW c \in Conns, UNCHANGED rule,
         \A d \in Conns \ {c} : feci'[d] = feci[d] /\ AckedCreates(d)' = AckedCreates(d),
         \/ Slots' = Slots /\ Mode(c)' = Mode(c) /\ AckedCreates(c)' = AckedCreates(c)
         \/ /\ Slots' = Slots
            /\ \/ Mode(c) = "ACCEL_PENDING" /\ AckedCreates(c) > 0 /\ Mode(c)' = "ACCEL"
               \/ Mode(c) = "ACCEL" /\ Mode(c)' = "DECEL_PENDING"
               \/ Mode(c) = "DECEL_PENDING" /\ (Mode(c)' = "ACCEL" \/ Failed(Mode(c)'))
               \/ Mode(c) = "DECEL" /\ Failed(Mode(c)')
         \/ /\ Slots' = Slots /\ rule[c] = NoRule
            /\ Mode(c) \in {"ACCEL", "DECEL_PENDING"} /\ Over(Mode(c)')
         \/ /\ Slots' = Slots - 1 /\ rule[c] = NoRule
            /\ Mode(c) = "ACCEL_PENDING" /\ Over(Mode(c)')
         \/ /\ Slots < AccelLimit /\ Slots' = Slots + 1
            /\ Mode(c) = "DECEL" /\ Mode(c)' = "ACCEL_PENDING" /\ AckedCreates(c)' = 0
  PROVE  EngineStep
<1>1. \A d \in Conns : SameRuled(d)
  BY DEF SameRuled
<1>2. \A d \in Conns \ {c} : Stays(d)
  <2> SUFFICES ASSUME NEW d \in Conns \ {c}  PROVE Stays(d)
    OBVIOUS
  <2>1. Mode(d)' = Mode(d) /\ AckedCreates(d)' = AckedCreates(d)
    BY DEF Mode
  <2>2. PhaseOf(d)' = PhaseOf(d)
    BY <2>1, Phases
  <2> QED  BY <1>1, <2>2 DEF Stays
<1>3. Over(Mode(c)') => PhaseOf(c)' \in {"off", "failed"}
  BY Phases DEF Over
<1>4. Turn(c)
  <2>1. CASE Slots' = Slots /\ Mode(c)' = Mode(c) /\ AckedCreates(c)' = AckedCreates(c)
    <3>1. PhaseOf(c)' = PhaseOf(c)
      BY <2>1, Phases
    <3> QED  BY <1>1, <2>1, <3>1 DEF Turn, Stays
  <2>2. CASE /\ Slots' = Slots
             /\ \/ Mode(c) = "ACCEL_PENDING" /\ AckedCreates(c) > 0 /\ Mode(c)' = "ACCEL"
                \/ Mode(c) = "ACCEL" /\ Mode(c)' = "DECEL_PENDING"
                \/ Mode(c) = "DECEL_PENDING" /\ (Mode(c)' = "ACCEL" \/ Failed(Mode(c)'))
                \/ Mode(c) = "DECEL" /\ Failed(Mode(c)')
    <3>1. \/ PhaseOf(c) = "granted" /\ PhaseOf(c)' = "on"
          \/ PhaseOf(c) = "on" /\ PhaseOf(c)' = "ending"
          \/ PhaseOf(c) = "ending" /\ PhaseOf(c)' \in {"on", "failed"}
          \/ PhaseOf(c) = "off" /\ PhaseOf(c)' = "failed"
      BY <2>2, Phases
    <3> QED  BY <1>1, <2>2, <3>1 DEF Turn
  <2>3. CASE /\ Slots' = Slots /\ rule[c] = NoRule
             /\ Mode(c) \in {"ACCEL", "DECEL_PENDING"} /\ Over(Mode(c)')
    <3>1. PhaseOf(c) \in {"on", "ending"}
      BY <2>3, Phases
    <3> QED  BY <1>1, <1>3, <2>3, <3>1 DEF Turn
  <2>4. CASE /\ Slots' = Slots - 1 /\ rule[c] = NoRule
             /\ Mode(c) = "ACCEL_PENDING" /\ Over(Mode(c)')
    <3>1. PhaseOf(c) \in {"asked", "granted"}
      BY <2>4, Phases
    <3> QED  BY <1>1, <1>3, <2>4, <3>1 DEF Turn
  <2>5. CASE /\ Slots < AccelLimit /\ Slots' = Slots + 1
             /\ Mode(c) = "DECEL" /\ Mode(c)' = "ACCEL_PENDING" /\ AckedCreates(c)' = 0
    <3>1. PhaseOf(c) = "off" /\ PhaseOf(c)' = "asked"
      BY <2>5, Phases
    <3> QED  BY <1>1, <2>5, <3>1 DEF Turn
  <2> QED  BY <2>1, <2>2, <2>3, <2>4, <2>5
<1> QED  BY <1>2, <1>4 DEF EngineStep

(* A step of the NSS, which changes the rule of c at most *)
LEMMA RuleTurn ==
  ASSUME TypeOK, TypeOK', NEW c \in Conns, UNCHANGED feci, UNCHANGED counts,
         \A d \in Conns \ {c} : rule'[d] = rule[d] /\ AckedCreates(d)' = AckedCreates(d),
         \/ /\ rule'[c] = rule[c] \/ rule'[c] = NoRule
            /\ AckedCreates(c)' = AckedCreates(c)
         \/ /\ rule[c] = NoRule /\ rule'[c] # NoRule /\ Mode(c) = "ACCEL_PENDING"
            /\ AckedCreates(c) = 0 /\ AckedCreates(c)' > 0
  PROVE  EngineStep
<1>1. Slots' = Slots
  BY DEF Slots, counts
<1>2. \A d \in Conns : Mode(d)' = Mode(d)
  BY DEF Mode
<1>3. ASSUME NEW d \in Conns, AckedCreates(d)' = AckedCreates(d)
      PROVE  PhaseOf(d)' = PhaseOf(d)
  BY <1>2, <1>3, Phases
<1>4. \A d \in Conns \ {c} : Stays(d)
  BY <1>3 DEF Stays, SameRuled
<1>5. Turn(c)
  <2>1. CASE /\ rule'[c] = rule[c] \/ rule'[c] = NoRule
             /\ AckedCreates(c)' = AckedCreates(c)
    <3>1. PhaseOf(c)' = PhaseOf(c)
      BY <1>3, <2>1
    <3> QED  BY <1>1, <2>1, <3>1 DEF Turn, Stays, SameRuled
  <2>2. CASE /\ rule[c] = NoRule /\ rule'[c] # NoRule /\ Mode(c) = "ACCEL_PENDING"
             /\ AckedCreates(c) = 0 /\ AckedCreates(c)' > 0
    <3>1. PhaseOf(c) = "asked" /\ PhaseOf(c)' = "granted"
      BY <1>2, <2>2, Phases
    <3> QED  BY <1>1, <2>2, <3>1 DEF Turn
  <2> QED  BY <2>1, <2>2
<1> QED  BY <1>4, <1>5 DEF EngineStep



(* What a packet does *)
LEMMA PacketTurn ==
  ASSUME IndInv, IndInv', NEW x \in PacketCtx, Packet(x)
  PROVE  EngineStep
<1>1. TypeOK /\ TypeOK' /\ x \in Contexts /\ Conn(x) \in Conns
  BY NotTimer, Known DEF IndInv
<1>2. PICK c \in Conns : c = Conn(x)
  BY <1>1
<1>3. /\ feci \in [Conns -> FeciType] /\ feci[c] \in FeciType
      /\ pending_accel_count \in Int /\ accelerated_count \in Int
  BY <1>1 DEF TypeOK
<1>4. UNCHANGED host /\ UNCHANGED rule /\ \A d \in Conns \ {c} : feci'[d] = feci[d]
  BY <1>2, <1>3 DEF Packet, TimerSet, PacketStart, PacketExpired, Regenerate, AccelUnwanted,
     AccelPendingSet, AccelDenied, BuildAborted, RuleBuilt, CreateSent, CreateRefused, nss
<1>5. \A d \in Conns : AckedCreates(d)' = AckedCreates(d)
  BY <1>4, HostKept
<1>6. CASE UNCHANGED <<feci, counts>>
  BY <1>4, <1>6, StillTurn
<1>7. CASE CreateSent(x)
  <2>1. feci' = [feci EXCEPT ![c].driver_fail = 0] /\ UNCHANGED counts
    BY <1>2, <1>7 DEF CreateSent
  <2>2. Mode(c)' = Mode(c) /\ Slots' = Slots
    BY <1>3, <2>1 DEF Mode, FeciType, Slots, counts
  <2> QED  BY <1>1, <1>4, <1>5, <2>2, ModeTurn
<1>8. CASE AccelPendingSet(x)
  <2>1. /\ feci' = [feci EXCEPT ![c].accel_mode = "ACCEL_PENDING"] /\ Mode(c) = "DECEL"
        /\ pending_accel_count + accelerated_count < AccelLimit
        /\ pending_accel_count' = pending_accel_count + 1
        /\ accelerated_count' = accelerated_count
    BY <1>2, <1>8 DEF AccelPendingSet, AccelPermitted, Mode
  <2>2. Mode(c)' = "ACCEL_PENDING"
    BY <1>3, <2>1 DEF Mode, FeciType
  <2>3. Slots < AccelLimit /\ Slots' = Slots + 1
    BY <1>3, <2>1 DEF Slots
  <2>4. AckedCreates(c)' = 0
    <3>1. /\ Building(c) \in Nat /\ CreateCmds(c) \in Nat /\ Creates(c) \in Nat
          /\ AckedCreates(c) \in Nat /\ AckedCreates(c) <= Creates(c)
      BY <1>1, CountTypes, AckedAtMost
    <3>2. PendingOwned(c)
      BY DEF IndInv, ConnInv
    <3>3. Building(c) + CreateCmds(c) + Creates(c) = 0
      BY <2>1, <3>2 DEF PendingOwned, OneIf
    <3>4. PICK m \in Nat, n \in Nat, k \in Nat, a \in Nat :
            m = Building(c) /\ n = CreateCmds(c) /\ k = Creates(c) /\ a = AckedCreates(c)
      BY ONLY <3>1
    <3>5. m + n + k = 0 /\ a <= k
      BY ONLY <3>1, <3>3, <3>4
    <3>6. a = 0
      BY ONLY <3>5
    <3> QED  BY <1>5, <3>4, <3>6
  <2> QED  BY <1>1, <1>4, <1>5, <2>1, <2>2, <2>3, <2>4, ModeTurn
<1>9. CASE BuildAborted(x) \/ CreateRefused(x)
  <2>1. /\ ctx[x].pc \in {"build", "tx"} /\ pending_accel_count' = pending_accel_count - 1
        /\ accelerated_count' = accelerated_count
    BY <1>9 DEF BuildAborted, CreateRefused, At
  <2>2. Mode(c)' \in {"DECEL", "FAIL_RULE", "FAIL_DRIVER"}
    <3>1. CASE BuildAborted(x)
      BY <1>2, <1>3, <3>1 DEF BuildAborted, PendingCleared, Mode, FeciType
    <3>2. CASE CreateRefused(x)
      <4>1. \E mode \in {"DECEL", "FAIL_DRIVER"} : \E n :
              feci'[c] = [PendingCleared(feci[c], mode) EXCEPT !.driver_fail = n]
        BY <1>2, <1>3, <3>2 DEF CreateRefused
      <4> QED  BY <1>3, <4>1 DEF PendingCleared, Mode, FeciType
    <3> QED  BY <1>9, <3>1, <3>2
  <2>3. Mode(c) = "ACCEL_PENDING" /\ Creates(c) = 0
    BY <1>1, <1>2, <2>1, Owners
  <2>4. rule[c] = NoRule
    <3>1. AckedCreates(c) = 0
      BY <1>1, <2>3, CountTypes, AckedAtMost
    <3> QED  BY <2>3, <3>1, NoRuleWhen
  <2>5. Slots' = Slots - 1
    BY <1>3, <2>1 DEF Slots
  <2>6. Over(Mode(c)')
    BY <2>2 DEF Over, Failed, FailModes
  <2> QED  BY <1>1, <1>4, <1>5, <2>3, <2>4, <2>5, <2>6, ModeTurn
<1> QED
  BY <1>6, <1>7, <1>8, <1>9 DEF Packet, TimerSet, PacketStart, PacketExpired, Regenerate,
     AccelUnwanted, AccelDenied, RuleBuilt

(* ... and what a deceleration and a defunct do *)
LEMMA DecelerationTurn ==
  ASSUME IndInv, IndInv', NEW x \in Contexts, Deceleration(x)
  PROVE  EngineStep
<1>1. TypeOK /\ TypeOK' /\ Conn(x) \in Conns
  BY Known DEF IndInv
<1>2. PICK c \in Conns : c = Conn(x)
  BY <1>1
<1>3. feci \in [Conns -> FeciType] /\ feci[c] \in FeciType
  BY <1>1 DEF TypeOK
<1>4. /\ UNCHANGED host /\ UNCHANGED rule /\ \A d \in Conns \ {c} : feci'[d] = feci[d]
      /\ pending_accel_count' = pending_accel_count /\ accelerated_count' = accelerated_count
  BY <1>2, <1>3 DEF Deceleration, Decelerate, Defunct, DestroySent, DestroyGivenUp,
     DestroyRefused, Rearm, FailureHandled, LastRef, nss, counts
<1>5. Slots' = Slots
  BY <1>4 DEF Slots
<1>6. \A d \in Conns : AckedCreates(d)' = AckedCreates(d)
  BY <1>4, HostKept
<1>7. \/ Mode(c)' = Mode(c)
      \/ Mode(c) = "ACCEL" /\ Mode(c)' = "DECEL_PENDING"
      \/ Mode(c) = "DECEL" /\ Mode(c)' = "FAIL_DEFUNCT"
      \/ Mode(c) = "DECEL_PENDING" /\ Mode(c)' \in {"ACCEL", "FAIL_DRIVER"}
  <2>1. CASE Rearm(x) \/ LastRef(x)
    BY <2>1 DEF Rearm, LastRef, Mode
  <2>2. CASE DestroySent(x) \/ FailureHandled(x)
    <3>1. \/ feci' = [feci EXCEPT ![c].driver_fail = 0]
          \/ feci' = [feci EXCEPT ![c].destroy_fail_handle_pending = FALSE]
      BY <1>2, <2>2 DEF DestroySent, FailureHandled
    <3> QED  BY <1>3, <3>1 DEF Mode, FeciType
  <2>3. CASE DestroyGivenUp(x) \/ DestroyRefused(x)
    <3>1. At(x, "send")
      BY <2>3 DEF DestroyGivenUp, DestroyRefused
    <3>2. Mode(c) = "DECEL_PENDING"
      BY <1>2, <3>1, Owners
    <3>3. CASE DestroyGivenUp(x)
      <4>1. feci' = [feci EXCEPT ![c].driver_fail = DriverFailLimit,
                                 ![c].accel_mode = "FAIL_DRIVER"]
        BY <1>2, <3>3 DEF DestroyGivenUp
      <4>2. Mode(c)' = "FAIL_DRIVER"
        BY <1>3, <4>1 DEF Mode, FeciType
      <4> QED  BY <3>2, <4>2
    <3>4. CASE DestroyRefused(x)
      <4>1. \E n : feci' = [feci EXCEPT ![c].driver_fail = n, ![c].accel_mode = "ACCEL",
                       ![c].is_defunct = FALSE, ![c].destroy_fail_handle_pending = TRUE]
        BY <1>2, <3>4 DEF DestroyRefused
      <4>2. Mode(c)' = "ACCEL"
        BY <1>3, <4>1 DEF Mode, FeciType
      <4> QED  BY <3>2, <4>2
    <3> QED  BY <2>3, <3>3, <3>4
  <2>4. CASE Decelerate(x)
    <3>1. feci'[c] = DecelNoted(feci[c])
      BY <1>2, <1>3, <2>4 DEF Decelerate
    <3> QED  BY <1>3, <3>1, DecelNotedOK DEF Mode, DecelAllowed
  <2>5. CASE Defunct(x)
    <3>1. feci'[c] = Defuncted(feci[c])
      BY <1>2, <1>3, <2>5 DEF Defunct
    <3> QED  BY <1>3, <3>1, DefunctedOK DEF Mode, DecelAllowed
  <2> QED  BY <2>1, <2>2, <2>3, <2>4, <2>5 DEF Deceleration
<1>8. Failed("FAIL_DEFUNCT") /\ Failed("FAIL_DRIVER")
  BY DEF Failed, FailModes
<1> QED  BY <1>1, <1>4, <1>5, <1>6, <1>7, <1>8, ModeTurn

(* The end of an acceleration frees a slot that nothing needs any more. *)
LEMMA SyncTurn ==
  ASSUME IndInv, IndInv', CountInv, NEW x \in NssCtx, Sync(x)
  PROVE  EngineStep
<1>1. TypeOK /\ TypeOK' /\ x \in Contexts /\ Conn(x) \in Conns
  BY NotTimer, Known DEF IndInv
<1>2. PICK c \in Conns : c = Conn(x)
  BY <1>1
<1>3. /\ feci \in [Conns -> FeciType] /\ feci[c] \in FeciType
      /\ pending_accel_count \in Int /\ accelerated_count \in Int
  BY <1>1 DEF TypeOK
<1>4. UNCHANGED host /\ UNCHANGED rule /\ \A d \in Conns \ {c} : feci'[d] = feci[d]
  BY <1>2, <1>3 DEF Sync, AccelCeased, AccelEnded, RegenPeek, nss
<1>5. \A d \in Conns : AckedCreates(d)' = AckedCreates(d)
  BY <1>4, HostKept
<1>6. CASE RegenPeek(x)
  BY <1>4, <1>6, StillTurn DEF RegenPeek
<1>7. CASE AccelEnded(x)
  <2>1. /\ ctx[x].pc = "ended" /\ UNCHANGED <<feci, host, rule>>
        /\ pending_accel_count' = pending_accel_count
        /\ accelerated_count' = accelerated_count - 1
    BY <1>4, <1>7 DEF AccelEnded, At
  <2>2. Ending \in Nat /\ Ending > 0
    <3>1. x \in Working({"ended"}) /\ Working({"ended"}) \subseteq Contexts
      BY <1>1, <2>1 DEF Working
    <3>2. IsFiniteSet(Working({"ended"}))
      BY <3>1, FiniteAssumption, FS_Subset
    <3> QED  BY <3>1, <3>2, FS_CardinalityType, FS_EmptySet DEF Ending
  <2>3. Slots' = Slots - 1 /\ Slots \in Int
    BY <1>3, <2>1 DEF Slots
  <2>4. Slots > Cardinality(NeedsSlot)
    BY <2>2, <2>3, SlotsHeld
  <2>5. \A d \in Conns : Stays(d)
    BY <2>1 DEF Stays, SameRuled, PhaseOf, Granted
  <2> QED  BY <2>3, <2>4, <2>5 DEF EngineStep, SlotFreed
<1>8. CASE AccelCeased(x)
  <2>1. ctx[x].pc = "sync" /\ UNCHANGED counts
    BY <1>8 DEF AccelCeased, At
  <2>2. Mode(c)' = Mode(c) \/ (Mode(c) = "ACCEL" /\ Mode(c)' \in {"DECEL", "FAIL_NO_ACTION"})
    BY <1>2, <1>3, <1>8 DEF AccelCeased, Mode, FeciType
  <2>3. Mode(c) = "ACCEL" => rule[c] = NoRule
    <3>1. Syncing(c) > 0
      BY <1>1, <1>2, <2>1, BusyCounts DEF Syncing, Conn
    <3> QED  BY <3>1, NoRuleWhen
  <2>4. Slots' = Slots
    BY <2>1 DEF Slots, counts
  <2>5. Over("DECEL") /\ Over("FAIL_NO_ACTION")
    BY DEF Over, Failed, FailModes
  <2> QED  BY <1>1, <1>4, <1>5, <2>2, <2>3, <2>4, <2>5, ModeTurn
<1> QED  BY <1>6, <1>7, <1>8 DEF Sync


(* A message from the NSS is handled. *)
LEMMA MessageTurn ==
  ASSUME IndInv, IndInv', NEW x \in NssCtx, NEW i \in DOMAIN host,
         Response(x, i) \/ SyncSeen(x, i)
  PROVE  EngineStep
<1>1. PICK m : m = host[i]
  OBVIOUS
<1>2. PICK c : c = m.c
  OBVIOUS
<1>3. /\ m \in HostType /\ c \in Conns
      /\ m.type = "create" => Mode(c) = "ACCEL_PENDING"
      /\ m.type = "destroy" => Mode(c) = "DECEL_PENDING"
      /\ m.type = "create" /\ ~m.ack => rule[c] = NoRule
      /\ m.type = "destroy" => rule[c] = NoRule
  BY <1>1, <1>2, Answers, NoRuleAnswered
<1>4. /\ TypeOK /\ TypeOK' /\ host \in Seq(HostType)
      /\ feci \in [Conns -> FeciType] /\ feci[c] \in FeciType
      /\ pending_accel_count \in Int /\ accelerated_count \in Int
  BY <1>3 DEF IndInv, TypeOK
<1>5. UNCHANGED rule /\ host' = RemoveAt(host, i)
  BY DEF Response, CreateNacked, CreateFlushed, CreateAcked, DestroyAnswered, SyncSeen
<1>6. \A d \in Conns \ {c} : feci'[d] = feci[d]
  BY <1>1, <1>2, <1>4 DEF Response, CreateNacked, CreateFlushed, CreateAcked, DestroyAnswered,
     SyncSeen
<1>7. \A d \in Conns : /\ AckedCreates(d) \in Nat
                       /\ AckedCreates(d)' = AckedCreates(d)
                            - OneIf(m.c = d /\ m.type = "create" /\ m.ack)
  <2> SUFFICES ASSUME NEW d \in Conns
               PROVE  /\ AckedCreates(d) \in Nat
                      /\ AckedCreates(d)' = AckedCreates(d)
                           - OneIf(m.c = d /\ m.type = "create" /\ m.ack)
    OBVIOUS
  <2>1. AckedCreates(d) \in Nat
    BY <1>4, CountTypes
  <2> QED  BY <1>1, <1>4, <1>5, <2>1, MsgTaken
<1>8. \A d \in Conns \ {c} : feci'[d] = feci[d] /\ AckedCreates(d)' = AckedCreates(d)
  BY <1>2, <1>6, <1>7 DEF OneIf
<1>9. CASE CreateNacked(x, i)
  <2>1. /\ m.type = "create" /\ ~m.ack
        /\ pending_accel_count' = pending_accel_count - 1
        /\ accelerated_count' = accelerated_count
        /\ \E mode \in {"DECEL", "FAIL_DEFUNCT", "FAIL_ACCEL_ENGINE"} : \E n :
             feci'[c] = [PendingCleared(feci[c], mode) EXCEPT !.ae_nack = n]
    BY <1>1, <1>2, <1>3, <1>4, <1>9 DEF CreateNacked
  <2>2. Mode(c)' \in {"DECEL", "FAIL_DEFUNCT", "FAIL_ACCEL_ENGINE"}
    BY <1>4, <2>1 DEF PendingCleared, Mode, FeciType
  <2>3. Over(Mode(c)')
    BY <2>2 DEF Over, Failed, FailModes
  <2>4. Slots' = Slots - 1
    BY <1>4, <2>1 DEF Slots
  <2> QED  BY <1>3, <1>4, <1>5, <1>8, <2>1, <2>3, <2>4, ModeTurn
<1>10. CASE CreateFlushed(x, i)
  <2> DEFINE n == AtMost(feci[c].no_action_seen + 1, NoActionLimit)
  <2>1. /\ m.type = "create" /\ m.ack /\ feci[c].flush_happened
        /\ pending_accel_count' = pending_accel_count - 1
        /\ accelerated_count' = accelerated_count
        /\ feci'[c] = [PendingCleared(feci[c], "DECEL") EXCEPT
                          !.flush_happened = FALSE, !.no_action_seen = n]
    BY <1>1, <1>2, <1>3, <1>4, <1>10 DEF CreateFlushed
  <2> HIDE DEF n
  <2>2. Mode(c)' = "DECEL"
    BY <1>4, <2>1 DEF PendingCleared, Mode, FeciType
  <2>3. rule[c] = NoRule
    <3>1. ConnInv(c) /\ Mode(c) = "ACCEL_PENDING"
      BY <1>3, <2>1 DEF IndInv
    <3>2. /\ Building(c) \in Nat /\ CreateCmds(c) \in Nat /\ Creates(c) \in Nat
          /\ Flushes(c) \in Nat /\ Syncing(c) \in Nat /\ AckedDestroys(c) \in Nat
          /\ AckedCreates(c) \in Nat /\ AckedCreates(c) <= Creates(c)
      BY <1>3, <1>4, CountTypes, AckedAtMost
    <3>3. AckedCreates(c) <= 1
      BY <3>1, <3>2 DEF ConnInv, PendingOwned, OneIf
    <3>4. /\ OneIf(feci[c].flush_happened) = 1
          /\ OneIf(Mode(c) \in {"ACCEL", "DECEL_PENDING"}) = 0 /\ OneIf(Failed(Mode(c))) = 0
          /\ OneIf(rule[c] # NoRule) \in Nat
      BY <2>1, <3>1 DEF OneIf, Failed, FailModes
    <3>5. Flushes(c) + Syncing(c) + OneIf(feci[c].flush_happened) + OneIf(rule[c] # NoRule)
            + AckedDestroys(c)
          <= OneIf(Mode(c) \in {"ACCEL", "DECEL_PENDING"}) + AckedCreates(c)
               + OneIf(Failed(Mode(c)))
      BY <3>1 DEF ConnInv, FlushBalance
    <3>6. OneIf(rule[c] # NoRule) = 0
      BY <3>2, <3>3, <3>4, <3>5
    <3> QED  BY <3>6 DEF OneIf
  <2>4. Slots' = Slots - 1
    BY <1>4, <2>1 DEF Slots
  <2> QED  BY <1>3, <1>4, <1>5, <1>8, <2>1, <2>2, <2>3, <2>4, ModeTurn DEF Over
<1>11. CASE CreateAcked(x, i)
  <2>1. /\ m.type = "create" /\ m.ack
        /\ pending_accel_count' = pending_accel_count - 1
        /\ accelerated_count' = accelerated_count + 1
    BY <1>1, <1>11 DEF CreateAcked
  <2>2. Mode(c)' = "ACCEL"
    <3> DEFINE g == [PendingCleared(feci[c], "ACCEL") EXCEPT !.ae_nack = 0]
               n == AtMost(g.no_action_seen + 1, NoActionLimit)
    <3>1. feci'[c] = [g EXCEPT !.is_defunct = FALSE] \/ feci'[c] = [g EXCEPT !.no_action_seen = n]
      BY <1>1, <1>2, <1>3, <1>4, <1>11 DEF CreateAcked
    <3>2. /\ [g EXCEPT !.is_defunct = FALSE].accel_mode = "ACCEL"
          /\ [g EXCEPT !.no_action_seen = n].accel_mode = "ACCEL"
      BY <1>4 DEF PendingCleared, FeciType
    <3> HIDE DEF g, n
    <3> QED  BY <3>1, <3>2 DEF Mode
  <2>3. AckedCreates(c) > 0
    BY <1>1, <1>2, <1>3, <1>4, <2>1, MsgKinds, InPositive DEF AckedCreates
  <2>4. Slots' = Slots
    BY <1>4, <2>1 DEF Slots
  <2> QED  BY <1>3, <1>4, <1>5, <1>8, <2>1, <2>2, <2>3, <2>4, ModeTurn
<1>12. CASE DestroyAnswered(x, i)
  <2>1. /\ m.type = "destroy" /\ pending_accel_count' = pending_accel_count
        /\ accelerated_count' = accelerated_count
        /\ \E mode \in {"FAIL_DEFUNCT", "DECEL", "FAIL_DECEL"} :
             feci' = [feci EXCEPT ![c].accel_mode = mode]
    BY <1>1, <1>2, <1>3, <1>12 DEF DestroyAnswered, Mode
  <2>2. Mode(c)' \in {"FAIL_DEFUNCT", "DECEL", "FAIL_DECEL"}
    BY <1>3, <1>4, <2>1 DEF Mode, FeciType
  <2>3. Over(Mode(c)')
    BY <2>2 DEF Over, Failed, FailModes
  <2>4. Slots' = Slots
    BY <2>1 DEF Slots
  <2> QED  BY <1>3, <1>4, <1>5, <1>8, <2>1, <2>3, <2>4, ModeTurn
<1>13. CASE SyncSeen(x, i)
  <2>1. /\ m.type \in {"sync", "flush"} /\ UNCHANGED counts
        /\ UNCHANGED feci \/ feci' = [feci EXCEPT ![c].no_action_seen = 0]
    BY <1>1, <1>2, <1>13 DEF SyncSeen, IsNote
  <2>2. Mode(c)' = Mode(c)
    BY <1>3, <1>4, <2>1 DEF Mode, FeciType
  <2>3. AckedCreates(c)' = AckedCreates(c)
    BY <1>3, <1>7, <2>1 DEF OneIf
  <2>4. Slots' = Slots
    BY <2>1 DEF Slots, counts
  <2> QED  BY <1>3, <1>4, <1>5, <1>8, <2>2, <2>3, <2>4, ModeTurn
<1> QED  BY <1>9, <1>10, <1>11, <1>12, <1>13 DEF Response

(* The NSS takes a rule once for each create, and drops it. *)
LEMMA NssTurn ==
  ASSUME IndInv, IndInv',
         \/ NssCreate(TRUE) \/ NssCreate(FALSE) \/ NssDestroy
         \/ \E c \in Conns : NssSync(c) \/ NssFlush(c)
  PROVE  EngineStep
<1>1. /\ TypeOK /\ TypeOK' /\ UNCHANGED feci /\ UNCHANGED counts
      /\ rule \in [Conns -> 0..NoRule] /\ cmds \in Seq(CmdType)
  BY DEF NssCreate, NssDestroy, NssSync, NssFlush, IndInv, TypeOK
<1>2. ASSUME NEW m \in HostType, host' = Append(host, m), NEW d \in Conns
      PROVE  /\ AckedCreates(d) \in Nat
             /\ AckedCreates(d)' = AckedCreates(d)
                  + OneIf(m.c = d /\ m.type = "create" /\ m.ack)
  <2>1. AckedCreates(d) \in Nat
    BY <1>1, CountTypes
  <2> QED  BY <1>1, <1>2, <2>1, MsgAppended
<1>3. CASE NssCreate(TRUE) \/ NssCreate(FALSE)
  <2>1. PICK k : k = Head(cmds)
    OBVIOUS
  <2>2. PICK c : c = k.c
    OBVIOUS
  <2>3. PICK ack \in BOOLEAN :
          /\ cmds # <<>> /\ k.type = "create" /\ (ack => rule[c] = NoRule)
          /\ rule' = IF ack THEN [rule EXCEPT ![c] = k.gen] ELSE rule
          /\ host' = Append(host, [type |-> "create", c |-> c, ack |-> ack])
    BY <1>3, <2>1, <2>2 DEF NssCreate
  <2>4. k \in CmdType /\ c \in Conns /\ Mode(c) = "ACCEL_PENDING"
    BY <2>1, <2>2, <2>3, Commands
  <2>5. PICK m : m = [type |-> "create", c |-> c, ack |-> ack]
    OBVIOUS
  <2>6. m \in HostType /\ m.c = c /\ m.type = "create" /\ m.ack = ack /\ host' = Append(host, m)
    BY <2>3, <2>4, <2>5 DEF HostType
  <2>7. \A d \in Conns \ {c} : rule'[d] = rule[d] /\ AckedCreates(d)' = AckedCreates(d)
    <3> SUFFICES ASSUME NEW d \in Conns \ {c}
                 PROVE  rule'[d] = rule[d] /\ AckedCreates(d)' = AckedCreates(d)
      OBVIOUS
    <3>1. rule'[d] = rule[d]
      BY <1>1, <2>3
    <3>2. OneIf(m.c = d /\ m.type = "create" /\ m.ack) = 0
      BY <2>6 DEF OneIf
    <3> QED  BY <1>2, <2>6, <3>1, <3>2
  <2>8. AckedCreates(c) \in Nat /\ AckedCreates(c)' = AckedCreates(c) + OneIf(ack)
    <3>1. OneIf(m.c = c /\ m.type = "create" /\ m.ack) = OneIf(ack)
      BY <2>6 DEF OneIf
    <3> QED  BY <1>2, <2>4, <2>6, <3>1
  <2>9. CASE ~ack
    <3>1. rule'[c] = rule[c] /\ AckedCreates(c)' = AckedCreates(c)
      BY <2>3, <2>8, <2>9 DEF OneIf
    <3> QED  BY <1>1, <2>4, <2>7, <3>1, RuleTurn
  <2>10. CASE ack
    <3>1. rule[c] = NoRule /\ rule'[c] # NoRule
      BY <1>1, <2>3, <2>4, <2>10, BoundAssumption DEF CmdType, NoRule
    <3>2. AckedCreates(c) = 0
      <4>1. CreateCmds(c) > 0
        <5>1. 1 \in DOMAIN cmds /\ cmds[1] = k
          BY <1>1, <2>1, <2>3
        <5>2. cmds[1] \in CmdOf(c, "create")
          BY <2>2, <2>3, <2>4, <5>1 DEF CmdOf
        <5> QED  BY <1>1, <5>1, <5>2, InPositive DEF CreateCmds
      <4>2. PendingOwned(c)
        BY <2>4 DEF IndInv, ConnInv
      <4>3. /\ Building(c) \in Nat /\ CreateCmds(c) \in Nat /\ Creates(c) \in Nat
            /\ AckedCreates(c) \in Nat /\ AckedCreates(c) <= Creates(c)
        BY <1>1, <2>4, CountTypes, AckedAtMost
      <4> QED  BY <4>1, <4>2, <4>3 DEF PendingOwned, OneIf
    <3>3. AckedCreates(c)' > 0
      BY <2>8, <2>10, <3>2 DEF OneIf
    <3> QED  BY <1>1, <2>4, <2>7, <3>1, <3>2, <3>3, RuleTurn
  <2> QED  BY <2>9, <2>10
<1>4. CASE NssDestroy
  <2>1. PICK k : k = Head(cmds)
    OBVIOUS
  <2>2. PICK c : c = k.c
    OBVIOUS
  <2>3. PICK ack \in BOOLEAN :
          /\ cmds # <<>> /\ rule' = [rule EXCEPT ![c] = NoRule]
          /\ host' = Append(host, [type |-> "destroy", c |-> c, ack |-> ack])
    BY <1>4, <2>1, <2>2 DEF NssDestroy
  <2>4. c \in Conns
    BY <2>1, <2>2, <2>3, Commands
  <2>5. PICK m : m = [type |-> "destroy", c |-> c, ack |-> ack]
    OBVIOUS
  <2>6. m \in HostType /\ m.type = "destroy" /\ host' = Append(host, m)
    BY <2>3, <2>4, <2>5 DEF HostType
  <2>7. \A d \in Conns : AckedCreates(d)' = AckedCreates(d)
    BY <1>2, <2>6 DEF OneIf
  <2>8. rule'[c] = NoRule /\ \A d \in Conns \ {c} : rule'[d] = rule[d]
    BY <1>1, <2>3, <2>4
  <2> QED  BY <1>1, <2>4, <2>7, <2>8, RuleTurn
<1>5. CASE \E c \in Conns : NssSync(c) \/ NssFlush(c)
  <2>1. PICK c \in Conns : NssSync(c) \/ NssFlush(c)
    BY <1>5
  <2>2. PICK t \in {"sync", "flush"} :
          /\ rule' = rule \/ rule' = [rule EXCEPT ![c] = NoRule]
          /\ host' = Append(host, [type |-> t, c |-> c, ack |-> FALSE])
    BY <2>1 DEF NssSync, NssFlush
  <2>3. PICK m : m = [type |-> t, c |-> c, ack |-> FALSE]
    OBVIOUS
  <2>4. m \in HostType /\ m.type \in {"sync", "flush"} /\ host' = Append(host, m)
    BY <2>2, <2>3 DEF HostType
  <2>5. \A d \in Conns : AckedCreates(d)' = AckedCreates(d)
    BY <1>2, <2>4 DEF OneIf
  <2>6. /\ \A d \in Conns \ {c} : rule'[d] = rule[d]
        /\ rule'[c] = rule[c] \/ rule'[c] = NoRule
    BY <1>1, <2>2
  <2> QED  BY <1>1, <2>5, <2>6, RuleTurn
<1> QED  BY <1>3, <1>4, <1>5

(* The first packet *)
LEMMA AddTurn ==
  ASSUME IndInv, IndInv', NEW x \in PacketCtx, NEW c \in Conns, ConnectionAdd(x, c)
  PROVE  EngineStep
<1>1. TypeOK /\ TypeOK' /\ feci \in [Conns -> FeciType]
  BY DEF IndInv, TypeOK
<1>2. /\ ~ci[c].added /\ UNCHANGED host /\ UNCHANGED rule /\ UNCHANGED counts
      /\ \E mode \in {"DECEL", "FAIL_DENIED"} : feci' = [feci EXCEPT ![c].accel_mode = mode]
  BY DEF ConnectionAdd, nss
<1>3. Mode(c) = "DECEL"
  BY <1>2 DEF IndInv, ConnInv, Untouched
<1>4. /\ \A d \in Conns \ {c} : feci'[d] = feci[d]
      /\ Mode(c)' = Mode(c) \/ Mode(c)' = "FAIL_DENIED"
  BY <1>1, <1>2, <1>3 DEF Mode, FeciType
<1>5. \A d \in Conns : AckedCreates(d)' = AckedCreates(d)
  BY <1>2, HostKept
<1>6. Slots' = Slots
  BY <1>2 DEF Slots, counts
<1>7. Failed("FAIL_DENIED")
  BY DEF Failed, FailModes
<1> QED  BY <1>1, <1>2, <1>3, <1>4, <1>5, <1>6, <1>7, ModeTurn

(* Every step is one of Offload, or none. *)
LEMMA NextTurn ==
  ASSUME IndInv, IndInv', CountInv, [Next]_vars
  PROVE  [Engine!Next]_(Engine!vars)
<1>1. UNCHANGED <<feci, host, rule, counts>> => EngineStep
  BY StillTurn
<1>2. EngineStep
  <2>1. CASE \E x \in PacketCtx, c \in Conns : ConnectionAdd(x, c)
    BY <2>1, AddTurn
  <2>2. CASE \/ \E x \in PacketCtx, c \in Conns : PacketSeen(x, c)
             \/ \E x \in UserCtx, c \in Conns, op \in {"decel", "make"} : ForceDecel(x, c, op)
             \/ \E c \in Conns : TimerExpires(c) \/ RegenNeeded(c)
             \/ AllRegenNeeded
    BY <1>1, <2>2 DEF PacketSeen, ForceDecel, TimerExpires, RegenNeeded, AllRegenNeeded, nss
  <2>3. CASE \E x \in PacketCtx : Packet(x)
    BY <2>3, PacketTurn
  <2>4. CASE \E x \in Contexts : Deceleration(x)
    BY <2>4, DecelerationTurn
  <2>5. CASE \E x \in NssCtx, i \in DOMAIN host : Response(x, i) \/ SyncSeen(x, i)
    BY <2>5, MessageTurn
  <2>6. CASE \E x \in NssCtx : Sync(x)
    BY <2>6, SyncTurn
  <2>7. CASE \/ NssCreate(TRUE) \/ NssCreate(FALSE) \/ NssDestroy
             \/ \E c \in Conns : NssSync(c) \/ NssFlush(c)
    BY <2>7, NssTurn
  <2>8. CASE UNCHANGED vars
    BY <2>8, StillTurn DEF vars
  <2> QED
    BY <2>1, <2>2, <2>3, <2>4, <2>5, <2>6, <2>7, <2>8 DEF Next
<1>3. CASE SlotFreed
  BY <1>3, FreedImplements
<1>4. CASE \E c \in Conns : Turn(c) /\ \A d \in Conns \ {c} : Stays(d)
  BY <1>4, TurnImplements
<1> QED  BY <1>2, <1>3, <1>4 DEF EngineStep

(* Whatever overtakes, retries or refuses: ECM accelerates a connection    *)
(* only with the rule that the NSS took for it, ends the acceleration only *)
(* when the rule is gone, and frees its slot after that, and once.         *)
THEOREM OffloadImplemented == Spec => ImplementsOffload
<1>1. Init => Engine!Init
  <2> SUFFICES ASSUME Init  PROVE Engine!Init
    OBVIOUS
  <2>1. /\ \A c \in Conns : PhaseOf(c) = "off"
        /\ \A c \in Conns : rule[c] = NoRule
        /\ pending_accel_count = 0 /\ accelerated_count = 0
    BY DEF Init, PhaseOf
  <2> QED  BY <2>1 DEF Engine!Init
<1>2. IndInv /\ IndInv' /\ CountInv /\ [Next]_vars => [Engine!Next]_(Engine!vars)
  BY NextTurn
<1> QED  BY <1>1, <1>2, CountInvariance, PTL DEF Spec, Engine!Spec, ImplementsOffload
=============================================================================
