------------------------------ MODULE EcmAccel ------------------------------
(***************************************************************************)
(* The acceleration of ported IPv4 connections by the enhanced connection  *)
(* manager (qca-nss-ecm): the front end that offloads a connection to the  *)
(* NSS, the references and the defunct timer of the connection database,   *)
(* and the NSS itself as far as ECM sees it.                               *)
(*                                                                         *)
(* A context is a CPU that runs ECM code; it holds no lock between two     *)
(* steps, and what it does under feci->lock (with ecm_nss_ipv4_lock inside *)
(* it) or ecm_db_lock is one step.  Neighbouring lock sections share a     *)
(* step when no other context can tell them apart.                         *)
(***************************************************************************)
EXTENDS Integers, Sequences, FiniteSets

CONSTANTS
  Conns,            \* the connections, each with one life
  PacketCtx,        \* contexts that see packets on the slow path
  NssCtx,           \* contexts in which the NSS driver calls back
  UserCtx,          \* contexts that force a deceleration or a defunct
  TimerCtx,         \* the context of ecm_db_timer
  NoActionLimit,    \* no_action_seen_limit
  DriverFailLimit,  \* driver_fail_limit (250 in the code)
  NackLimit,        \* ae_nack_limit
  AccelLimit,       \* nss_ipv4_max_conn_count(), in accel limit mode FIXED
  TxFails,          \* whether nss_ipv4_tx() may refuse a message
  MaxRegen,         \* bound: regenerations flagged in the life of a connection
  MaxNotes          \* bound: sync messages under way

Contexts == PacketCtx \cup NssCtx \cup UserCtx \cup {TimerCtx}

ASSUME ContextAssumption ==
  /\ PacketCtx \cap NssCtx = {} /\ PacketCtx \cap UserCtx = {}
  /\ NssCtx \cap UserCtx = {} /\ TimerCtx \notin PacketCtx \cup NssCtx \cup UserCtx
ASSUME LimitAssumption ==
  /\ NoActionLimit \in Nat \ {0} /\ DriverFailLimit \in Nat \ {0}
  /\ NackLimit \in Nat \ {0} /\ AccelLimit \in Nat
ASSUME BoundAssumption ==
  /\ TxFails \in BOOLEAN /\ MaxRegen \in Nat /\ MaxNotes \in Nat
ASSUME FiniteAssumption == IsFiniteSet(Conns) /\ Conns # {} /\ IsFiniteSet(Contexts)

VARIABLES
  feci,      \* front end instance of each connection
  ci,        \* database instance of each connection
  ctx,       \* what each context is doing
  cmds,      \* commands on their way to the NSS
  host,      \* messages on their way from the NSS
  rule,      \* NSS rule of each connection: the generation it was built from
  pending_accel_count, pending_decel_count, accelerated_count

counts == <<pending_accel_count, pending_decel_count, accelerated_count>>
nss == <<cmds, host, rule>>
vars == <<feci, ci, ctx, cmds, host, rule, counts>>

FailModes == {"FAIL_DEFUNCT", "FAIL_DECEL", "FAIL_NO_ACTION", "FAIL_ACCEL_ENGINE",
              "FAIL_DRIVER", "FAIL_RULE", "FAIL_DENIED"}
Modes == FailModes \cup {"DECEL", "ACCEL_PENDING", "ACCEL", "DECEL_PENDING"}

NoRule == MaxRegen + 1

(* Fields of struct ecm_front_end_connection_instance and of its stats *)
FeciType ==
  [accel_mode: Modes, decelerate_pending: BOOLEAN, flush_happened: BOOLEAN,
   is_defunct: BOOLEAN, destroy_fail_handle_pending: BOOLEAN,
   no_action_seen: 0..NoActionLimit, driver_fail: 0..DriverFailLimit,
   ae_nack: 0..NackLimit]

(* Fields of struct ecm_db_connection_instance.  "group" is the defunct    *)
(* timer's group, "stale" whether generation differs from the global one.  *)
CiType ==
  [added: BOOLEAN, refs: Int, group: {"MAX", "DEFAULT", "RETRY"}, stale: BOOLEAN,
   regen_occurances: 0..MaxRegen, regen_required: 0..MaxRegen, regen_in_progress: BOOLEAN]

Ops == {"packet", "decel", "make", "expiry"}
Pcs == {"idle", "add", "packet", "regen", "accel", "build", "tx", "sync", "peek", "ended",
        "decel", "send", "rearm", "unpend", "last"}

CmdType == [type: {"create", "destroy"}, c: Conns, gen: 0..MaxRegen]
HostType == [type: {"create", "destroy", "sync", "flush"}, c: Conns, ack: BOOLEAN]

Idle == [pc |-> "idle", c |-> CHOOSE c \in Conns : TRUE, op |-> "packet", gen |-> 0,
         release |-> FALSE]

-----------------------------------------------------------------------------
(* Helpers *)

AtMost(n, limit) == IF n > limit THEN limit ELSE n
Failed(mode) == mode \in FailModes

At(x, pc) == ctx[x].pc = pc
Conn(x) == ctx[x].c
Goto(x, pc) == ctx' = [ctx EXCEPT ![x].pc = pc]

(* ecm_db_connection_deref(): the last one takes the connection out *)
Deref(k, n) == [k EXCEPT !.refs = @ - n]
Ref(k) == [k EXCEPT !.refs = @ + 1]

(* The handler returns, and gives back what its look-up or its caller held *)
Own(x) == IF x = TimerCtx THEN 0 ELSE 1
Leave(x) == ctx' = [ctx EXCEPT ![x] = Idle]
Return(x) == Leave(x) /\ ci' = [ci EXCEPT ![Conn(x)] = Deref(@, Own(x))]

(* A change of the global generation is accounted for when it is noticed *)
Noticed(k) ==
  IF k.stale
  THEN [k EXCEPT !.stale = FALSE, !.regen_occurances = @ + 1, !.regen_required = @ + 1]
  ELSE k

(* _ecm_nss_ipv4_accel_pending_clear() *)
PendingCleared(f, mode) == [f EXCEPT !.accel_mode = mode, !.decelerate_pending = FALSE]

(* Refuse or note a deceleration *)
DecelAllowed(f) == ~f.decelerate_pending /\ f.accel_mode = "ACCEL"
DecelNoted(f) ==
  [f EXCEPT !.decelerate_pending = @ \/ f.accel_mode = "ACCEL_PENDING",
            !.accel_mode = IF DecelAllowed(f) THEN "DECEL_PENDING" ELSE @]

DefunctRefused(f) == f.destroy_fail_handle_pending \/ f.is_defunct
(* defunct_callback under feci->lock: defunct_check, then the mode check *)
Defuncted(f) ==
  IF DefunctRefused(f) THEN f
  ELSE IF f.accel_mode = "DECEL"
       THEN [f EXCEPT !.is_defunct = TRUE, !.accel_mode = "FAIL_DEFUNCT"]
       ELSE [DecelNoted(f) EXCEPT !.is_defunct = TRUE]

-----------------------------------------------------------------------------
Init ==
  /\ feci = [c \in Conns |->
               [accel_mode |-> "DECEL", decelerate_pending |-> FALSE,
                flush_happened |-> FALSE, is_defunct |-> FALSE,
                destroy_fail_handle_pending |-> FALSE,
                no_action_seen |-> 0, driver_fail |-> 0, ae_nack |-> 0]]
  /\ ci = [c \in Conns |->
             [added |-> FALSE, refs |-> 0, group |-> "MAX", stale |-> FALSE,
              regen_occurances |-> 0, regen_required |-> 0, regen_in_progress |-> FALSE]]
  /\ ctx = [x \in Contexts |-> Idle]
  /\ cmds = <<>> /\ host = <<>>
  /\ rule = [c \in Conns |-> NoRule]
  /\ pending_accel_count = 0 /\ pending_decel_count = 0 /\ accelerated_count = 0

-----------------------------------------------------------------------------
(* A packet on the slow path *)

(* The first packet: instance_alloc and connection_add, whose creator      *)
(* keeps the allocation's reference.  can_accel FALSE denies acceleration. *)
ConnectionAdd(x, c) ==
  /\ At(x, "idle") /\ ~ci[c].added
  /\ ci' = [ci EXCEPT ![c].added = TRUE, ![c].refs = 1]
  /\ \E mode \in {"DECEL", "FAIL_DENIED"} : feci' = [feci EXCEPT ![c].accel_mode = mode]
  /\ ctx' = [ctx EXCEPT ![x] = [Idle EXCEPT !.pc = "add", !.c = c]]
  /\ UNCHANGED <<nss, counts>>

(* The end of connection_add: the timer is set with a reference of its own *)
TimerSet(x) ==
  /\ At(x, "add")
  /\ ci' = [ci EXCEPT ![Conn(x)] = [Ref(@) EXCEPT !.group = "DEFAULT"]]
  /\ Goto(x, "packet")
  /\ UNCHANGED <<feci, nss, counts>>

PacketSeen(x, c) ==
  /\ At(x, "idle") /\ ci[c].refs > 0
  /\ ci' = [ci EXCEPT ![c] = Ref(@)]
  /\ ctx' = [ctx EXCEPT ![x] = [Idle EXCEPT !.pc = "packet", !.c = c]]
  /\ UNCHANGED <<feci, nss, counts>>

(* The timer is touched, then regeneration_required_check().  A connection *)
(* whose timer is gone is left alone.                                      *)
PacketStart(x) ==
  LET c == Conn(x)  k == Noticed(ci[c]) IN
  /\ At(x, "packet") /\ ci[c].group # "MAX"
  /\ IF k.regen_required > 0 /\ ~k.regen_in_progress
     THEN ci' = [ci EXCEPT ![c] = [k EXCEPT !.regen_in_progress = TRUE]] /\ Goto(x, "regen")
     ELSE ci' = [ci EXCEPT ![c] = k] /\ Goto(x, "accel")
  /\ UNCHANGED <<feci, nss, counts>>

PacketExpired(x) ==
  /\ At(x, "packet") /\ ci[Conn(x)].group = "MAX"
  /\ Return(x)
  /\ UNCHANGED <<feci, nss, counts>>

(* ecm_ipv4_connection_regenerate() ends in regeneration_completed() or,   *)
(* when an interface list cannot be constructed, in regeneration_failed()  *)
Regenerate(x) ==
  /\ At(x, "regen")
  /\ \E done \in {0, 1} :
       ci' = [ci EXCEPT ![Conn(x)].regen_in_progress = FALSE,
                        ![Conn(x)].regen_required = @ - done]
  /\ Goto(x, "accel")
  /\ UNCHANGED <<feci, nss, counts>>

(* The classifiers want the packet dropped or do not want acceleration *)
AccelUnwanted(x) ==
  /\ At(x, "accel")
  /\ Return(x)
  /\ UNCHANGED <<feci, nss, counts>>

MutPermittedAfterFailure(c) ==
  /\ Noticed(ci[c]).regen_required = 0
  /\ feci[c].accel_mode \notin {"ACCEL_PENDING", "ACCEL", "DECEL_PENDING"}
  /\ pending_accel_count + accelerated_count < AccelLimit
MutPermittedPastLimit(c) ==
  /\ Noticed(ci[c]).regen_required = 0
  /\ feci[c].accel_mode = "DECEL"
  /\ pending_accel_count + accelerated_count <= AccelLimit
AccelPermitted(c) ==
  /\ Noticed(ci[c]).regen_required = 0
  /\ feci[c].accel_mode = "DECEL"
  /\ pending_accel_count + accelerated_count < AccelLimit

(* ecm_nss_ipv4_accel_pending_set() *)
AccelPendingSet(x) ==
  LET c == Conn(x) IN
  /\ At(x, "accel") /\ AccelPermitted(c)
  /\ feci' = [feci EXCEPT ![c].accel_mode = "ACCEL_PENDING"]
  /\ pending_accel_count' = pending_accel_count + 1
  /\ ctx' = [ctx EXCEPT ![x].pc = "build", ![x].gen = ci[c].regen_occurances]
  /\ UNCHANGED <<ci, nss, pending_decel_count, accelerated_count>>

AccelDenied(x) ==
  LET c == Conn(x) IN
  /\ At(x, "accel") /\ ~AccelPermitted(c)
  /\ ci' = [ci EXCEPT ![c] = Deref(Noticed(@), 1)]
  /\ Leave(x)
  /\ UNCHANGED <<feci, nss, counts>>

(* The construction of the rule ends early: no memory, a bad rule, or a    *)
(* regeneration flagged since it began                                     *)
BuildAborted(x) ==
  LET c == Conn(x) IN
  /\ At(x, "build")
  /\ \E mode \in {"DECEL", "FAIL_RULE"} : feci' = [feci EXCEPT ![c] = PendingCleared(@, mode)]
  /\ pending_accel_count' = pending_accel_count - 1
  /\ Return(x)
  /\ UNCHANGED <<nss, pending_decel_count, accelerated_count>>

MutRuleBuiltNoRef(x) ==
  /\ At(x, "build") /\ ctx[x].gen = ci[Conn(x)].regen_occurances
  /\ Goto(x, "tx")
  /\ UNCHANGED <<feci, ci, nss, counts>>
RuleBuilt(x) ==
  LET c == Conn(x) IN
  /\ At(x, "build") /\ ctx[x].gen = ci[c].regen_occurances
  /\ ci' = [ci EXCEPT ![c] = Ref(@)]
  /\ Goto(x, "tx")
  /\ UNCHANGED <<feci, nss, counts>>

(* nss_ipv4_tx() takes the create message, or refuses it *)
CreateSent(x) ==
  LET c == Conn(x) IN
  /\ At(x, "tx")
  /\ cmds' = Append(cmds, [type |-> "create", c |-> c, gen |-> ctx[x].gen])
  /\ feci' = [feci EXCEPT ![c].driver_fail = 0]
  /\ Return(x)
  /\ UNCHANGED <<host, rule, counts>>

CreateRefused(x) ==
  LET c == Conn(x)
      fails == feci[c].driver_fail + 1
      mode == IF fails >= DriverFailLimit THEN "FAIL_DRIVER" ELSE "DECEL"
  IN
  /\ TxFails /\ At(x, "tx")
  /\ feci' = [feci EXCEPT ![c] = [PendingCleared(@, mode) EXCEPT !.driver_fail = fails]]
  /\ pending_accel_count' = pending_accel_count - 1
  /\ ci' = [ci EXCEPT ![c] = Deref(@, 2)]
  /\ Leave(x)
  /\ UNCHANGED <<nss, pending_decel_count, accelerated_count>>

-----------------------------------------------------------------------------
(* Deceleration and defunct *)

(* A classifier calls feci->decelerate(); make_defunct() is called for a   *)
(* connection of a device, host or node that went, or of a dead conntrack. *)
ForceDecel(x, c, op) ==
  /\ At(x, "idle") /\ ci[c].refs > 0
  /\ ci' = [ci EXCEPT ![c] = Ref(@)]
  /\ ctx' = [ctx EXCEPT ![x] = [Idle EXCEPT !.pc = "decel", !.c = c, !.op = op]]
  /\ UNCHANGED <<feci, nss, counts>>

(* ecm_db_timer_groups_check(): the expired entry leaves its group first *)
TimerExpires(c) ==
  /\ At(TimerCtx, "idle") /\ ci[c].group # "MAX"
  /\ ci' = [ci EXCEPT ![c].group = "MAX"]
  /\ ctx' = [ctx EXCEPT ![TimerCtx] = [Idle EXCEPT !.pc = "decel", !.c = c, !.op = "expiry"]]
  /\ UNCHANGED <<feci, nss, counts>>

(* ecm_nss_ported_ipv4_connection_decelerate() under feci->lock *)
Decelerate(x) ==
  LET c == Conn(x)  f == feci[c] IN
  /\ At(x, "decel") /\ ctx[x].op = "decel"
  /\ feci' = [feci EXCEPT ![c] = DecelNoted(f)]
  /\ IF DecelAllowed(f) THEN Goto(x, "send") /\ UNCHANGED ci ELSE Return(x)
  /\ UNCHANGED <<nss, counts>>

(* ecm_nss_ported_ipv4_connection_defunct_callback() under feci->lock *)
Defunct(x) ==
  LET c == Conn(x)  f == feci[c] IN
  /\ At(x, "decel") /\ ctx[x].op \in {"make", "expiry"}
  /\ feci' = [feci EXCEPT ![c] = Defuncted(f)]
  /\ IF ~DefunctRefused(f) /\ DecelAllowed(f)
     THEN Goto(x, "send")
     ELSE ctx' = [ctx EXCEPT ![x].pc = "last",
                             ![x].release = Failed(Defuncted(f).accel_mode)]
  /\ UNCHANGED <<ci, nss, counts>>

(* decelerate_msg_send() returns to the caller *)
SendReturns(x, ret) ==
  IF ctx[x].op = "decel" THEN Leave(x)
  ELSE ctx' = [ctx EXCEPT ![x].pc = "last", ![x].release = ret]
OwnAfterSend(x) == IF ctx[x].op = "decel" THEN Own(x) ELSE 0

MutSentUncounted(x) ==
  LET c == Conn(x) IN
  /\ At(x, "send")
  /\ pending_decel_count' = pending_decel_count + 1
  /\ accelerated_count' = accelerated_count - 1
  /\ cmds' = Append(cmds, [type |-> "destroy", c |-> c, gen |-> 0])
  /\ feci' = [feci EXCEPT ![c].driver_fail = 0]
  /\ ci' = [ci EXCEPT ![c] = Deref(Ref(@), OwnAfterSend(x))]
  /\ SendReturns(x, TRUE)
  /\ UNCHANGED <<host, rule, pending_accel_count>>
DestroySent(x) ==
  LET c == Conn(x) IN
  /\ At(x, "send")
  /\ pending_decel_count' = pending_decel_count + 1
  /\ cmds' = Append(cmds, [type |-> "destroy", c |-> c, gen |-> 0])
  /\ feci' = [feci EXCEPT ![c].driver_fail = 0]
  /\ ci' = [ci EXCEPT ![c] = Deref(Ref(@), OwnAfterSend(x))]
  /\ SendReturns(x, TRUE)
  /\ UNCHANGED <<host, rule, pending_accel_count, accelerated_count>>

(* The driver refused the message: destroy_failure_handle() gives up at    *)
(* the limit, and before it goes back to ACCEL, to be tried again          *)
DestroyGivenUp(x) ==
  LET c == Conn(x) IN
  /\ TxFails /\ At(x, "send") /\ feci[c].driver_fail + 1 >= DriverFailLimit
  /\ feci' = [feci EXCEPT ![c].driver_fail = DriverFailLimit, ![c].accel_mode = "FAIL_DRIVER"]
  /\ ci' = [ci EXCEPT ![c] = Deref(@, OwnAfterSend(x))]
  /\ SendReturns(x, TRUE)
  /\ UNCHANGED <<nss, counts>>

DestroyRefused(x) ==
  LET c == Conn(x) IN
  /\ TxFails /\ At(x, "send") /\ feci[c].driver_fail + 1 < DriverFailLimit
  /\ pending_decel_count' = pending_decel_count + 1
  /\ feci' = [feci EXCEPT ![c].driver_fail = @ + 1, ![c].accel_mode = "ACCEL",
                          ![c].is_defunct = FALSE, ![c].destroy_fail_handle_pending = TRUE]
  /\ ci' = [ci EXCEPT ![c] = Ref(@)]
  /\ Goto(x, "rearm")
  /\ UNCHANGED <<nss, pending_accel_count, accelerated_count>>

(* ecm_db_connection_defunct_timer_remove_and_set() to the retry group *)
Rearm(x) ==
  /\ At(x, "rearm")
  /\ ci' = [ci EXCEPT ![Conn(x)].group = "RETRY"]
  /\ Goto(x, "unpend")
  /\ UNCHANGED <<feci, nss, counts>>

MutFailureStaysCounted(x) ==
  LET c == Conn(x) IN
  /\ At(x, "unpend")
  /\ feci' = [feci EXCEPT ![c].destroy_fail_handle_pending = FALSE]
  /\ ci' = [ci EXCEPT ![c] = Deref(@, 1 + OwnAfterSend(x))]
  /\ SendReturns(x, Failed(feci[c].accel_mode))
  /\ UNCHANGED <<nss, counts>>
FailureHandled(x) ==
  LET c == Conn(x) IN
  /\ At(x, "unpend")
  /\ feci' = [feci EXCEPT ![c].destroy_fail_handle_pending = FALSE]
  /\ pending_decel_count' = pending_decel_count - 1
  /\ ci' = [ci EXCEPT ![c] = Deref(@, 1 + OwnAfterSend(x))]
  /\ SendReturns(x, Failed(feci[c].accel_mode))
  /\ UNCHANGED <<nss, pending_accel_count, accelerated_count>>

(* The end of make_defunct() and of the timer's callback: the timer's      *)
(* reference goes when the connection is no longer accelerated.            *)
(* make_defunct() takes the timer out, and leaves the reference to the     *)
(* timer's callback when the timer has expired.                            *)
MutTimerRefTwice(x) == IF ctx[x].release THEN 1 ELSE 0
TimerRef(x) ==
  IF ~ctx[x].release \/ (ctx[x].op = "make" /\ ci[Conn(x)].group = "MAX") THEN 0 ELSE 1
LastRef(x) ==
  LET c == Conn(x) IN
  /\ At(x, "last")
  /\ ci' = [ci EXCEPT ![c] = [Deref(@, Own(x) + TimerRef(x)) EXCEPT
               !.group = IF ctx[x].release /\ ctx[x].op = "make" THEN "MAX" ELSE ci[c].group]]
  /\ Leave(x)
  /\ UNCHANGED <<feci, nss, counts>>

-----------------------------------------------------------------------------
(* What the NSS driver calls back *)

IsNote(m) == m.type \in {"sync", "flush"}
RemoveAt(s, i) == SubSeq(s, 1, i - 1) \o SubSeq(s, i + 1, Len(s))

(* The NSS does not keep its responses and its sync messages in order with *)
(* each other ("NSS message OOO quirk"), only each kind among themselves.  *)
Deliverable(i) ==
  i \in DOMAIN host /\ \A j \in 1..(i - 1) : IsNote(host[j]) # IsNote(host[i])

(* The callbacks for create: the look-up by serial takes a reference, and  *)
(* the one held for the response is released                               *)
MutNackedPastLimit(x, i) ==
  LET c == host[i].c
      nacks == feci[c].ae_nack + 1
      mode == IF nacks > NackLimit THEN "FAIL_ACCEL_ENGINE" ELSE "DECEL"
  IN
  /\ At(x, "idle") /\ Deliverable(i) /\ host[i].type = "create" /\ ~host[i].ack
  /\ host' = RemoveAt(host, i)
  /\ feci' = [feci EXCEPT ![c] = [PendingCleared(@, mode) EXCEPT !.ae_nack = nacks]]
  /\ pending_accel_count' = pending_accel_count - 1
  /\ ci' = [ci EXCEPT ![c] = Deref(@, 1)]
  /\ UNCHANGED <<ctx, cmds, rule, pending_decel_count, accelerated_count>>
CreateNacked(x, i) ==
  LET c == host[i].c
      nacks == feci[c].ae_nack + 1
      mode == IF feci[c].is_defunct THEN "FAIL_DEFUNCT"
              ELSE IF nacks >= NackLimit THEN "FAIL_ACCEL_ENGINE" ELSE "DECEL"
  IN
  /\ At(x, "idle") /\ Deliverable(i) /\ host[i].type = "create" /\ ~host[i].ack
  /\ host' = RemoveAt(host, i)
  /\ feci' = [feci EXCEPT ![c] =
                [PendingCleared(@, mode) EXCEPT !.ae_nack = AtMost(nacks, NackLimit)]]
  /\ pending_accel_count' = pending_accel_count - 1
  /\ ci' = [ci EXCEPT ![c] = Deref(@, 1)]
  /\ UNCHANGED <<ctx, cmds, rule, pending_decel_count, accelerated_count>>

(* A flush came before the ACK: the acceleration has already ended *)
MutFlushedAgain(x, i) ==
  LET c == host[i].c IN
  /\ At(x, "idle") /\ Deliverable(i) /\ host[i].type = "create" /\ host[i].ack
  /\ feci[c].flush_happened
  /\ host' = RemoveAt(host, i)
  /\ feci' = [feci EXCEPT ![c] = PendingCleared(@, "DECEL")]
  /\ pending_accel_count' = pending_accel_count - 1
  /\ ci' = [ci EXCEPT ![c] = Deref(@, 1)]
  /\ UNCHANGED <<ctx, cmds, rule, pending_decel_count, accelerated_count>>
CreateFlushed(x, i) ==
  LET c == host[i].c IN
  /\ At(x, "idle") /\ Deliverable(i) /\ host[i].type = "create" /\ host[i].ack
  /\ feci[c].flush_happened
  /\ host' = RemoveAt(host, i)
  /\ feci' = [feci EXCEPT ![c] =
                [PendingCleared(@, "DECEL") EXCEPT
                   !.flush_happened = FALSE,
                   !.no_action_seen = AtMost(feci[c].no_action_seen + 1, NoActionLimit)]]
  /\ pending_accel_count' = pending_accel_count - 1
  /\ ci' = [ci EXCEPT ![c] = Deref(@, 1)]
  /\ UNCHANGED <<ctx, cmds, rule, pending_decel_count, accelerated_count>>

(* Accelerated.  A deceleration noted meanwhile is begun now, by way of    *)
(* make_defunct() when it came from there.                                 *)
MutAckedForgetsDecel(x, i) ==
  LET c == host[i].c IN
  /\ At(x, "idle") /\ Deliverable(i) /\ host[i].type = "create" /\ host[i].ack
  /\ ~feci[c].flush_happened
  /\ host' = RemoveAt(host, i)
  /\ pending_accel_count' = pending_accel_count - 1
  /\ accelerated_count' = accelerated_count + 1
  /\ feci' = [feci EXCEPT ![c] = PendingCleared(@, "ACCEL")]
  /\ ci' = [ci EXCEPT ![c] = Deref(@, 1)]
  /\ UNCHANGED <<ctx, cmds, rule, pending_decel_count>>
CreateAcked(x, i) ==
  LET c == host[i].c
      f == [PendingCleared(feci[c], "ACCEL") EXCEPT !.ae_nack = 0]
      op == IF f.is_defunct THEN "make" ELSE "decel"
  IN
  /\ At(x, "idle") /\ Deliverable(i) /\ host[i].type = "create" /\ host[i].ack
  /\ ~feci[c].flush_happened
  /\ host' = RemoveAt(host, i)
  /\ pending_accel_count' = pending_accel_count - 1
  /\ accelerated_count' = accelerated_count + 1
  /\ IF feci[c].decelerate_pending
     THEN /\ feci' = [feci EXCEPT ![c] = [f EXCEPT !.is_defunct = FALSE]]
          /\ ctx' = [ctx EXCEPT ![x] = [Idle EXCEPT !.pc = "decel", !.c = c, !.op = op]]
          /\ UNCHANGED ci
     ELSE /\ feci' = [feci EXCEPT ![c] =
                        [f EXCEPT !.no_action_seen = AtMost(f.no_action_seen + 1, NoActionLimit)]]
          /\ ci' = [ci EXCEPT ![c] = Deref(@, 1)]
          /\ UNCHANGED ctx
  /\ UNCHANGED <<cmds, rule, pending_decel_count>>

(* destroy_callback(): the accelerated count falls in a step of its own *)
MutDestroyNackIgnored(x, i) ==
  LET c == host[i].c IN
  /\ At(x, "idle") /\ Deliverable(i) /\ host[i].type = "destroy"
  /\ host' = RemoveAt(host, i)
  /\ pending_decel_count' = pending_decel_count - 1
  /\ IF host[i].ack
     THEN /\ feci' = [feci EXCEPT ![c].accel_mode = "DECEL"]
          /\ ctx' = [ctx EXCEPT ![x] = [Idle EXCEPT !.pc = "ended", !.c = c]]
          /\ UNCHANGED ci
     ELSE /\ ci' = [ci EXCEPT ![c] = Deref(@, 1)]
          /\ UNCHANGED <<feci, ctx>>
  /\ UNCHANGED <<cmds, rule, pending_accel_count, accelerated_count>>
DestroyAnswered(x, i) ==
  LET c == host[i].c
      mode == IF feci[c].is_defunct THEN "FAIL_DEFUNCT"
              ELSE IF host[i].ack THEN "DECEL" ELSE "FAIL_DECEL"
  IN
  /\ At(x, "idle") /\ Deliverable(i) /\ host[i].type = "destroy"
  /\ host' = RemoveAt(host, i)
  /\ pending_decel_count' = pending_decel_count - 1
  /\ IF feci[c].accel_mode = "DECEL_PENDING"
     THEN /\ feci' = [feci EXCEPT ![c].accel_mode = mode]
          /\ ctx' = [ctx EXCEPT ![x] = [Idle EXCEPT !.pc = "ended", !.c = c]]
          /\ UNCHANGED ci
     ELSE /\ ci' = [ci EXCEPT ![c] = Deref(@, 1)]
          /\ UNCHANGED <<feci, ctx>>
  /\ UNCHANGED <<cmds, rule, pending_accel_count, accelerated_count>>

(* A sync message: dropped when the connection or its timer is gone.       *)
(* Otherwise it touches the timer and tells of packets that were offloaded *)
SyncSeen(x, i) ==
  LET c == host[i].c IN
  /\ At(x, "idle") /\ Deliverable(i) /\ IsNote(host[i])
  /\ host' = RemoveAt(host, i)
  /\ IF ci[c].refs = 0 \/ ci[c].group = "MAX"
     THEN UNCHANGED <<feci, ci, ctx>>
     ELSE /\ ci' = [ci EXCEPT ![c] = Ref(@)]
          /\ \/ feci' = [feci EXCEPT ![c].no_action_seen = 0]
             \/ UNCHANGED feci
          /\ ctx' = [ctx EXCEPT ![x] =
                       [Idle EXCEPT !.pc = IF host[i].type = "flush" THEN "sync" ELSE "peek",
                                    !.c = c, !.op = "decel"]]
  /\ UNCHANGED <<cmds, rule, counts>>

(* ecm_nss_ported_ipv4_connection_accel_ceased() *)
MutCeasedWhilePending(x) ==
  /\ At(x, "sync")
  /\ IF feci[Conn(x)].accel_mode \in {"ACCEL_PENDING", "ACCEL"}
     THEN feci' = [feci EXCEPT ![Conn(x)].accel_mode = "DECEL"] /\ Goto(x, "ended")
     ELSE Goto(x, "peek") /\ UNCHANGED feci
  /\ UNCHANGED <<ci, nss, counts>>
MutCeasedWhileDecelerating(x) ==
  LET c == Conn(x) IN
  /\ At(x, "sync")
  /\ \/ /\ feci[c].accel_mode = "ACCEL_PENDING"
        /\ feci' = [feci EXCEPT ![c].flush_happened = TRUE] /\ Goto(x, "peek")
     \/ /\ feci[c].accel_mode \in {"ACCEL", "DECEL_PENDING"}
        /\ feci' = [feci EXCEPT ![c].accel_mode = "DECEL"] /\ Goto(x, "ended")
     \/ /\ feci[c].accel_mode \notin {"ACCEL_PENDING", "ACCEL", "DECEL_PENDING"}
        /\ Goto(x, "peek") /\ UNCHANGED feci
  /\ UNCHANGED <<ci, nss, counts>>
AccelCeased(x) ==
  LET c == Conn(x)
      mode == IF feci[c].no_action_seen >= NoActionLimit THEN "FAIL_NO_ACTION" ELSE "DECEL"
  IN
  /\ At(x, "sync")
  /\ \/ /\ feci[c].accel_mode = "ACCEL_PENDING"
        /\ feci' = [feci EXCEPT ![c].flush_happened = TRUE] /\ Goto(x, "peek")
     \/ /\ feci[c].accel_mode = "ACCEL"
        /\ feci' = [feci EXCEPT ![c].accel_mode = mode] /\ Goto(x, "ended")
     \/ /\ feci[c].accel_mode \notin {"ACCEL_PENDING", "ACCEL"}
        /\ Goto(x, "peek") /\ UNCHANGED feci
  /\ UNCHANGED <<ci, nss, counts>>

(* The end of acceleration is counted, in a sync message or a response *)
AccelEnded(x) ==
  /\ At(x, "ended")
  /\ accelerated_count' = accelerated_count - 1
  /\ IF ctx[x].op = "decel" THEN Goto(x, "peek") /\ UNCHANGED ci ELSE Return(x)
  /\ UNCHANGED <<feci, nss, pending_accel_count, pending_decel_count>>

(* The end of a sync message: a connection to regenerate is decelerated *)
RegenPeek(x) ==
  LET c == Conn(x)  k == Noticed(ci[c]) IN
  /\ At(x, "peek")
  /\ IF k.regen_required > 0
     THEN ci' = [ci EXCEPT ![c] = k] /\ Goto(x, "decel")
     ELSE ci' = [ci EXCEPT ![c] = Deref(k, 1)] /\ Leave(x)
  /\ UNCHANGED <<feci, nss, counts>>

-----------------------------------------------------------------------------
(* The environment: interfaces that change, and the NSS *)

Generation(c) == ci[c].regen_occurances + (IF ci[c].stale THEN 1 ELSE 0)

(* ecm_db_connection_regeneration_needed() *)
RegenNeeded(c) ==
  /\ ci[c].refs > 0 /\ Generation(c) < MaxRegen
  /\ ci' = [ci EXCEPT ![c].regen_occurances = @ + 1, ![c].regen_required = @ + 1]
  /\ UNCHANGED <<feci, ctx, nss, counts>>

(* ecm_db_regeneration_needed() bumps the generation all are compared with *)
AllRegenNeeded ==
  /\ \E c \in Conns : ci[c].refs > 0
  /\ \A c \in Conns : ci[c].refs > 0 => ci[c].stale \/ Generation(c) < MaxRegen
  /\ ci' = [c \in Conns |-> [ci[c] EXCEPT !.stale = ci[c].refs > 0]]
  /\ UNCHANGED <<feci, ctx, nss, counts>>

(* A create is refused at will, and when the NSS already has the rule *)
NssCreate(ack) ==
  LET m == Head(cmds) IN
  /\ cmds # <<>> /\ m.type = "create"
  /\ ack => rule[m.c] = NoRule
  /\ cmds' = Tail(cmds)
  /\ rule' = IF ack THEN [rule EXCEPT ![m.c] = m.gen] ELSE rule
  /\ host' = Append(host, [type |-> "create", c |-> m.c, ack |-> ack])
  /\ UNCHANGED <<feci, ci, ctx, counts>>

(* A destroy is refused when the rule is not there *)
NssDestroy ==
  LET m == Head(cmds) IN
  /\ cmds # <<>> /\ m.type = "destroy"
  /\ cmds' = Tail(cmds)
  /\ rule' = [rule EXCEPT ![m.c] = NoRule]
  /\ host' = Append(host, [type |-> "destroy", c |-> m.c, ack |-> rule[m.c] # NoRule])
  /\ UNCHANGED <<feci, ci, ctx, counts>>

Notes == {i \in DOMAIN host : IsNote(host[i])}

(* The periodic sync of a rule, and the end of one the NSS flushes or evicts *)
NssSync(c) ==
  /\ rule[c] # NoRule /\ Cardinality(Notes) < MaxNotes
  /\ host' = Append(host, [type |-> "sync", c |-> c, ack |-> FALSE])
  /\ UNCHANGED <<feci, ci, ctx, cmds, rule, counts>>

NssFlush(c) ==
  /\ rule[c] # NoRule /\ Cardinality(Notes) < MaxNotes
  /\ rule' = [rule EXCEPT ![c] = NoRule]
  /\ host' = Append(host, [type |-> "flush", c |-> c, ack |-> FALSE])
  /\ UNCHANGED <<feci, ci, ctx, cmds, counts>>

-----------------------------------------------------------------------------
Packet(x) ==
  \/ TimerSet(x) \/ PacketStart(x) \/ PacketExpired(x) \/ Regenerate(x)
  \/ AccelUnwanted(x) \/ AccelPendingSet(x) \/ AccelDenied(x)
  \/ BuildAborted(x) \/ RuleBuilt(x) \/ CreateSent(x) \/ CreateRefused(x)

Deceleration(x) ==
  \/ Decelerate(x) \/ Defunct(x) \/ DestroySent(x) \/ DestroyGivenUp(x)
  \/ DestroyRefused(x) \/ Rearm(x) \/ FailureHandled(x) \/ LastRef(x)

Sync(x) == AccelCeased(x) \/ AccelEnded(x) \/ RegenPeek(x)

Response(x, i) ==
  CreateNacked(x, i) \/ CreateFlushed(x, i) \/ CreateAcked(x, i) \/ DestroyAnswered(x, i)

Next ==
  \/ \E x \in PacketCtx, c \in Conns : ConnectionAdd(x, c) \/ PacketSeen(x, c)
  \/ \E x \in PacketCtx : Packet(x)
  \/ \E x \in UserCtx, c \in Conns, op \in {"decel", "make"} : ForceDecel(x, c, op)
  \/ \E c \in Conns : TimerExpires(c)
  \/ \E x \in Contexts : Deceleration(x)
  \/ \E x \in NssCtx, i \in DOMAIN host : Response(x, i) \/ SyncSeen(x, i)
  \/ \E x \in NssCtx : Sync(x)
  \/ \E c \in Conns : RegenNeeded(c) \/ NssSync(c) \/ NssFlush(c)
  \/ AllRegenNeeded \/ NssCreate(TRUE) \/ NssCreate(FALSE) \/ NssDestroy

Spec == Init /\ [][Next]_vars

-----------------------------------------------------------------------------
(* Properties *)

TypeOK ==
  /\ feci \in [Conns -> FeciType] /\ ci \in [Conns -> CiType]
  /\ ctx \in [Contexts -> [pc: Pcs, c: Conns, op: Ops, gen: 0..MaxRegen, release: BOOLEAN]]
  /\ cmds \in Seq(CmdType) /\ host \in Seq(HostType)
  /\ rule \in [Conns -> 0..NoRule]
  /\ pending_accel_count \in Int /\ pending_decel_count \in Int /\ accelerated_count \in Int

Busy(c, pcs) == {x \in Contexts : ctx[x].c = c /\ ctx[x].pc \in pcs}
InFlight(c, type) ==
  Cardinality({i \in DOMAIN cmds : cmds[i].c = c /\ cmds[i].type = type})
  + Cardinality({i \in DOMAIN host : host[i].c = c /\ host[i].type = type})
InMode(modes) == Cardinality({c \in Conns : feci[c].accel_mode \in modes})
OneIf(b) == IF b THEN 1 ELSE 0

(* Each connection in ACCEL_PENDING is owned by exactly one construction   *)
(* or create command, and no other has one: the mode the callbacks assert  *)
(* (ecm_nss_ported_ipv4.c:205, 247 and 1436, ecm_nss_ipv4.h:133) is what   *)
(* they find, and nobody else ever clears it.                              *)
AccelOwned ==
  \A c \in Conns : Cardinality(Busy(c, {"build", "tx"})) + InFlight(c, "create")
                      = OneIf(feci[c].accel_mode = "ACCEL_PENDING")

(* Each connection in DECEL_PENDING is owned by exactly one destroy that   *)
(* is being sent or answered, so a response to destroy always finds        *)
(* DECEL_PENDING: no flush, retry or defunct moves the mode under it.      *)
DecelOwned ==
  \A c \in Conns : Cardinality(Busy(c, {"send"})) + InFlight(c, "destroy")
                      = OneIf(feci[c].accel_mode = "DECEL_PENDING")

(* The three global counters, which gate acceleration and are asserted     *)
(* not to go below zero, say what they are kept for.  A connection given   *)
(* up in FAIL_DRIVER while it was accelerated stays counted.               *)
CountsExact ==
  /\ pending_accel_count = InMode({"ACCEL_PENDING"})
  /\ pending_decel_count = Cardinality({x \in Contexts : ctx[x].pc \in {"rearm", "unpend"}})
                            + Cardinality({i \in DOMAIN cmds : cmds[i].type = "destroy"})
                            + Cardinality({i \in DOMAIN host : host[i].type = "destroy"})
  /\ accelerated_count - Cardinality({x \in Contexts : ctx[x].pc = "ended"})
       - InMode({"ACCEL", "DECEL_PENDING"}) \in 0..InMode({"FAIL_DRIVER"})

Holders(c) ==
  Cardinality(Busy(c, Pcs \ {"idle"}) \ {TimerCtx})
  + Cardinality(Busy(c, {"tx", "rearm", "unpend"}))
  + InFlight(c, "create") + InFlight(c, "destroy")
  + OneIf(ci[c].group # "MAX" \/ Busy(c, Pcs \ {"idle"}) \cap {TimerCtx} # {})

(* Whatever uses a connection holds a reference to it - the contexts, the  *)
(* commands under way, the timer until its callback returns - so that a    *)
(* response always finds its connection by serial; and nothing else does,  *)
(* except that an expired timer's reference may be left behind.            *)
RefsAccounted ==
  \A c \in Conns : \/ ci[c].refs = Holders(c)
                   \/ ci[c].refs = Holders(c) + 1 /\ ci[c].group = "MAX"

(* A connection leaves the database with its timer detached                *)
(* (ecm_db_connection.c:1353-1356), or the timer would later call back     *)
(* into freed memory.                                                      *)
TimerDetached == \A c \in Conns : ci[c].refs <= 0 => ci[c].group = "MAX"

(* While the driver takes every message, the NSS has a rule only for a     *)
(* connection that ECM still has to decelerate, even when a flush of the   *)
(* rule overtakes the ACK of its create.                                   *)
RuleTracked ==
  \A c \in Conns :
    rule[c] # NoRule => feci[c].accel_mode \in {"ACCEL_PENDING", "ACCEL", "DECEL_PENDING"}

(* accel_ceased(): "we record a flush has already happened and will action *)
(* it when we finally get that ACK/NACK": no record outlives its command,  *)
(* to cancel an acceleration that the NSS still has.                       *)
FlushConsumed ==
  \A c \in Conns : feci[c].flush_happened => feci[c].accel_mode = "ACCEL_PENDING"

(* The NSS never has more rules than the fixed limit allows. *)
RulesLimited == Cardinality({c \in Conns : rule[c] # NoRule}) <= AccelLimit

(* A failed connection stays failed: no late response, retry or flush      *)
(* brings it back, although each of them writes accel_mode.                *)
FailIsFinal ==
  [][\A c \in Conns : ci[c].added /\ Failed(feci[c].accel_mode)
                         => Failed(feci'[c].accel_mode)]_vars

-----------------------------------------------------------------------------
(* What acceleration promises to the rest of ECM *)

Granted(c) == \E i \in DOMAIN host : host[i].c = c /\ host[i].type = "create" /\ host[i].ack
PhaseOf(c) ==
  LET mode == feci[c].accel_mode IN
  CASE mode = "DECEL" -> "off"
    [] mode = "ACCEL_PENDING" -> IF Granted(c) THEN "granted" ELSE "asked"
    [] mode = "ACCEL" -> "on"
    [] mode = "DECEL_PENDING" -> "ending"
    [] OTHER -> "failed"

Engine == INSTANCE Offload WITH
  Limit <- AccelLimit,
  phase <- [c \in Conns |-> PhaseOf(c)],
  ruled <- {c \in Conns : rule[c] # NoRule},
  used <- pending_accel_count + accelerated_count

(* Whatever overtakes, retries or refuses: a connection is in ACCEL only    *)
(* after the NSS took the rule of this very request, leaves ACCEL and       *)
(* DECEL_PENDING for DECEL only when the NSS has no rule any more, and its  *)
(* slot in the global counters is freed after that, and once.               *)
ImplementsOffload == Engine!Spec

-----------------------------------------------------------------------------
(* Contexts run on, the NSS answers every command, and its driver calls    *)
(* back for every message.  A response is not kept waiting by the sync     *)
(* messages that the same context handles, hence strong fairness.          *)
Fairness ==
  /\ \A x \in PacketCtx : WF_vars(Packet(x))
  /\ \A x \in Contexts : WF_vars(Deceleration(x))
  /\ \A x \in NssCtx : WF_vars(Sync(x))
  /\ SF_vars(\E x \in NssCtx, i \in DOMAIN host : Response(x, i))
  /\ WF_vars(NssCreate(TRUE) \/ NssCreate(FALSE) \/ NssDestroy)

FairSpec == Spec /\ Fairness

(* A connection does not stay between two modes: whoever owns ACCEL_PENDING*)
(* or DECEL_PENDING brings it to an end.                                   *)
PendingEnds ==
  \A c \in Conns : (feci[c].accel_mode \in {"ACCEL_PENDING", "DECEL_PENDING"})
                      ~> (feci[c].accel_mode \notin {"ACCEL_PENDING", "DECEL_PENDING"})

(* "This flag ... will be actioned when the acceleration command is        *)
(* complete": a deceleration asked for while a create was under way leaves *)
(* the connection not accelerated.                                         *)
DecelActioned ==
  \A c \in Conns : feci[c].decelerate_pending
                      ~> (feci[c].accel_mode \notin {"ACCEL_PENDING", "ACCEL"})

-----------------------------------------------------------------------------
(* What the comments of the code say, and the code does not do *)

(* ecm_db_connection_defunct_callback(): a defunct that fails "will be     *)
(* re-tried later with the ecm_db_connection_make_defunct function", so    *)
(* a defunct connection goes, however often a context has to ask.          *)
DefunctRetried ==
  \A c \in Conns : (ctx[TimerCtx].pc = "decel" /\ ctx[TimerCtx].c = c) ~> (ci[c].refs = 0)

RetrySpec ==
  /\ FairSpec
  /\ \A c \in Conns : WF_vars(TimerExpires(c))
  /\ \A c \in Conns : SF_vars(\E x \in UserCtx : ForceDecel(x, c, "make"))

(* accelerate(): "if a regen is flagged immediately after this check       *)
(* passes, the connection will be decelerated and refreshed very quickly": *)
(* a rule built before a regeneration does not stay in the NSS.            *)
StaleRuleEnds ==
  \A c \in Conns : (rule[c] < Generation(c)) ~> (rule[c] >= Generation(c))

SyncSpec == FairSpec /\ \A c \in Conns : WF_vars(NssSync(c))
  /\ WF_vars(\E x \in NssCtx, i \in DOMAIN host : SyncSeen(x, i))
=============================================================================
