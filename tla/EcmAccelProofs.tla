--------------------------- MODULE EcmAccelProofs ---------------------------
(***************************************************************************)
(* What EcmAccel guarantees for any number of connections and contexts and *)
(* any limits: who owns a mode that waits for the NSS, that flushes are    *)
(* consumed by the create they overtook, that a failure is final and that  *)
(* a rule in the NSS belongs to a connection that knows of it.             *)
(***************************************************************************)
EXTENDS EcmAccel, Counting

-----------------------------------------------------------------------------
(* What is counted of a connection: contexts, commands and messages *)

CmdOf(c, type) == {m \in CmdType : m.c = c /\ m.type = type}
MsgOf(c, type) == {m \in HostType : m.c = c /\ m.type = type}
AckOf(c, type) == {m \in MsgOf(c, type) : m.ack}

Building(c) == Cardinality(Busy(c, {"build", "tx"}))
Sending(c) == Cardinality(Busy(c, {"send"}))
Syncing(c) == Cardinality(Busy(c, {"sync"}))
Regenerating(c) == Cardinality(Busy(c, {"regen"}))
CreateCmds(c) == In(cmds, CmdOf(c, "create"))
DestroyCmds(c) == In(cmds, CmdOf(c, "destroy"))
Creates(c) == In(host, MsgOf(c, "create"))
Destroys(c) == In(host, MsgOf(c, "destroy"))
AckedCreates(c) == In(host, AckOf(c, "create"))
AckedDestroys(c) == In(host, AckOf(c, "destroy"))
Flushes(c) == In(host, MsgOf(c, "flush"))

Mode(c) == feci[c].accel_mode

-----------------------------------------------------------------------------
(* The inductive invariant *)

(* ACCEL_PENDING and DECEL_PENDING have one owner, other modes have none. *)
PendingOwned(c) ==
  /\ Building(c) + CreateCmds(c) + Creates(c) = OneIf(Mode(c) = "ACCEL_PENDING")
  /\ Sending(c) + DestroyCmds(c) + Destroys(c) = OneIf(Mode(c) = "DECEL_PENDING")

(* A rule, its flush on the way, the record of the flush and the answer to *)
(* the destroy of the rule stand for one acceleration: ECM still counts it,*)
(* its ACK is on the way, or the connection has failed for good.           *)
FlushBalance(c) ==
  /\ Flushes(c) + Syncing(c) + OneIf(feci[c].flush_happened) + OneIf(rule[c] # NoRule)
       + AckedDestroys(c)
     <= OneIf(Mode(c) \in {"ACCEL", "DECEL_PENDING"}) + AckedCreates(c) + OneIf(Failed(Mode(c)))
  /\ Destroys(c) > 0 => rule[c] = NoRule
  /\ feci[c].flush_happened => Mode(c) = "ACCEL_PENDING"

(* Before its first packet nothing has touched a connection. *)
Untouched(c) ==
  ~ci[c].added => Mode(c) = "DECEL" /\ ci[c].refs = 0 /\ ci[c].group = "MAX"

(* The counters of a connection stay within their bounds. *)
RegenOK(k) ==
  /\ k.regen_required <= k.regen_occurances
  /\ k.regen_occurances + OneIf(k.stale) <= MaxRegen
  /\ k.regen_in_progress => k.regen_required > 0
DriverOK(f) == f.driver_fail = DriverFailLimit => f.accel_mode = "FAIL_DRIVER"

(* A context knows why it works on a connection. *)
ReasonOK(x, e) ==
  /\ e.pc = "idle" <=> e = Idle
  /\ e.pc # "idle" => (e.op = "expiry" <=> x = TimerCtx)
  /\ e.pc \in {"sync", "peek"} => e.op = "decel"
  /\ x = TimerCtx => e.pc \in {"idle", "decel", "send", "rearm", "unpend", "last"}
  /\ e.pc \in {"send", "rearm", "unpend"} => e.op # "packet"
  /\ e.pc = "last" => e.op \in {"make", "expiry"}

(* Only connections that were added are worked on, and one context at most *)
(* regenerates a connection.                                               *)
CtxInv(x) == ReasonOK(x, ctx[x]) /\ (~At(x, "idle") => ci[Conn(x)].added)
Bounded(c) ==
  /\ RegenOK(ci[c]) /\ DriverOK(feci[c])
  /\ Regenerating(c) = OneIf(ci[c].regen_in_progress)

ConnInv(c) == PendingOwned(c) /\ FlushBalance(c) /\ Untouched(c) /\ Bounded(c)
IndInv == TypeOK /\ (\A x \in Contexts : CtxInv(x)) /\ (\A c \in Conns : ConnInv(c))

-----------------------------------------------------------------------------
(* How the numbers change *)

(* The types of the parts of the state *)
CtxType == [pc: Pcs, c: Conns, op: Ops, gen: 0..MaxRegen, release: BOOLEAN]

(* A context that does nothing. *)
LEMMA IdleType == Idle \in CtxType /\ Idle.pc = "idle" /\ Idle.op = "packet"
<1>1. (CHOOSE c \in Conns : TRUE) \in Conns
  BY FiniteAssumption
<1> QED  BY <1>1, BoundAssumption DEF Idle, CtxType, Pcs, Ops

(* A context that starts to work on a connection, and one that moves on *)
LEMMA BeginsType ==
  ASSUME NEW c \in Conns, NEW pc \in Pcs \ {"idle"}
  PROVE  LET e == [Idle EXCEPT !.pc = pc, !.c = c]
         IN  e \in CtxType /\ e.pc = pc /\ e.c = c /\ e.op = "packet" /\ e # Idle
  BY IdleType DEF CtxType

(* A context that begins a call on c. *)
LEMMA BeginsAs ==
  ASSUME NEW c \in Conns, NEW pc \in Pcs \ {"idle"}, NEW op \in Ops
  PROVE  LET e == [Idle EXCEPT !.pc = pc, !.c = c, !.op = op]
         IN  e \in CtxType /\ e.pc = pc /\ e.c = c /\ e.op = op /\ e # Idle
  BY IdleType DEF CtxType

(* A context that goes on to another point of its call. *)
LEMMA MovesType ==
  ASSUME NEW e \in CtxType, NEW pc \in Pcs \ {"idle"}
  PROVE  LET d == [e EXCEPT !.pc = pc]
         IN  d \in CtxType /\ d.pc = pc /\ d.c = e.c /\ d.op = e.op /\ d # Idle
  BY IdleType DEF CtxType

(* A step of x changes the numbers of contexts by what x does. *)
LEMMA CtxStep ==
  ASSUME TypeOK, NEW x \in Contexts, NEW c \in Conns, NEW P,
         \A y \in Contexts \ {x} : ctx'[y] = ctx[y]
  PROVE  /\ Cardinality(Busy(c, P)) \in Nat /\ Cardinality(Busy(c, P))' \in Nat
         /\ Cardinality(Busy(c, P))' = Cardinality(Busy(c, P))
              - OneIf(ctx[x].c = c /\ ctx[x].pc \in P) + OneIf(ctx'[x].c = c /\ ctx'[x].pc \in P)
<1> DEFINE T == Busy(c, P)
           U == Busy(c, P)'
<1>1. T \subseteq Contexts /\ U \ {x} = T \ {x}
  BY DEF Busy
<1>2. IsFiniteSet(T)
  BY <1>1, FiniteAssumption, FS_Subset
<1>3. /\ x \in T <=> ctx[x].c = c /\ ctx[x].pc \in P
      /\ x \in U <=> ctx'[x].c = c /\ ctx'[x].pc \in P
  BY DEF Busy
<1> HIDE DEF T, U
<1>4. /\ Cardinality(T) \in Nat /\ Cardinality(U) \in Nat
      /\ Cardinality(U) = Cardinality(T) - (IF x \in T THEN 1 ELSE 0)
                                         + (IF x \in U THEN 1 ELSE 0)
  BY <1>1, <1>2, SizeChange
<1>5. Cardinality(U) = Cardinality(T)
        - OneIf(ctx[x].c = c /\ ctx[x].pc \in P) + OneIf(ctx'[x].c = c /\ ctx'[x].pc \in P)
  BY <1>3, <1>4 DEF OneIf
<1> QED  BY <1>4, <1>5 DEF T, U

(* The numbers of contexts that the invariant counts *)
CtxDelta(x, c, P) ==
  OneIf(ctx'[x].c = c /\ ctx'[x].pc \in P) - OneIf(ctx[x].c = c /\ ctx[x].pc \in P)

(* How a step of one context changes the numbers of those at work on c. *)
LEMMA CtxCounts ==
  ASSUME TypeOK, NEW x \in Contexts, NEW c \in Conns,
         \A y \in Contexts \ {x} : ctx'[y] = ctx[y]
  PROVE  /\ Building(c)' = Building(c) + CtxDelta(x, c, {"build", "tx"})
         /\ Sending(c)' = Sending(c) + CtxDelta(x, c, {"send"})
         /\ Syncing(c)' = Syncing(c) + CtxDelta(x, c, {"sync"})
         /\ Regenerating(c)' = Regenerating(c) + CtxDelta(x, c, {"regen"})
<1>1. \A b : OneIf(b) \in Int
  BY DEF OneIf
<1>2. Building(c)' = Building(c) + CtxDelta(x, c, {"build", "tx"})
  BY <1>1, CtxStep DEF Building, CtxDelta
<1>3. Sending(c)' = Sending(c) + CtxDelta(x, c, {"send"})
  BY <1>1, CtxStep DEF Sending, CtxDelta
<1>4. Syncing(c)' = Syncing(c) + CtxDelta(x, c, {"sync"})
  BY <1>1, CtxStep DEF Syncing, CtxDelta
<1>5. Regenerating(c)' = Regenerating(c) + CtxDelta(x, c, {"regen"})
  BY <1>1, CtxStep DEF Regenerating, CtxDelta
<1> QED  BY <1>2, <1>3, <1>4, <1>5

(* All of them are natural numbers. *)
LEMMA CountTypes ==
  ASSUME TypeOK, NEW c \in Conns
  PROVE  /\ Building(c) \in Nat /\ Sending(c) \in Nat /\ Syncing(c) \in Nat
         /\ Regenerating(c) \in Nat /\ CreateCmds(c) \in Nat /\ DestroyCmds(c) \in Nat
         /\ Creates(c) \in Nat /\ Destroys(c) \in Nat /\ Flushes(c) \in Nat
         /\ AckedCreates(c) \in Nat /\ AckedDestroys(c) \in Nat
<1>1. \A P : Busy(c, P) \subseteq Contexts
  BY DEF Busy
<1>2. \A P : Cardinality(Busy(c, P)) \in Nat
  BY <1>1, FiniteAssumption, FS_Subset, FS_CardinalityType
<1>3. cmds \in Seq(CmdType) /\ host \in Seq(HostType)
  BY DEF TypeOK
<1> QED
  BY <1>2, <1>3, InType DEF Building, Sending, Syncing, Regenerating, CreateCmds, DestroyCmds,
     Creates, Destroys, Flushes, AckedCreates, AckedDestroys

(* An acknowledged response is a response. *)
LEMMA AckedAtMost ==
  ASSUME TypeOK, NEW c \in Conns
  PROVE  AckedCreates(c) <= Creates(c) /\ AckedDestroys(c) <= Destroys(c)
<1>1. host \in Seq(HostType)
  BY DEF TypeOK
<1>2. ASSUME NEW t  PROVE In(host, AckOf(c, t)) <= In(host, MsgOf(c, t))
  <2> DEFINE T == {i \in DOMAIN host : host[i] \in AckOf(c, t)}
             U == {i \in DOMAIN host : host[i] \in MsgOf(c, t)}
  <2>1. T \in SUBSET U
    BY DEF AckOf
  <2>2. IsFiniteSet(U)
    BY <1>1, InType
  <2> HIDE DEF T, U
  <2>3. Cardinality(T) <= Cardinality(U)
    BY <2>1, <2>2, FS_Subset
  <2> QED  BY <2>3 DEF T, U, In
<1> QED  BY <1>2 DEF AckedCreates, Creates, AckedDestroys, Destroys


-----------------------------------------------------------------------------
(* Steps of a context on a connection *)

(* Only x changes, which works on c before and after it, and what is kept   *)
(* for c.                                                                  *)
LocalTo(x, c) ==
  /\ \A y \in Contexts \ {x} : ctx'[y] = ctx[y]
  /\ \/ ctx'[x] = ctx[x]
     \/ (At(x, "idle") \/ Conn(x) = c) /\ (ctx'[x].pc = "idle" \/ ctx'[x].c = c)
  /\ \A d \in Conns \ {c} : feci'[d] = feci[d] /\ ci'[d] = ci[d] /\ rule'[d] = rule[d]

MsgsKept(c) ==
  /\ CreateCmds(c)' = CreateCmds(c) /\ DestroyCmds(c)' = DestroyCmds(c)
  /\ Creates(c)' = Creates(c) /\ Destroys(c)' = Destroys(c) /\ Flushes(c)' = Flushes(c)
  /\ AckedCreates(c)' = AckedCreates(c) /\ AckedDestroys(c)' = AckedDestroys(c)

(* No message is sent, taken or answered. *)
LEMMA NoMessages ==
  ASSUME UNCHANGED <<cmds, host>>, NEW c \in Conns
  PROVE  MsgsKept(c)
  BY DEF MsgsKept, CreateCmds, DestroyCmds, Creates, Destroys, Flushes, AckedCreates,
         AckedDestroys

(* The number of contexts that work on c changes by the step of x only. *)
LEMMA OwnCounts ==
  ASSUME TypeOK, NEW x \in Contexts, NEW c \in Conns, LocalTo(x, c)
  PROVE  /\ Building(c)' = Building(c) - OneIf(ctx[x].pc \in {"build", "tx"})
                                       + OneIf(ctx'[x].pc \in {"build", "tx"})
         /\ Sending(c)' = Sending(c) - OneIf(ctx[x].pc = "send") + OneIf(ctx'[x].pc = "send")
         /\ Syncing(c)' = Syncing(c) - OneIf(ctx[x].pc = "sync") + OneIf(ctx'[x].pc = "sync")
         /\ Regenerating(c)' = Regenerating(c) - OneIf(ctx[x].pc = "regen")
                                               + OneIf(ctx'[x].pc = "regen")
<1>1. /\ Building(c)' = Building(c) + CtxDelta(x, c, {"build", "tx"})
      /\ Sending(c)' = Sending(c) + CtxDelta(x, c, {"send"})
      /\ Syncing(c)' = Syncing(c) + CtxDelta(x, c, {"sync"})
      /\ Regenerating(c)' = Regenerating(c) + CtxDelta(x, c, {"regen"})
  BY CtxCounts DEF LocalTo
<1>2. /\ Building(c) \in Nat /\ Sending(c) \in Nat /\ Syncing(c) \in Nat
      /\ Regenerating(c) \in Nat
  BY CountTypes
<1> QED  BY <1>1, <1>2 DEF CtxDelta, OneIf, LocalTo, At, Conn

(* What x does not work on is as it was. *)
LEMMA OtherConns ==
  ASSUME IndInv, NEW x \in Contexts, NEW c \in Conns, LocalTo(x, c),
         NEW d \in Conns \ {c}, MsgsKept(d)
  PROVE  ConnInv(d)'
<1>1. TypeOK /\ ConnInv(d)
  BY DEF IndInv
<1>2. feci'[d] = feci[d] /\ ci'[d] = ci[d] /\ rule'[d] = rule[d]
  BY DEF LocalTo
<1>3. /\ Building(d)' = Building(d) + CtxDelta(x, d, {"build", "tx"})
      /\ Sending(d)' = Sending(d) + CtxDelta(x, d, {"send"})
      /\ Syncing(d)' = Syncing(d) + CtxDelta(x, d, {"sync"})
      /\ Regenerating(d)' = Regenerating(d) + CtxDelta(x, d, {"regen"})
  BY <1>1, CtxCounts DEF LocalTo
<1>4. /\ Building(d) \in Nat /\ Sending(d) \in Nat /\ Syncing(d) \in Nat
      /\ Regenerating(d) \in Nat
  BY <1>1, CountTypes
<1>5. /\ Building(d)' = Building(d) /\ Sending(d)' = Sending(d) /\ Syncing(d)' = Syncing(d)
      /\ Regenerating(d)' = Regenerating(d)
  BY <1>3, <1>4 DEF CtxDelta, OneIf, LocalTo, At, Conn
<1>6. PendingOwned(d)'
  BY <1>1, <1>2, <1>5 DEF ConnInv, PendingOwned, MsgsKept, Mode
<1>7. FlushBalance(d)'
  BY <1>1, <1>2, <1>5 DEF ConnInv, FlushBalance, MsgsKept, Mode
<1>8. Untouched(d)' /\ Bounded(d)'
  BY <1>1, <1>2, <1>5 DEF ConnInv, Untouched, Bounded, Mode, RegenOK, DriverOK
<1> QED  BY <1>6, <1>7, <1>8 DEF ConnInv

(* The invariant of the contexts is that of x, if no connection is removed. *)
LEMMA OtherContexts ==
  ASSUME IndInv, NEW x \in Contexts, \A y \in Contexts \ {x} : ctx'[y] = ctx[y],
         \A d \in Conns : ci[d].added => ci'[d].added, CtxInv(x)'
  PROVE  \A y \in Contexts : CtxInv(y)'
<1> SUFFICES ASSUME NEW y \in Contexts, y # x  PROVE CtxInv(y)'
  OBVIOUS
<1>1. CtxInv(y) /\ ctx'[y] = ctx[y] /\ ctx[y].c \in Conns
  BY DEF IndInv, TypeOK
<1> QED  BY <1>1 DEF CtxInv, ReasonOK, At, Conn

-----------------------------------------------------------------------------
(* The step of a context on a connection that sends and receives nothing *)

(* A context of x's kind is not the timer's. *)
LEMMA NotTimer ==
  /\ \A x \in PacketCtx \cup NssCtx \cup UserCtx : x \in Contexts /\ x # TimerCtx
  /\ TimerCtx \in Contexts
  BY ContextAssumption DEF Contexts

(* What is known of x and of the connections *)
LEMMA Known ==
  ASSUME IndInv, NEW x \in Contexts
  PROVE  /\ TypeOK /\ CtxInv(x) /\ ctx[x] \in CtxType /\ Conn(x) \in Conns
         /\ \A c \in Conns : ConnInv(c) /\ feci[c] \in FeciType /\ ci[c] \in CiType
  BY DEF IndInv, TypeOK, CtxType, Conn

(* What x and the instances of c may become when c gets p more responses   *)
(* and commands of create, q of destroy and r more flushes, acknowledged   *)
(* destroys or rules than acknowledged creates: modes and owners change    *)
(* together.                                                               *)
Agrees(x, c, e, f, k, p, q, r) ==
  /\ ReasonOK(x, e) /\ RegenOK(k) /\ DriverOK(f)
  /\ k.added \/ (k = ci[c] /\ f.accel_mode = Mode(c) /\ e = ctx[x])
  /\ f.flush_happened => f.accel_mode = "ACCEL_PENDING"
  /\ OneIf(f.accel_mode = "ACCEL_PENDING") - OneIf(Mode(c) = "ACCEL_PENDING")
       = p + OneIf(e.pc \in {"build", "tx"}) - OneIf(ctx[x].pc \in {"build", "tx"})
  /\ OneIf(f.accel_mode = "DECEL_PENDING") - OneIf(Mode(c) = "DECEL_PENDING")
       = q + OneIf(e.pc = "send") - OneIf(ctx[x].pc = "send")
  /\ OneIf(k.regen_in_progress) - OneIf(ci[c].regen_in_progress)
       = OneIf(e.pc = "regen") - OneIf(ctx[x].pc = "regen")
  /\ r + OneIf(e.pc = "sync") + OneIf(f.flush_happened)
       - OneIf(ctx[x].pc = "sync") - OneIf(feci[c].flush_happened)
     <= OneIf(f.accel_mode \in {"ACCEL", "DECEL_PENDING"}) + OneIf(Failed(f.accel_mode))
         - OneIf(Mode(c) \in {"ACCEL", "DECEL_PENDING"}) - OneIf(Failed(Mode(c)))

(* How many more those are after a step *)
MoreCreates(c) == CreateCmds(c)' + Creates(c)' - CreateCmds(c) - Creates(c)
MoreDestroys(c) == DestroyCmds(c)' + Destroys(c)' - DestroyCmds(c) - Destroys(c)
MoreEnds(c) ==
  Flushes(c)' + AckedDestroys(c)' + OneIf(rule'[c] # NoRule) - AckedCreates(c)'
  - Flushes(c) - AckedDestroys(c) - OneIf(rule[c] # NoRule) + AckedCreates(c)

(* A step that agrees keeps the invariant. *)
LEMMA LocalStep ==
  ASSUME IndInv, NEW x \in Contexts, NEW c \in Conns,
         TypeOK', LocalTo(x, c), \A d \in Conns \ {c} : MsgsKept(d),
         Destroys(c)' > 0 => rule'[c] = NoRule,
         Agrees(x, c, ctx'[x], feci'[c], ci'[c], MoreCreates(c), MoreDestroys(c), MoreEnds(c))
  PROVE  IndInv'
<1>1. /\ TypeOK /\ CtxInv(x) /\ ctx[x] \in CtxType /\ ConnInv(c)
      /\ feci[c] \in FeciType /\ ci[c] \in CiType
  BY Known
<1>2. ctx'[x] \in CtxType /\ feci'[c] \in FeciType /\ ci'[c] \in CiType
  BY DEF TypeOK, CtxType
<1>3. \A y \in Contexts : CtxInv(y)'
  <2>1. \A d \in Conns : ci[d].added => ci'[d].added
    BY DEF LocalTo, Agrees
  <2>2. ctx[x].c \in Conns /\ ctx'[x].c \in Conns
    BY <1>1, <1>2 DEF CtxType
  <2>3. CtxInv(x)'
    BY <1>1, <2>1, <2>2 DEF CtxInv, At, Conn, LocalTo, Agrees
  <2> QED  BY <2>1, <2>3, OtherContexts DEF LocalTo
<1>4. ConnInv(c)'
  <2>1. /\ Building(c)' = Building(c) - OneIf(ctx[x].pc \in {"build", "tx"})
                                      + OneIf(ctx'[x].pc \in {"build", "tx"})
        /\ Sending(c)' = Sending(c) - OneIf(ctx[x].pc = "send") + OneIf(ctx'[x].pc = "send")
        /\ Syncing(c)' = Syncing(c) - OneIf(ctx[x].pc = "sync") + OneIf(ctx'[x].pc = "sync")
        /\ Regenerating(c)' = Regenerating(c) - OneIf(ctx[x].pc = "regen")
                                              + OneIf(ctx'[x].pc = "regen")
    BY <1>1, OwnCounts
  <2>2. /\ Building(c) \in Int /\ Sending(c) \in Int /\ Syncing(c) \in Int
        /\ Regenerating(c) \in Int
        /\ CreateCmds(c) \in Int /\ DestroyCmds(c) \in Int
        /\ Creates(c) \in Int /\ Destroys(c) \in Int /\ Flushes(c) \in Int
        /\ AckedCreates(c) \in Int /\ AckedDestroys(c) \in Int
    BY <1>1, CountTypes
  <2>3. /\ CreateCmds(c)' \in Int /\ DestroyCmds(c)' \in Int
        /\ Creates(c)' \in Int /\ Destroys(c)' \in Int /\ Flushes(c)' \in Int
        /\ AckedCreates(c)' \in Int /\ AckedDestroys(c)' \in Int
    <3>1. cmds' \in Seq(CmdType) /\ host' \in Seq(HostType)
      BY DEF TypeOK
    <3>2. ASSUME NEW M  PROVE In(cmds', M) \in Nat /\ In(host', M) \in Nat
      BY <3>1, InType
    <3> QED
      BY <3>2 DEF CreateCmds, DestroyCmds, Creates, Destroys, Flushes, AckedCreates,
         AckedDestroys, CmdOf, MsgOf, AckOf
  <2>4. \A b : OneIf(b) \in Int
    BY DEF OneIf
  <2>5. PendingOwned(c)'
    <3>1. PendingOwned(c)
      BY <1>1 DEF ConnInv
    <3>2. /\ OneIf(Mode(c)' = "ACCEL_PENDING") - OneIf(Mode(c) = "ACCEL_PENDING")
             = CreateCmds(c)' + Creates(c)' - CreateCmds(c) - Creates(c)
               + OneIf(ctx'[x].pc \in {"build", "tx"}) - OneIf(ctx[x].pc \in {"build", "tx"})
          /\ OneIf(Mode(c)' = "DECEL_PENDING") - OneIf(Mode(c) = "DECEL_PENDING")
             = DestroyCmds(c)' + Destroys(c)' - DestroyCmds(c) - Destroys(c)
               + OneIf(ctx'[x].pc = "send") - OneIf(ctx[x].pc = "send")
      BY DEF Agrees, Mode, MoreCreates, MoreDestroys
    <3>3. Building(c)' + CreateCmds(c)' + Creates(c)' = OneIf(Mode(c)' = "ACCEL_PENDING")
      <4> DEFINE a == OneIf(ctx[x].pc \in {"build", "tx"})
                 b == OneIf(ctx'[x].pc \in {"build", "tx"})
                 m == OneIf(Mode(c) = "ACCEL_PENDING")
                 n == OneIf(Mode(c)' = "ACCEL_PENDING")
      <4>1. a \in Int /\ b \in Int /\ m \in Int /\ n \in Int
        BY DEF OneIf
      <4>2. /\ Building(c)' = Building(c) - a + b
            /\ Building(c) + CreateCmds(c) + Creates(c) = m
            /\ n - m = CreateCmds(c)' + Creates(c)' - CreateCmds(c) - Creates(c) + b - a
        BY <2>1, <3>1, <3>2 DEF PendingOwned
      <4> HIDE DEF a, b, m, n
      <4>3. Building(c)' + CreateCmds(c)' + Creates(c)' = n
        BY <2>2, <2>3, <4>1, <4>2
      <4> QED  BY <4>3 DEF n
    <3>4. Sending(c)' + DestroyCmds(c)' + Destroys(c)' = OneIf(Mode(c)' = "DECEL_PENDING")
      BY <2>1, <2>2, <2>3, <3>1, <3>2 DEF PendingOwned, OneIf
    <3> QED  BY <3>3, <3>4 DEF PendingOwned
  <2>6. FlushBalance(c)'
    <3>1. FlushBalance(c)
      BY <1>1 DEF ConnInv
    <3>2. Flushes(c)' + AckedDestroys(c)' + OneIf(rule'[c] # NoRule) - AckedCreates(c)'
             - Flushes(c) - AckedDestroys(c) - OneIf(rule[c] # NoRule) + AckedCreates(c)
             + OneIf(ctx'[x].pc = "sync") + OneIf(feci'[c].flush_happened)
             - OneIf(ctx[x].pc = "sync") - OneIf(feci[c].flush_happened)
          <= OneIf(Mode(c)' \in {"ACCEL", "DECEL_PENDING"}) + OneIf(Failed(Mode(c)'))
             - OneIf(Mode(c) \in {"ACCEL", "DECEL_PENDING"}) - OneIf(Failed(Mode(c)))
      BY DEF Agrees, Mode, MoreEnds
    <3>3. feci'[c].flush_happened => Mode(c)' = "ACCEL_PENDING"
      BY DEF Agrees, Mode
    <3> QED  BY <2>1, <2>2, <2>3, <2>4, <3>1, <3>2, <3>3 DEF FlushBalance
  <2>7. Untouched(c)'
    BY <1>1 DEF ConnInv, Untouched, Agrees, Mode
  <2>8. Bounded(c)'
    BY <1>1, <2>1, <2>2, <2>4 DEF ConnInv, Bounded, Agrees
  <2> QED  BY <2>5, <2>6, <2>7, <2>8 DEF ConnInv
<1>5. ASSUME NEW d \in Conns  PROVE ConnInv(d)'
  BY <1>4, OtherConns
<1> QED  BY <1>3, <1>5 DEF IndInv

(* The step of a context that sends and receives nothing *)
LEMMA QuietStep ==
  ASSUME IndInv, NEW x \in Contexts, NEW c \in Conns,
         NEW e \in CtxType, NEW f \in FeciType, NEW k \in CiType,
         ctx' = [ctx EXCEPT ![x] = e], feci' = [feci EXCEPT ![c] = f],
         ci' = [ci EXCEPT ![c] = k], UNCHANGED <<cmds, host, rule>>,
         pending_accel_count' \in Int, pending_decel_count' \in Int,
         accelerated_count' \in Int,
         At(x, "idle") \/ Conn(x) = c, e.pc = "idle" \/ e.c = c,
         Agrees(x, c, e, f, k, 0, 0, 0)
  PROVE  IndInv'
<1>1. TypeOK /\ ConnInv(c)
  BY DEF IndInv
<1>2. /\ ctx'[x] = e /\ feci'[c] = f /\ ci'[c] = k
      /\ \A y \in Contexts \ {x} : ctx'[y] = ctx[y]
      /\ \A d \in Conns \ {c} : feci'[d] = feci[d] /\ ci'[d] = ci[d] /\ rule'[d] = rule[d]
  BY <1>1 DEF TypeOK
<1>3. TypeOK'
  <2>1. feci' \in [Conns -> FeciType] /\ ci' \in [Conns -> CiType]
    BY <1>1 DEF TypeOK
  <2>2. ctx' \in [Contexts -> CtxType]
    BY <1>1 DEF TypeOK, CtxType
  <2> QED  BY <1>1, <2>1, <2>2 DEF TypeOK, CtxType
<1>4. LocalTo(x, c)
  BY <1>2 DEF LocalTo
<1>5. \A d \in Conns : MsgsKept(d)
  BY NoMessages
<1>6. Destroys(c)' > 0 => rule'[c] = NoRule
  BY <1>1, <1>5 DEF MsgsKept, ConnInv, FlushBalance
<1>7. MoreCreates(c) = 0 /\ MoreDestroys(c) = 0 /\ MoreEnds(c) = 0
  BY <1>1, <1>5, CountTypes DEF MsgsKept, MoreCreates, MoreDestroys, MoreEnds, OneIf
<1> QED  BY <1>2, <1>3, <1>4, <1>5, <1>6, <1>7, LocalStep

-----------------------------------------------------------------------------
(* What the contexts know, and what the helpers return *)

(* A context in a set of contexts is counted there. *)
LEMMA BusyCounts ==
  ASSUME NEW x \in Contexts, NEW c, NEW P, ctx[x].c = c, ctx[x].pc \in P
  PROVE  Cardinality(Busy(c, P)) \in Nat /\ Cardinality(Busy(c, P)) > 0
<1>1. x \in Busy(c, P) /\ Busy(c, P) \subseteq Contexts
  BY DEF Busy
<1>2. IsFiniteSet(Busy(c, P))
  BY <1>1, FiniteAssumption, FS_Subset
<1> QED  BY <1>1, <1>2, FS_CardinalityType, FS_EmptySet

(* Whoever builds or sends owns the mode alone, and until the NSS has the  *)
(* create no flush is on record.                                           *)
LEMMA Owners ==
  ASSUME IndInv, NEW x \in Contexts, NEW c \in Conns, c = Conn(x)
  PROVE  /\ ctx[x].pc \in {"build", "tx"} =>
              /\ Mode(c) = "ACCEL_PENDING" /\ CreateCmds(c) = 0 /\ Creates(c) = 0
              /\ ~feci[c].flush_happened
         /\ At(x, "send") => Mode(c) = "DECEL_PENDING" /\ DestroyCmds(c) = 0 /\ Destroys(c) = 0
         /\ At(x, "regen") => ci[c].regen_in_progress
<1>1. TypeOK /\ ConnInv(c) /\ feci[c] \in FeciType /\ ci[c] \in CiType
  BY Known
<1>2. /\ Building(c) \in Nat /\ CreateCmds(c) \in Nat /\ Creates(c) \in Nat
      /\ Sending(c) \in Nat /\ DestroyCmds(c) \in Nat /\ Destroys(c) \in Nat
      /\ Flushes(c) \in Nat /\ Syncing(c) \in Nat /\ AckedDestroys(c) \in Nat
      /\ AckedCreates(c) \in Nat /\ AckedCreates(c) <= Creates(c)
  BY <1>1, CountTypes, AckedAtMost
<1>3. ASSUME ctx[x].pc \in {"build", "tx"}
      PROVE  /\ Mode(c) = "ACCEL_PENDING" /\ CreateCmds(c) = 0 /\ Creates(c) = 0
             /\ ~feci[c].flush_happened
  <2>1. Building(c) > 0
    BY <1>3, BusyCounts DEF Building, Conn
  <2>2. Mode(c) = "ACCEL_PENDING" /\ CreateCmds(c) = 0 /\ Creates(c) = 0
    BY <1>1, <1>2, <2>1 DEF ConnInv, PendingOwned, OneIf
  <2>3. AckedCreates(c) = 0
    BY <1>2, <2>2
  <2>4. ~feci[c].flush_happened
    BY <1>1, <1>2, <2>2, <2>3 DEF ConnInv, FlushBalance, OneIf, Failed, FailModes
  <2> QED  BY <2>2, <2>4
<1>4. ASSUME At(x, "send")
      PROVE  Mode(c) = "DECEL_PENDING" /\ DestroyCmds(c) = 0 /\ Destroys(c) = 0
  <2>1. Sending(c) > 0
    BY <1>4, BusyCounts DEF Sending, Conn, At
  <2>2. Sending(c) + DestroyCmds(c) + Destroys(c) = IF Mode(c) = "DECEL_PENDING" THEN 1 ELSE 0
    BY <1>1 DEF ConnInv, PendingOwned, OneIf
  <2> QED  BY <1>2, <2>1, <2>2
<1>5. ASSUME At(x, "regen")  PROVE ci[c].regen_in_progress
  <2>1. Regenerating(c) \in Nat /\ Regenerating(c) > 0
    BY <1>5, BusyCounts DEF Regenerating, Conn, At
  <2> QED  BY <1>1, <2>1 DEF ConnInv, Bounded, OneIf
<1> QED  BY <1>3, <1>4, <1>5

(* Taking note of a new generation stays within the bounds. *)
LEMMA NoticedOK ==
  ASSUME NEW k \in CiType, RegenOK(k)
  PROVE  /\ Noticed(k) \in CiType /\ RegenOK(Noticed(k))
         /\ Noticed(k).added = k.added /\ Noticed(k).refs = k.refs
         /\ Noticed(k).group = k.group /\ Noticed(k).regen_in_progress = k.regen_in_progress
<1>1. CASE ~k.stale
  BY <1>1 DEF Noticed
<1>2. CASE k.stale
  <2> DEFINE r == k.regen_required + 1
             o == k.regen_occurances + 1
  <2>1. Noticed(k) = [k EXCEPT !.stale = FALSE, !.regen_occurances = o, !.regen_required = r]
    BY <1>2 DEF Noticed
  <2>2. k.regen_required \in 0..MaxRegen /\ k.regen_occurances \in 0..MaxRegen
    BY DEF CiType
  <2>3. r \in 0..MaxRegen /\ o \in 0..MaxRegen /\ r <= o /\ r > 0
    BY <1>2, <2>2, BoundAssumption DEF RegenOK, OneIf
  <2> HIDE DEF r, o
  <2>4. /\ Noticed(k) \in CiType /\ Noticed(k).stale = FALSE
        /\ Noticed(k).regen_occurances = o /\ Noticed(k).regen_required = r
        /\ Noticed(k).added = k.added /\ Noticed(k).refs = k.refs
        /\ Noticed(k).group = k.group /\ Noticed(k).regen_in_progress = k.regen_in_progress
    BY <2>1, <2>3 DEF CiType
  <2> QED  BY <2>3, <2>4 DEF RegenOK, OneIf
<1> QED  BY <1>1, <1>2 DEF CiType

(* Noting a deceleration moves an accelerated connection, and no other. *)
LEMMA DecelNotedOK ==
  ASSUME NEW f \in FeciType
  PROVE  /\ DecelNoted(f) \in FeciType
         /\ DecelNoted(f).accel_mode = IF DecelAllowed(f) THEN "DECEL_PENDING" ELSE f.accel_mode
         /\ DecelNoted(f).flush_happened = f.flush_happened
         /\ DecelNoted(f).driver_fail = f.driver_fail
  BY DEF FeciType, DecelNoted, DecelAllowed, Modes, FailModes

(* What making a connection defunct does to its instance. *)
LEMMA DefunctedOK ==
  ASSUME NEW f \in FeciType
  PROVE  /\ Defuncted(f) \in FeciType
         /\ Defuncted(f).accel_mode =
              IF DefunctRefused(f) THEN f.accel_mode
              ELSE IF f.accel_mode = "DECEL" THEN "FAIL_DEFUNCT"
              ELSE IF DecelAllowed(f) THEN "DECEL_PENDING" ELSE f.accel_mode
         /\ Defuncted(f).flush_happened = f.flush_happened
         /\ Defuncted(f).driver_fail = f.driver_fail
<1>1. CASE DefunctRefused(f)
  BY <1>1 DEF Defuncted
<1>2. CASE ~DefunctRefused(f) /\ f.accel_mode = "DECEL"
  BY <1>2 DEF Defuncted, FeciType, Modes, FailModes
<1>3. CASE ~DefunctRefused(f) /\ f.accel_mode # "DECEL"
  <2> DEFINE g == DecelNoted(f)
  <2>1. /\ g \in FeciType
        /\ g.accel_mode = IF DecelAllowed(f) THEN "DECEL_PENDING" ELSE f.accel_mode
        /\ g.flush_happened = f.flush_happened /\ g.driver_fail = f.driver_fail
    BY DecelNotedOK
  <2>2. Defuncted(f) = [g EXCEPT !.is_defunct = TRUE]
    BY <1>3 DEF Defuncted
  <2> HIDE DEF g
  <2> QED  BY <1>3, <2>1, <2>2 DEF FeciType
<1> QED  BY <1>1, <1>2, <1>3

(* A step that concerns the references and the timer of a connection only *)
SameRegen(k, j) ==
  /\ j \in CiType /\ j.added = k.added /\ j.regen_in_progress = k.regen_in_progress
  /\ RegenOK(k) => RegenOK(j)

(* References and timer groups leave the regeneration of k alone. *)
LEMMA RefsOK ==
  ASSUME NEW k \in CiType
  PROVE  /\ SameRegen(k, k) /\ SameRegen(k, Ref(k))
         /\ \A n \in Int : SameRegen(k, Deref(k, n))
         /\ SameRegen(k, Deref(k, 1)) /\ SameRegen(k, Deref(k, 2))
         /\ \A g \in {"MAX", "DEFAULT", "RETRY"} : /\ SameRegen(k, [k EXCEPT !.group = g])
                                                    /\ SameRegen(k, [Ref(k) EXCEPT !.group = g])
<1>1. ASSUME NEW n \in Int  PROVE SameRegen(k, [k EXCEPT !.refs = n])
  BY DEF SameRegen, CiType, RegenOK
<1>2. ASSUME NEW j \in CiType, NEW g \in {"MAX", "DEFAULT", "RETRY"}
      PROVE  SameRegen(j, [j EXCEPT !.group = g])
  BY DEF SameRegen, CiType, RegenOK
<1>3. SameRegen(k, k)
  BY DEF SameRegen
<1>4. k.refs \in Int
  BY DEF CiType
<1>5. SameRegen(k, Ref(k))
  BY <1>1, <1>4 DEF Ref
<1>6. ASSUME NEW n \in Int  PROVE SameRegen(k, Deref(k, n))
  BY <1>1, <1>4 DEF Deref
<1>7. ASSUME NEW g \in {"MAX", "DEFAULT", "RETRY"}  PROVE SameRegen(k, [Ref(k) EXCEPT !.group = g])
  <2> DEFINE j == Ref(k)
  <2>1. SameRegen(k, j)
    BY <1>5
  <2> HIDE DEF j
  <2>2. SameRegen(j, [j EXCEPT !.group = g])
    BY <1>2, <2>1 DEF SameRegen
  <2>3. SameRegen(k, [j EXCEPT !.group = g])
    BY <2>1, <2>2 DEF SameRegen
  <2> QED  BY <2>3 DEF j
<1> QED  BY <1>2, <1>3, <1>5, <1>6, <1>7

(* A connection that is added. *)
LEMMA AddedOK ==
  ASSUME NEW k \in CiType, RegenOK(k)
  PROVE  LET j == [k EXCEPT !.added = TRUE, !.refs = 1]
         IN  j \in CiType /\ j.added /\ RegenOK(j) /\ j.regen_in_progress = k.regen_in_progress
<1> DEFINE i == [k EXCEPT !.added = TRUE]
           j == [i EXCEPT !.refs = 1]
<1>1. i \in CiType /\ i.added /\ i.regen_in_progress = k.regen_in_progress /\ RegenOK(i)
  BY DEF CiType, RegenOK
<1> HIDE DEF i
<1>2. j \in CiType /\ j.added /\ j.regen_in_progress = i.regen_in_progress /\ RegenOK(j)
  BY <1>1 DEF CiType, RegenOK
<1>3. [k EXCEPT !.added = TRUE, !.refs = 1] = j
  BY DEF i, CiType
<1> QED  BY <1>1, <1>2, <1>3

(* Where a context neither owns a mode nor regenerates nor has a flush *)
Neutral == Pcs \ {"idle", "build", "tx", "send", "regen", "sync"}

(* A step that leaves the mode of the front end instance alone *)
SameMode(f, g) ==
  /\ g \in FeciType /\ g.accel_mode = f.accel_mode /\ g.flush_happened = f.flush_happened
  /\ DriverOK(f) => DriverOK(g)

(* Steps that leave the acceleration mode of their connection alone. *)
LEMMA NeutralStep ==
  ASSUME IndInv, NEW x \in Contexts, NEW c \in Conns, NEW e \in CtxType, NEW f, NEW k,
         ctx' = [ctx EXCEPT ![x] = e], feci' = [feci EXCEPT ![c] = f],
         ci' = [ci EXCEPT ![c] = k], UNCHANGED <<cmds, host, rule>>,
         pending_accel_count' \in Int, pending_decel_count' \in Int, accelerated_count' \in Int,
         \/ At(x, "idle")
         \/ Conn(x) = c /\ ctx[x].pc \in Neutral,
         e = Idle \/ (e # Idle /\ e.c = c /\ e.pc \in Neutral),
         ReasonOK(x, e), ci[c].added, SameMode(feci[c], f), SameRegen(ci[c], k)
  PROVE  IndInv'
<1>1. TypeOK /\ ConnInv(c) /\ feci[c] \in FeciType /\ ci[c] \in CiType
  BY Known
<1>2. k \in CiType /\ k.added /\ RegenOK(k) /\ k.regen_in_progress = ci[c].regen_in_progress
  BY <1>1 DEF SameRegen, ConnInv, Bounded
<1>3. /\ f \in FeciType /\ f.accel_mode = Mode(c) /\ f.flush_happened = feci[c].flush_happened
      /\ DriverOK(f) /\ (f.flush_happened => f.accel_mode = "ACCEL_PENDING")
  BY <1>1 DEF SameMode, ConnInv, Bounded, FlushBalance, Mode
<1>4. /\ ctx[x].pc \notin {"build", "tx"} /\ ctx[x].pc \notin {"send", "regen", "sync"}
      /\ e.pc \notin {"build", "tx"} /\ e.pc \notin {"send", "regen", "sync"}
      /\ e.pc = "idle" \/ e.c = c
  BY IdleType DEF At, Neutral
<1>5. Agrees(x, c, e, f, k, 0, 0, 0)
  BY <1>2, <1>3, <1>4 DEF Agrees, OneIf
<1> QED  BY <1>1, <1>2, <1>3, <1>4, <1>5, QuietStep DEF At

(* The same when the front end instance is left alone *)
LEMMA CtxOnlyStep ==
  ASSUME IndInv, NEW x \in Contexts, NEW c \in Conns, NEW e \in CtxType, NEW k,
         ctx' = [ctx EXCEPT ![x] = e], ci' = [ci EXCEPT ![c] = k],
         UNCHANGED <<feci, cmds, host, rule>>,
         pending_accel_count' \in Int, pending_decel_count' \in Int, accelerated_count' \in Int,
         \/ At(x, "idle")
         \/ Conn(x) = c /\ ctx[x].pc \in Neutral,
         e = Idle \/ (e # Idle /\ e.c = c /\ e.pc \in Neutral),
         ReasonOK(x, e), ci[c].added, SameRegen(ci[c], k)
  PROVE  IndInv'
<1>1. TypeOK /\ feci[c] \in FeciType
  BY Known
<1>2. feci' = [feci EXCEPT ![c] = feci[c]] /\ SameMode(feci[c], feci[c])
  BY <1>1 DEF TypeOK, SameMode
<1> QED  BY <1>2, NeutralStep

(* A context that is done is idle. *)
LEMMA LeaveStep ==
  ASSUME IndInv, NEW x \in Contexts, NEW c \in Conns, NEW k,
         Leave(x), ci' = [ci EXCEPT ![c] = k], UNCHANGED <<feci, cmds, host, rule>>,
         pending_accel_count' \in Int, pending_decel_count' \in Int, accelerated_count' \in Int,
         Conn(x) = c, ctx[x].pc \in Neutral, ci[c].added, SameRegen(ci[c], k)
  PROVE  IndInv'
<1> DEFINE e == Idle
<1>1. e \in CtxType /\ ReasonOK(x, e)
  BY IdleType DEF ReasonOK
<1>2. ctx' = [ctx EXCEPT ![x] = e] /\ e = Idle
  BY DEF Leave
<1> HIDE DEF e
<1> QED  BY <1>1, <1>2, CtxOnlyStep

-----------------------------------------------------------------------------
(* The steps of a packet *)

(* ConnectionAdd preserves the invariant. *)
LEMMA ConnectionAddStep ==
  ASSUME IndInv, NEW x \in PacketCtx, NEW c \in Conns, ConnectionAdd(x, c)
  PROVE  IndInv'
<1> DEFINE e == [Idle EXCEPT !.pc = "add", !.c = c]
           k == [ci[c] EXCEPT !.added = TRUE, !.refs = 1]
<1>1. x \in Contexts /\ x # TimerCtx
  BY NotTimer
<1>2. TypeOK /\ ConnInv(c) /\ feci[c] \in FeciType /\ ci[c] \in CiType /\ CtxInv(x)
  BY <1>1, Known
<1>3. PICK mode \in {"DECEL", "FAIL_DENIED"} : feci' = [feci EXCEPT ![c].accel_mode = mode]
  BY DEF ConnectionAdd
<1> DEFINE f == [feci[c] EXCEPT !.accel_mode = mode]
<1>4. Mode(c) = "DECEL" /\ ctx[x].pc = "idle"
  BY <1>2 DEF ConnectionAdd, ConnInv, Untouched, At
<1>5. /\ ctx' = [ctx EXCEPT ![x] = e] /\ feci' = [feci EXCEPT ![c] = f]
      /\ ci' = [ci EXCEPT ![c] = k] /\ UNCHANGED <<cmds, host, rule, counts>>
  BY <1>2, <1>3 DEF ConnectionAdd, TypeOK, nss
<1>6. e \in CtxType /\ e.pc = "add" /\ e.c = c /\ e.op = "packet" /\ e # Idle
  BY BeginsType DEF Pcs
<1>7. k \in CiType /\ k.added /\ RegenOK(k) /\ k.regen_in_progress = ci[c].regen_in_progress
  <2>1. RegenOK(ci[c])
    BY <1>2 DEF ConnInv, Bounded
  <2> QED  BY <1>2, <2>1, AddedOK
<1>8. mode \in Modes /\ ~Failed("DECEL") /\ (Failed(mode) <=> mode # "DECEL")
  BY DEF Modes, FailModes, Failed
<1>9. /\ f \in FeciType /\ f.accel_mode = mode /\ f.flush_happened = feci[c].flush_happened
      /\ f.driver_fail = feci[c].driver_fail
  BY <1>2, <1>8 DEF FeciType
<1>10. ~f.flush_happened /\ DriverOK(f)
  BY <1>2, <1>4, <1>9 DEF ConnInv, Bounded, DriverOK, FlushBalance, Mode
<1> HIDE DEF e, f, k
<1>11. Agrees(x, c, e, f, k, 0, 0, 0)
  BY <1>1, <1>4, <1>6, <1>7, <1>8, <1>9, <1>10 DEF Agrees, OneIf, ReasonOK
<1> QED  BY <1>1, <1>2, <1>4, <1>5, <1>6, <1>7, <1>9, <1>11, QuietStep DEF TypeOK, counts, At

(* TimerSet preserves the invariant. *)
LEMMA TimerSetStep ==
  ASSUME IndInv, NEW x \in PacketCtx, NEW c \in Conns, c = Conn(x), TimerSet(x)
  PROVE  IndInv'
<1> DEFINE e == [ctx[x] EXCEPT !.pc = "packet"]
           k == [Ref(ci[c]) EXCEPT !.group = "DEFAULT"]
<1>1. x \in Contexts /\ x # TimerCtx
  BY NotTimer
<1>2. TypeOK /\ ci[c] \in CiType /\ CtxInv(x) /\ ctx[x] \in CtxType
  BY <1>1, Known
<1>3. /\ ctx' = [ctx EXCEPT ![x] = e] /\ ci' = [ci EXCEPT ![c] = k]
      /\ UNCHANGED <<feci, cmds, host, rule, counts>>
  BY <1>2 DEF TimerSet, TypeOK, nss, Goto
<1>4. e \in CtxType /\ e.pc = "packet" /\ e.c = c /\ e.op = ctx[x].op /\ e # Idle
  BY <1>2, MovesType DEF Pcs, Conn
<1>5. SameRegen(ci[c], k)
  BY <1>2, RefsOK
<1>6. ReasonOK(x, e) /\ ci[c].added /\ ctx[x].pc \in Neutral /\ e.pc \in Neutral
  BY <1>1, <1>2, <1>4 DEF CtxInv, ReasonOK, TimerSet, At, Conn, Neutral, Pcs
<1> HIDE DEF e, k
<1> QED  BY <1>1, <1>2, <1>3, <1>4, <1>5, <1>6, CtxOnlyStep DEF TypeOK, counts

(* PacketSeen preserves the invariant. *)
LEMMA PacketSeenStep ==
  ASSUME IndInv, NEW x \in PacketCtx, NEW c \in Conns, PacketSeen(x, c)
  PROVE  IndInv'
<1> DEFINE e == [Idle EXCEPT !.pc = "packet", !.c = c]
           k == Ref(ci[c])
<1>1. x \in Contexts /\ x # TimerCtx
  BY NotTimer
<1>2. TypeOK /\ ConnInv(c) /\ ci[c] \in CiType
  BY <1>1, Known
<1>3. /\ ctx' = [ctx EXCEPT ![x] = e] /\ ci' = [ci EXCEPT ![c] = k] /\ At(x, "idle")
      /\ UNCHANGED <<feci, cmds, host, rule, counts>>
  BY <1>2 DEF PacketSeen, TypeOK, nss
<1>4. e \in CtxType /\ e.pc = "packet" /\ e.c = c /\ e.op = "packet" /\ e # Idle
  BY BeginsType DEF Pcs
<1>5. SameRegen(ci[c], k)
  BY <1>2, RefsOK
<1>6. ci[c].added
  BY <1>2 DEF PacketSeen, ConnInv, Untouched, CiType
<1> HIDE DEF e, k
<1>7. ReasonOK(x, e) /\ e.pc \in Neutral
  BY <1>1, <1>4 DEF ReasonOK, Neutral, Pcs
<1> QED  BY <1>1, <1>2, <1>3, <1>4, <1>5, <1>6, <1>7, CtxOnlyStep DEF TypeOK, counts

(* PacketExpired preserves the invariant. *)
LEMMA PacketExpiredStep ==
  ASSUME IndInv, NEW x \in PacketCtx, NEW c \in Conns, c = Conn(x),
         PacketExpired(x) \/ AccelUnwanted(x)
  PROVE  IndInv'
<1> DEFINE k == Deref(ci[c], Own(x))
<1>1. x \in Contexts
  BY NotTimer
<1>2. TypeOK /\ CtxInv(x) /\ ci[c] \in CiType
  BY <1>1, Known
<1>3. /\ Leave(x) /\ ci' = [ci EXCEPT ![c] = k]
      /\ ctx[x].pc \in {"packet", "accel"} /\ UNCHANGED <<feci, cmds, host, rule, counts>>
  BY <1>2 DEF PacketExpired, AccelUnwanted, nss, Return, At
<1>4. SameRegen(ci[c], k)
  <2>1. Own(x) \in Int
    BY DEF Own
  <2> QED  BY <1>2, <2>1, RefsOK
<1>5. ci[c].added /\ ctx[x].pc \in Neutral
  BY <1>2, <1>3 DEF CtxInv, At, Conn, Neutral, Pcs
<1> HIDE DEF k
<1> QED  BY <1>1, <1>2, <1>3, <1>4, <1>5, LeaveStep DEF TypeOK, counts

(* PacketStart preserves the invariant. *)
LEMMA PacketStartStep ==
  ASSUME IndInv, NEW x \in PacketCtx, NEW c \in Conns, c = Conn(x), PacketStart(x)
  PROVE  IndInv'
<1> DEFINE n == Noticed(ci[c])
           r == n.regen_required > 0 /\ ~n.regen_in_progress
           e == [ctx[x] EXCEPT !.pc = IF r THEN "regen" ELSE "accel"]
           k == IF r THEN [n EXCEPT !.regen_in_progress = TRUE] ELSE n
           f == feci[c]
<1>1. x \in Contexts /\ x # TimerCtx
  BY NotTimer
<1>2. /\ TypeOK /\ CtxInv(x) /\ ci[c] \in CiType /\ ctx[x] \in CtxType /\ f \in FeciType
      /\ ConnInv(c)
  BY <1>1, Known
<1>3. /\ ctx' = [ctx EXCEPT ![x] = e] /\ ci' = [ci EXCEPT ![c] = k] /\ ctx[x].pc = "packet"
      /\ UNCHANGED <<feci, cmds, host, rule, counts>>
  <2>1. CASE r
    BY <1>2, <2>1 DEF PacketStart, nss, Goto, At
  <2>2. CASE ~r
    BY <1>2, <2>2 DEF PacketStart, nss, Goto, At
  <2> QED  BY <2>1, <2>2
<1>4. /\ n \in CiType /\ RegenOK(n) /\ n.added = ci[c].added
      /\ n.regen_in_progress = ci[c].regen_in_progress /\ ci[c].added
  BY <1>2, <1>3, NoticedOK DEF ConnInv, Bounded, CtxInv, At, Conn
<1> HIDE DEF n
<1>5. /\ k \in CiType /\ RegenOK(k) /\ k.added /\ (r => ~ci[c].regen_in_progress)
      /\ k.regen_in_progress <=> (r \/ ci[c].regen_in_progress)
  <2>1. CASE r
    <3>1. n.regen_required > 0 /\ ~n.regen_in_progress /\ k = [n EXCEPT !.regen_in_progress = TRUE]
      BY <2>1
    <3>2. k \in CiType /\ RegenOK(k) /\ k.added = n.added /\ k.regen_in_progress
      BY <1>4, <3>1 DEF CiType, RegenOK
    <3> HIDE DEF k, r
    <3> QED  BY <1>4, <2>1, <3>1, <3>2
  <2>2. CASE ~r
    <3>1. k = n
      BY <2>2
    <3> HIDE DEF k, r
    <3> QED  BY <1>4, <2>2, <3>1
  <2> QED  BY <2>1, <2>2
<1>6. /\ e \in CtxType /\ e.pc = IF r THEN "regen" ELSE "accel"
      /\ e.c = c /\ e.op = ctx[x].op /\ e # Idle
  BY <1>2, MovesType DEF Pcs, Conn
<1>7. feci' = [feci EXCEPT ![c] = f]
  BY <1>2, <1>3 DEF TypeOK
<1> HIDE DEF e, k, r
<1>8. ReasonOK(x, e)
  BY <1>1, <1>2, <1>3, <1>6 DEF ReasonOK, CtxInv
<1>9. Agrees(x, c, e, f, k, 0, 0, 0)
  BY <1>2, <1>3, <1>5, <1>6, <1>8 DEF Agrees, ConnInv, Bounded, FlushBalance, Mode, OneIf
<1> QED  BY <1>1, <1>2, <1>3, <1>5, <1>6, <1>7, <1>9, QuietStep DEF TypeOK, counts

(* Regenerate preserves the invariant. *)
LEMMA RegenerateStep ==
  ASSUME IndInv, NEW x \in PacketCtx, NEW c \in Conns, c = Conn(x), Regenerate(x)
  PROVE  IndInv'
<1>1. x \in Contexts /\ x # TimerCtx
  BY NotTimer
<1>2. /\ TypeOK /\ CtxInv(x) /\ ci[c] \in CiType /\ ctx[x] \in CtxType
      /\ feci[c] \in FeciType /\ ConnInv(c)
  BY <1>1, Known
<1>3. PICK done \in {0, 1} :
        ci' = [ci EXCEPT ![c].regen_in_progress = FALSE, ![c].regen_required = @ - done]
  BY DEF Regenerate
<1> DEFINE j == ci[c]
           e == [ctx[x] EXCEPT !.pc = "accel"]
           k == [j EXCEPT !.regen_in_progress = FALSE, !.regen_required = @ - done]
           f == feci[c]
<1>4. ctx[x].pc = "regen" /\ j.regen_in_progress /\ j.added /\ RegenOK(j)
  BY <1>1, <1>2, Owners DEF Regenerate, At, CtxInv, Conn, ConnInv, Bounded
<1>5. /\ ctx' = [ctx EXCEPT ![x] = e] /\ ci' = [ci EXCEPT ![c] = k]
      /\ feci' = [feci EXCEPT ![c] = f] /\ UNCHANGED <<cmds, host, rule, counts>>
  BY <1>2, <1>3 DEF Regenerate, nss, Goto, TypeOK
<1> HIDE DEF j
<1>6. /\ k \in CiType /\ RegenOK(k) /\ k.added /\ ~k.regen_in_progress
  <2>1. j \in CiType
    BY <1>2 DEF j
  <2>2. j.regen_required - done \in 0..MaxRegen /\ j.regen_required - done <= j.regen_occurances
    BY <1>4, <2>1, BoundAssumption DEF CiType, RegenOK
  <2> QED  BY <1>4, <2>1, <2>2 DEF CiType, RegenOK
<1>7. e \in CtxType /\ e.pc = "accel" /\ e.c = c /\ e.op = ctx[x].op /\ e # Idle
  BY <1>2, MovesType DEF Pcs, Conn
<1> HIDE DEF e, k
<1>8. ReasonOK(x, e)
  BY <1>1, <1>2, <1>4, <1>7 DEF ReasonOK, CtxInv
<1>9. Agrees(x, c, e, f, k, 0, 0, 0)
  BY <1>2, <1>4, <1>6, <1>7, <1>8 DEF Agrees, ConnInv, Bounded, FlushBalance, Mode, OneIf, j
<1> QED  BY <1>1, <1>2, <1>5, <1>6, <1>7, <1>9, QuietStep DEF TypeOK, counts
(* AccelPendingSet preserves the invariant. *)
LEMMA AccelPendingSetStep ==
  ASSUME IndInv, NEW x \in PacketCtx, NEW c \in Conns, c = Conn(x), AccelPendingSet(x)
  PROVE  IndInv'
<1> DEFINE e == [ctx[x] EXCEPT !.pc = "build", !.gen = ci[c].regen_occurances]
           f == [feci[c] EXCEPT !.accel_mode = "ACCEL_PENDING"]
           k == ci[c]
<1>1. x \in Contexts /\ x # TimerCtx
  BY NotTimer
<1>2. /\ TypeOK /\ CtxInv(x) /\ k \in CiType /\ ctx[x] \in CtxType
      /\ feci[c] \in FeciType /\ ConnInv(c)
  BY <1>1, Known
<1>3. ctx[x].pc = "accel" /\ Mode(c) = "DECEL" /\ k.added
  BY <1>2 DEF AccelPendingSet, AccelPermitted, At, Mode, CtxInv, Conn
<1>4. /\ ctx' = [ctx EXCEPT ![x] = e] /\ feci' = [feci EXCEPT ![c] = f]
      /\ ci' = [ci EXCEPT ![c] = k] /\ UNCHANGED <<cmds, host, rule>>
      /\ pending_accel_count' \in Int /\ pending_decel_count' \in Int
      /\ accelerated_count' \in Int
  <2>1. ctx' = [ctx EXCEPT ![x] = e]
    BY <1>1, <1>2 DEF AccelPendingSet, TypeOK
  <2>2. feci' = [feci EXCEPT ![c] = f] /\ ci' = [ci EXCEPT ![c] = k]
    BY <1>2 DEF AccelPendingSet, TypeOK
  <2>3. pending_accel_count' = pending_accel_count + 1
    BY DEF AccelPendingSet
  <2>4. UNCHANGED <<cmds, host, rule, pending_decel_count, accelerated_count>>
    BY DEF AccelPendingSet, nss
  <2> QED  BY <1>2, <2>1, <2>2, <2>3, <2>4 DEF TypeOK
<1>5. k.regen_occurances \in 0..MaxRegen
  BY <1>2 DEF CiType
<1>6. e \in CtxType /\ e.pc = "build" /\ e.c = c /\ e.op = ctx[x].op /\ e # Idle
  BY <1>2, <1>5, IdleType DEF CtxType, Conn, Pcs
<1>7. "ACCEL_PENDING" \in Modes
  BY DEF Modes
<1>8. /\ f \in FeciType /\ f.accel_mode = "ACCEL_PENDING"
      /\ f.flush_happened = feci[c].flush_happened /\ f.driver_fail = feci[c].driver_fail
  BY <1>2, <1>7 DEF FeciType
<1>9. DriverOK(f) /\ ~f.flush_happened /\ ~Failed("DECEL") /\ ~Failed("ACCEL_PENDING")
  BY <1>2, <1>3, <1>8 DEF ConnInv, Bounded, DriverOK, FlushBalance, Mode, Failed, FailModes
<1> HIDE DEF e, f
<1>10. ReasonOK(x, e)
  BY <1>1, <1>2, <1>3, <1>6 DEF ReasonOK, CtxInv
<1>11. Agrees(x, c, e, f, k, 0, 0, 0)
  BY <1>2, <1>3, <1>6, <1>8, <1>9, <1>10 DEF Agrees, ConnInv, Bounded, OneIf
<1> QED  BY <1>1, <1>2, <1>4, <1>6, <1>8, <1>11, QuietStep

(* AccelDenied preserves the invariant. *)
LEMMA AccelDeniedStep ==
  ASSUME IndInv, NEW x \in PacketCtx, NEW c \in Conns, c = Conn(x), AccelDenied(x)
  PROVE  IndInv'
<1> DEFINE n == Noticed(ci[c])
           k == Deref(n, 1)
<1>1. x \in Contexts
  BY NotTimer
<1>2. TypeOK /\ CtxInv(x) /\ ci[c] \in CiType /\ ConnInv(c)
  BY <1>1, Known
<1>3. /\ Leave(x) /\ ci' = [ci EXCEPT ![c] = k]
      /\ ctx[x].pc = "accel" /\ UNCHANGED <<feci, cmds, host, rule, counts>>
  BY <1>2 DEF AccelDenied, nss, At
<1>4. SameRegen(ci[c], n)
  BY <1>2, NoticedOK DEF SameRegen, ConnInv, Bounded
<1> HIDE DEF n
<1>5. SameRegen(n, k)
  BY <1>4, RefsOK DEF SameRegen
<1> HIDE DEF k
<1>6. SameRegen(ci[c], k)
  BY <1>4, <1>5 DEF SameRegen
<1>7. ci[c].added /\ ctx[x].pc \in Neutral
  BY <1>2, <1>3 DEF CtxInv, At, Conn, Neutral, Pcs
<1> QED  BY <1>1, <1>2, <1>3, <1>6, <1>7, LeaveStep DEF TypeOK, counts

(* An acceleration that was pending ends without having reached the NSS. *)
LEMMA PendingDropped ==
  ASSUME IndInv, NEW x \in Contexts, NEW c \in Conns, c = Conn(x),
         ctx[x].pc \in {"build", "tx"}, Leave(x), NEW f \in FeciType, NEW k,
         feci' = [feci EXCEPT ![c] = f], ci' = [ci EXCEPT ![c] = k],
         SameRegen(ci[c], k), UNCHANGED <<cmds, host, rule>>,
         pending_accel_count' \in Int, pending_decel_count' \in Int, accelerated_count' \in Int,
         f.flush_happened = feci[c].flush_happened, DriverOK(f),
         f.accel_mode \in {"DECEL", "FAIL_RULE", "FAIL_DRIVER"}
  PROVE  IndInv'
<1> DEFINE e == Idle
<1>1. TypeOK /\ ConnInv(c) /\ CtxInv(x)
  BY Known
<1>2. Mode(c) = "ACCEL_PENDING" /\ ~feci[c].flush_happened
  BY Owners
<1>3. e \in CtxType /\ ReasonOK(x, e) /\ e.pc = "idle" /\ ctx' = [ctx EXCEPT ![x] = e]
  BY IdleType DEF ReasonOK, Leave
<1>4. k \in CiType /\ RegenOK(k) /\ k.regen_in_progress = ci[c].regen_in_progress /\ k.added
  BY <1>1 DEF SameRegen, ConnInv, Bounded, CtxInv, At, Conn
<1>5. ~Failed("ACCEL_PENDING")
  BY DEF Failed, FailModes
<1> HIDE DEF e
<1>6. ~f.flush_happened /\ OneIf(f.flush_happened) = 0 /\ OneIf(feci[c].flush_happened) = 0
  BY <1>2 DEF OneIf
<1>7. OneIf(k.regen_in_progress) = OneIf(ci[c].regen_in_progress)
      /\ OneIf(ci[c].regen_in_progress) \in Int
  BY <1>4 DEF OneIf
<1>8. /\ OneIf(Failed(f.accel_mode)) >= 0 /\ OneIf(Failed(f.accel_mode)) \in Int
      /\ OneIf(Failed(Mode(c))) = 0
  BY <1>2, <1>5 DEF OneIf
<1>9. /\ OneIf(f.accel_mode = "ACCEL_PENDING") = 0 /\ OneIf(f.accel_mode = "DECEL_PENDING") = 0
      /\ OneIf(f.accel_mode \in {"ACCEL", "DECEL_PENDING"}) = 0
      /\ OneIf(Mode(c) = "ACCEL_PENDING") = 1 /\ OneIf(Mode(c) = "DECEL_PENDING") = 0
      /\ OneIf(Mode(c) \in {"ACCEL", "DECEL_PENDING"}) = 0
  BY <1>2 DEF OneIf
<1>10. /\ OneIf(e.pc \in {"build", "tx"}) = 0 /\ OneIf(ctx[x].pc \in {"build", "tx"}) = 1
       /\ OneIf(e.pc = "send") = 0 /\ OneIf(ctx[x].pc = "send") = 0
       /\ OneIf(e.pc = "regen") = 0 /\ OneIf(ctx[x].pc = "regen") = 0
       /\ OneIf(e.pc = "sync") = 0 /\ OneIf(ctx[x].pc = "sync") = 0
  BY <1>3 DEF OneIf
<1>11. Agrees(x, c, e, f, k, 0, 0, 0)
  BY <1>3, <1>4, <1>6, <1>7, <1>8, <1>9, <1>10 DEF Agrees
<1> QED  BY <1>3, <1>4, <1>11, QuietStep

(* _ecm_nss_ipv4_accel_pending_clear() leaves the flush on record. *)
LEMMA PendingClearedOK ==
  ASSUME NEW f \in FeciType, NEW mode \in Modes
  PROVE  LET g == PendingCleared(f, mode)
         IN  /\ g \in FeciType /\ g.accel_mode = mode /\ g.flush_happened = f.flush_happened
             /\ g.driver_fail = f.driver_fail /\ g.is_defunct = f.is_defunct
             /\ g.ae_nack = f.ae_nack /\ g.no_action_seen = f.no_action_seen
  BY DEF PendingCleared, FeciType

(* BuildAborted preserves the invariant. *)
LEMMA BuildAbortedStep ==
  ASSUME IndInv, NEW x \in PacketCtx, NEW c \in Conns, c = Conn(x), BuildAborted(x)
  PROVE  IndInv'
<1>1. x \in Contexts
  BY NotTimer
<1>2. /\ TypeOK /\ ci[c] \in CiType /\ feci[c] \in FeciType /\ ConnInv(c)
  BY <1>1, Known
<1>3. PICK mode \in {"DECEL", "FAIL_RULE"} : feci' = [feci EXCEPT ![c] = PendingCleared(@, mode)]
  BY DEF BuildAborted
<1> DEFINE f == PendingCleared(feci[c], mode)
           k == Deref(ci[c], Own(x))
<1>4. /\ Leave(x) /\ feci' = [feci EXCEPT ![c] = f] /\ ci' = [ci EXCEPT ![c] = k]
      /\ UNCHANGED <<cmds, host, rule>> /\ ctx[x].pc = "build"
      /\ pending_accel_count' \in Int /\ pending_decel_count' \in Int
      /\ accelerated_count' \in Int
  BY <1>2, <1>3 DEF BuildAborted, nss, TypeOK, Return, At
<1>5. SameRegen(ci[c], k)
  <2>1. Own(x) \in Int
    BY DEF Own
  <2> QED  BY <1>2, <2>1, RefsOK
<1>6. mode \in Modes
  BY DEF Modes, FailModes
<1>7. /\ f \in FeciType /\ f.accel_mode = mode /\ f.flush_happened = feci[c].flush_happened
      /\ f.driver_fail = feci[c].driver_fail
  BY <1>2, <1>6, PendingClearedOK
<1>8. Mode(c) = "ACCEL_PENDING"
  BY <1>1, <1>4, Owners
<1> HIDE DEF f, k
<1>9. DriverOK(f)
  BY <1>2, <1>7, <1>8 DEF ConnInv, Bounded, DriverOK, Mode
<1> QED  BY <1>1, <1>4, <1>5, <1>7, <1>9, PendingDropped

(* RuleBuilt preserves the invariant. *)
LEMMA RuleBuiltStep ==
  ASSUME IndInv, NEW x \in PacketCtx, NEW c \in Conns, c = Conn(x), RuleBuilt(x)
  PROVE  IndInv'
<1> DEFINE e == [ctx[x] EXCEPT !.pc = "tx"]
           f == feci[c]
           k == Ref(ci[c])
<1>1. x \in Contexts /\ x # TimerCtx
  BY NotTimer
<1>2. /\ TypeOK /\ CtxInv(x) /\ ci[c] \in CiType /\ ctx[x] \in CtxType
      /\ f \in FeciType /\ ConnInv(c)
  BY <1>1, Known
<1>3. ctx[x].pc = "build" /\ ci[c].added
  BY <1>2 DEF RuleBuilt, At, CtxInv, Conn
<1>4. /\ ctx' = [ctx EXCEPT ![x] = e] /\ feci' = [feci EXCEPT ![c] = f]
      /\ ci' = [ci EXCEPT ![c] = k] /\ UNCHANGED <<cmds, host, rule, counts>>
  BY <1>2 DEF RuleBuilt, nss, TypeOK, Goto
<1>5. e \in CtxType /\ e.pc = "tx" /\ e.c = c /\ e.op = ctx[x].op /\ e # Idle
  BY <1>2, MovesType DEF Conn, Pcs
<1>6. SameRegen(ci[c], k)
  BY <1>2, RefsOK
<1> HIDE DEF e, k
<1>7. k \in CiType /\ RegenOK(k) /\ k.regen_in_progress = ci[c].regen_in_progress /\ k.added
  BY <1>2, <1>3, <1>6 DEF SameRegen, ConnInv, Bounded
<1>8. ReasonOK(x, e)
  BY <1>1, <1>2, <1>3, <1>5 DEF ReasonOK, CtxInv
<1>9. Agrees(x, c, e, f, k, 0, 0, 0)
  BY <1>2, <1>3, <1>5, <1>7, <1>8 DEF Agrees, ConnInv, Bounded, FlushBalance, Mode, OneIf
<1> QED  BY <1>1, <1>2, <1>4, <1>5, <1>7, <1>9, QuietStep DEF TypeOK, counts

(* CreateRefused preserves the invariant. *)
LEMMA CreateRefusedStep ==
  ASSUME IndInv, NEW x \in PacketCtx, NEW c \in Conns, c = Conn(x), CreateRefused(x)
  PROVE  IndInv'
<1> DEFINE fails == feci[c].driver_fail + 1
           mode == IF fails >= DriverFailLimit THEN "FAIL_DRIVER" ELSE "DECEL"
           g == PendingCleared(feci[c], mode)
           f == [g EXCEPT !.driver_fail = fails]
           k == Deref(ci[c], 2)
<1>1. x \in Contexts
  BY NotTimer
<1>2. /\ TypeOK /\ ci[c] \in CiType /\ feci[c] \in FeciType /\ ConnInv(c)
  BY <1>1, Known
<1>3. /\ Leave(x) /\ feci' = [feci EXCEPT ![c] = f] /\ ci' = [ci EXCEPT ![c] = k]
      /\ UNCHANGED <<cmds, host, rule>> /\ ctx[x].pc = "tx"
      /\ pending_accel_count' \in Int /\ pending_decel_count' \in Int
      /\ accelerated_count' \in Int
  BY <1>2 DEF CreateRefused, nss, TypeOK, At
<1>4. SameRegen(ci[c], k)
  BY <1>2, RefsOK
<1>5. Mode(c) = "ACCEL_PENDING"
  BY <1>1, <1>3, Owners
<1>6. fails \in 0..DriverFailLimit
  BY <1>2, <1>5, LimitAssumption DEF FeciType, ConnInv, Bounded, DriverOK, Mode
<1>7. mode \in Modes /\ mode \in {"DECEL", "FAIL_DRIVER"}
      /\ (fails = DriverFailLimit => mode = "FAIL_DRIVER")
  BY <1>6, LimitAssumption DEF Modes, FailModes
<1>8. /\ g \in FeciType /\ g.accel_mode = mode /\ g.flush_happened = feci[c].flush_happened
  BY <1>2, <1>7, PendingClearedOK
<1> HIDE DEF g, mode, fails
<1>9. /\ f \in FeciType /\ f.accel_mode = mode /\ f.flush_happened = feci[c].flush_happened
      /\ DriverOK(f)
  BY <1>6, <1>7, <1>8 DEF FeciType, DriverOK
<1> HIDE DEF f, k
<1> QED  BY <1>1, <1>3, <1>4, <1>7, <1>9, PendingDropped
-----------------------------------------------------------------------------
(* The steps of a deceleration *)

(* ForceDecel preserves the invariant. *)
LEMMA ForceDecelStep ==
  ASSUME IndInv, NEW x \in UserCtx, NEW c \in Conns, NEW op \in {"decel", "make"},
         ForceDecel(x, c, op)
  PROVE  IndInv'
<1> DEFINE e == [Idle EXCEPT !.pc = "decel", !.c = c, !.op = op]
           k == Ref(ci[c])
<1>1. x \in Contexts /\ x # TimerCtx
  BY NotTimer
<1>2. TypeOK /\ ConnInv(c) /\ ci[c] \in CiType
  BY <1>1, Known
<1>3. /\ ctx' = [ctx EXCEPT ![x] = e] /\ ci' = [ci EXCEPT ![c] = k] /\ At(x, "idle")
      /\ UNCHANGED <<feci, cmds, host, rule, counts>>
  BY <1>2 DEF ForceDecel, TypeOK, nss
<1>4. e \in CtxType /\ e.pc = "decel" /\ e.c = c /\ e.op = op /\ e # Idle
  <2>1. op \in Ops /\ "decel" \in Pcs \ {"idle"}
    BY DEF Pcs, Ops
  <2>2. \A o \in Ops : LET d == [Idle EXCEPT !.pc = "decel", !.c = c, !.op = o]
                       IN d \in CtxType /\ d.pc = "decel" /\ d.c = c /\ d.op = o /\ d # Idle
    BY <2>1, BeginsAs
  <2> QED  BY <2>1, <2>2
<1>5. SameRegen(ci[c], k)
  BY <1>2, RefsOK
<1>6. ci[c].added
  BY <1>2 DEF ForceDecel, ConnInv, Untouched, CiType
<1> HIDE DEF e, k
<1>7. ReasonOK(x, e) /\ e.pc \in Neutral
  BY <1>1, <1>4 DEF ReasonOK, Neutral, Pcs
<1> QED  BY <1>1, <1>2, <1>3, <1>4, <1>5, <1>6, <1>7, CtxOnlyStep DEF TypeOK, counts

(* TimerExpires preserves the invariant. *)
LEMMA TimerExpiresStep ==
  ASSUME IndInv, NEW c \in Conns, TimerExpires(c)
  PROVE  IndInv'
<1> DEFINE x == TimerCtx
           e == [Idle EXCEPT !.pc = "decel", !.c = c, !.op = "expiry"]
           k == [ci[c] EXCEPT !.group = "MAX"]
<1>1. x \in Contexts
  BY NotTimer
<1>2. TypeOK /\ ConnInv(c) /\ ci[c] \in CiType
  BY <1>1, Known
<1>3. /\ ctx' = [ctx EXCEPT ![x] = e] /\ ci' = [ci EXCEPT ![c] = k] /\ At(x, "idle")
      /\ UNCHANGED <<feci, cmds, host, rule, counts>>
  BY <1>2 DEF TimerExpires, TypeOK, nss
<1>4. e \in CtxType /\ e.pc = "decel" /\ e.c = c /\ e.op = "expiry" /\ e # Idle
  BY BeginsAs DEF Pcs, Ops
<1>5. SameRegen(ci[c], k)
  BY <1>2, RefsOK
<1>6. ci[c].added
  BY <1>2 DEF TimerExpires, ConnInv, Untouched, CiType
<1> HIDE DEF e, k
<1>7. ReasonOK(x, e) /\ e.pc \in Neutral
  BY <1>1, <1>4 DEF ReasonOK, Neutral, Pcs
<1> HIDE DEF x
<1> QED  BY <1>1, <1>2, <1>3, <1>4, <1>5, <1>6, <1>7, CtxOnlyStep DEF TypeOK, counts

(* A deceleration or a defunct that is allowed takes the connection from   *)
(* ACCEL to DECEL_PENDING and goes on to send the destroy.                 *)
LEMMA DecelBegins ==
  ASSUME IndInv, NEW x \in Contexts, NEW c \in Conns, c = Conn(x), At(x, "decel"),
         ctx[x].op # "packet", Goto(x, "send"), NEW f \in FeciType,
         feci' = [feci EXCEPT ![c] = f], UNCHANGED <<ci, cmds, host, rule, counts>>,
         Mode(c) = "ACCEL", f.accel_mode = "DECEL_PENDING",
         f.flush_happened = feci[c].flush_happened, f.driver_fail = feci[c].driver_fail
  PROVE  IndInv'
<1> DEFINE e == [ctx[x] EXCEPT !.pc = "send"]
           k == ci[c]
<1>1. TypeOK /\ ConnInv(c) /\ CtxInv(x) /\ k \in CiType /\ ctx[x] \in CtxType
  BY Known
<1>2. ctx' = [ctx EXCEPT ![x] = e] /\ ci' = [ci EXCEPT ![c] = k]
  BY <1>1 DEF Goto, TypeOK
<1>3. e \in CtxType /\ e.pc = "send" /\ e.c = c /\ e.op = ctx[x].op /\ e # Idle
  BY <1>1, MovesType DEF Conn, Pcs
<1>4. ctx[x].pc = "decel" /\ k.added
  BY <1>1 DEF At, CtxInv, Conn
<1>5. ~feci[c].flush_happened /\ ~f.flush_happened
  BY <1>1 DEF ConnInv, FlushBalance
<1>6. DriverOK(f) /\ RegenOK(k)
  BY <1>1 DEF ConnInv, Bounded, DriverOK, Mode
<1>7. ~Failed("ACCEL") /\ ~Failed("DECEL_PENDING")
  BY DEF Failed, FailModes
<1> HIDE DEF e
<1>8. ReasonOK(x, e)
  BY <1>1, <1>3, <1>4 DEF ReasonOK, CtxInv
<1>9. Agrees(x, c, e, f, k, 0, 0, 0)
  BY <1>3, <1>4, <1>5, <1>6, <1>7, <1>8 DEF Agrees, OneIf
<1> QED  BY <1>1, <1>2, <1>3, <1>9, QuietStep DEF TypeOK, counts

(* Decelerate preserves the invariant. *)
LEMMA DecelerateStep ==
  ASSUME IndInv, NEW x \in Contexts, NEW c \in Conns, c = Conn(x), Decelerate(x)
  PROVE  IndInv'
<1> DEFINE f == DecelNoted(feci[c])
<1>1. /\ TypeOK /\ ConnInv(c) /\ CtxInv(x) /\ feci[c] \in FeciType /\ ci[c] \in CiType
      /\ ctx[x] \in CtxType
  BY Known
<1>2. /\ feci' = [feci EXCEPT ![c] = f] /\ UNCHANGED <<cmds, host, rule, counts>>
      /\ At(x, "decel") /\ ctx[x].pc = "decel" /\ ctx[x].op = "decel"
  BY DEF Decelerate, nss, At
<1>3. /\ f \in FeciType /\ f.flush_happened = feci[c].flush_happened
      /\ f.driver_fail = feci[c].driver_fail
      /\ f.accel_mode = IF DecelAllowed(feci[c]) THEN "DECEL_PENDING" ELSE Mode(c)
  BY <1>1, DecelNotedOK DEF Mode
<1>4. CASE DecelAllowed(feci[c])
  <2>1. Goto(x, "send") /\ UNCHANGED ci /\ Mode(c) = "ACCEL"
    BY <1>4 DEF Decelerate, DecelAllowed, Mode
  <2> HIDE DEF f
  <2> QED  BY <1>2, <1>3, <1>4, <2>1, DecelBegins
<1>5. CASE ~DecelAllowed(feci[c])
  <2> DEFINE e == Idle
             k == Deref(ci[c], Own(x))
  <2>1. e \in CtxType /\ ReasonOK(x, e) /\ e = Idle
    BY IdleType DEF ReasonOK
  <2>2. ctx' = [ctx EXCEPT ![x] = e] /\ ci' = [ci EXCEPT ![c] = k]
    BY <1>5 DEF Decelerate, Return, Leave
  <2>3. Own(x) \in Int
    BY DEF Own
  <2>4. SameRegen(ci[c], k)
    BY <1>1, <2>3, RefsOK
  <2>5. ci[c].added /\ ctx[x].pc \in Neutral
    BY <1>1, <1>2 DEF CtxInv, At, Conn, Neutral, Pcs
  <2> HIDE DEF f
  <2>6. SameMode(feci[c], f)
    BY <1>3, <1>5 DEF SameMode, DriverOK, Mode
  <2> HIDE DEF e, k
  <2> QED  BY <1>1, <1>2, <2>1, <2>2, <2>4, <2>5, <2>6, NeutralStep DEF TypeOK, counts
<1> QED  BY <1>4, <1>5

(* What a context may become when it is done with the front end *)
LEMMA LastType ==
  ASSUME NEW e \in CtxType, NEW r \in BOOLEAN
  PROVE  LET d == [e EXCEPT !.pc = "last", !.release = r]
         IN  d \in CtxType /\ d.pc = "last" /\ d.c = e.c /\ d.op = e.op /\ d # Idle
  BY IdleType DEF CtxType, Pcs

(* Defunct preserves the invariant. *)
LEMMA DefunctStep ==
  ASSUME IndInv, NEW x \in Contexts, NEW c \in Conns, c = Conn(x), Defunct(x)
  PROVE  IndInv'
<1> DEFINE f == Defuncted(feci[c])
<1>1. /\ TypeOK /\ ConnInv(c) /\ CtxInv(x) /\ feci[c] \in FeciType /\ ci[c] \in CiType
      /\ ctx[x] \in CtxType
  BY Known
<1>2. /\ feci' = [feci EXCEPT ![c] = f] /\ UNCHANGED <<ci, cmds, host, rule, counts>>
      /\ At(x, "decel") /\ ctx[x].pc = "decel" /\ ctx[x].op \in {"make", "expiry"}
  BY DEF Defunct, nss, At
<1>3. /\ f \in FeciType /\ f.flush_happened = feci[c].flush_happened
      /\ f.driver_fail = feci[c].driver_fail
      /\ f.accel_mode = IF DefunctRefused(feci[c]) THEN Mode(c)
                        ELSE IF Mode(c) = "DECEL" THEN "FAIL_DEFUNCT"
                        ELSE IF DecelAllowed(feci[c]) THEN "DECEL_PENDING" ELSE Mode(c)
  BY <1>1, DefunctedOK DEF Mode
<1>4. CASE ~DefunctRefused(feci[c]) /\ DecelAllowed(feci[c])
  <2>1. Goto(x, "send") /\ Mode(c) = "ACCEL"
    BY <1>4 DEF Defunct, DecelAllowed, Mode
  <2>2. f.accel_mode = "DECEL_PENDING"
    BY <1>3, <1>4, <2>1
  <2> HIDE DEF f
  <2> QED  BY <1>2, <1>3, <2>1, <2>2, DecelBegins
<1>5. CASE DefunctRefused(feci[c]) \/ ~DecelAllowed(feci[c])
  <2> DEFINE r == Failed(f.accel_mode)
             e == [ctx[x] EXCEPT !.pc = "last", !.release = r]
             k == ci[c]
  <2>1. ctx' = [ctx EXCEPT ![x] = e] /\ ci' = [ci EXCEPT ![c] = k]
    BY <1>1, <1>2, <1>5 DEF Defunct, TypeOK
  <2>2. r \in BOOLEAN
    BY DEF Failed
  <2>3. e \in CtxType /\ e.pc = "last" /\ e.c = c /\ e.op = ctx[x].op /\ e # Idle
    BY <1>1, <2>2, LastType DEF Conn
  <2> HIDE DEF e
  <2>4. ReasonOK(x, e) /\ k.added
    BY <1>1, <1>2, <2>3 DEF ReasonOK, CtxInv, At, Conn
  <2>5. CASE f.accel_mode = Mode(c)
    <3> HIDE DEF f
    <3>1. SameMode(feci[c], f) /\ SameRegen(ci[c], k)
      BY <1>1, <1>3, <2>5, RefsOK DEF SameMode, DriverOK, Mode
    <3>2. e.pc \in Neutral /\ ctx[x].pc \in Neutral
      BY <1>2, <2>3 DEF Neutral, Pcs
    <3> QED  BY <1>1, <1>2, <2>1, <2>3, <2>4, <3>1, <3>2, NeutralStep DEF TypeOK, counts
  <2>6. CASE Mode(c) = "DECEL" /\ f.accel_mode = "FAIL_DEFUNCT"
    <3> HIDE DEF f
    <3>1. DriverOK(f) /\ ~f.flush_happened /\ ~feci[c].flush_happened /\ RegenOK(k)
      BY <1>1, <1>3, <2>6 DEF ConnInv, Bounded, DriverOK, FlushBalance, Mode
    <3>2. Failed("FAIL_DEFUNCT") /\ ~Failed("DECEL")
      BY DEF Failed, FailModes
    <3>3. Agrees(x, c, e, f, k, 0, 0, 0)
      BY <1>2, <2>3, <2>4, <2>6, <3>1, <3>2 DEF Agrees, OneIf
    <3> QED  BY <1>1, <1>2, <1>3, <2>1, <2>3, <3>3, QuietStep DEF TypeOK, counts
  <2>7. f.accel_mode = Mode(c) \/ (Mode(c) = "DECEL" /\ f.accel_mode = "FAIL_DEFUNCT")
    <3> HIDE DEF f
    <3> QED  BY <1>3, <1>5
  <2> QED  BY <2>5, <2>6, <2>7
<1> QED  BY <1>4, <1>5
(* decelerate_msg_send() returns to a caller that is done, or that has the *)
(* last reference to look after.                                           *)
LEMMA SendReturnsOK ==
  ASSUME NEW x \in Contexts, TypeOK, CtxInv(x), ctx[x].pc \in {"send", "unpend"},
         NEW ret \in BOOLEAN, SendReturns(x, ret)
  PROVE  \E e \in CtxType :
           /\ ctx' = [ctx EXCEPT ![x] = e] /\ ReasonOK(x, e)
           /\ e = Idle \/ (e # Idle /\ e.c = Conn(x) /\ e.pc = "last")
<1>1. CASE ctx[x].op = "decel"
  <2> DEFINE e == Idle
  <2>1. e \in CtxType /\ ReasonOK(x, e) /\ e = Idle
    BY IdleType DEF ReasonOK
  <2>2. ctx' = [ctx EXCEPT ![x] = e]
    BY <1>1 DEF SendReturns, Leave
  <2> HIDE DEF e
  <2> QED  BY <2>1, <2>2
<1>2. CASE ctx[x].op # "decel"
  <2> DEFINE e == [ctx[x] EXCEPT !.pc = "last", !.release = ret]
  <2>1. ctx[x] \in CtxType
    BY DEF TypeOK, CtxType
  <2>2. e \in CtxType /\ e.pc = "last" /\ e.c = Conn(x) /\ e.op = ctx[x].op /\ e # Idle
    BY <2>1, LastType DEF Conn
  <2>3. ctx' = [ctx EXCEPT ![x] = e]
    BY <1>2 DEF SendReturns, TypeOK
  <2> HIDE DEF e
  <2>4. ReasonOK(x, e)
    BY <1>2, <2>1, <2>2 DEF ReasonOK, CtxInv, CtxType, Ops
  <2> QED  BY <2>2, <2>3, <2>4
<1> QED  BY <1>1, <1>2

(* DestroyGivenUp preserves the invariant. *)
LEMMA DestroyGivenUpStep ==
  ASSUME IndInv, NEW x \in Contexts, NEW c \in Conns, c = Conn(x), DestroyGivenUp(x)
  PROVE  IndInv'
<1> DEFINE f == [feci[c] EXCEPT !.driver_fail = DriverFailLimit, !.accel_mode = "FAIL_DRIVER"]
           k == Deref(ci[c], OwnAfterSend(x))
<1>1. /\ TypeOK /\ ConnInv(c) /\ CtxInv(x) /\ feci[c] \in FeciType /\ ci[c] \in CiType
  BY Known
<1>2. ctx[x].pc = "send" /\ At(x, "send") /\ SendReturns(x, TRUE)
  BY DEF DestroyGivenUp, At
<1>3. /\ feci' = [feci EXCEPT ![c] = f] /\ ci' = [ci EXCEPT ![c] = k]
      /\ UNCHANGED <<cmds, host, rule, counts>>
  BY <1>1 DEF DestroyGivenUp, nss, TypeOK
<1>4. PICK e \in CtxType :
        /\ ctx' = [ctx EXCEPT ![x] = e] /\ ReasonOK(x, e)
        /\ e = Idle \/ (e # Idle /\ e.c = Conn(x) /\ e.pc = "last")
  BY <1>1, <1>2, SendReturnsOK
<1>5. SameRegen(ci[c], k)
  <2>1. OwnAfterSend(x) \in Int
    BY DEF OwnAfterSend, Own
  <2> QED  BY <1>1, <2>1, RefsOK
<1>6. Mode(c) = "DECEL_PENDING"
  BY <1>2, Owners
<1>7. "FAIL_DRIVER" \in Modes /\ DriverFailLimit \in 0..DriverFailLimit
  BY LimitAssumption DEF Modes, FailModes
<1>8. /\ f \in FeciType /\ f.accel_mode = "FAIL_DRIVER" /\ DriverOK(f)
      /\ f.flush_happened = feci[c].flush_happened
  BY <1>1, <1>7 DEF FeciType, DriverOK
<1>9. ~feci[c].flush_happened /\ ~f.flush_happened
  BY <1>1, <1>6, <1>8 DEF ConnInv, FlushBalance
<1> HIDE DEF f, k
<1>10. k \in CiType /\ RegenOK(k) /\ k.regen_in_progress = ci[c].regen_in_progress /\ k.added
  BY <1>1, <1>2, <1>5 DEF SameRegen, ConnInv, Bounded, CtxInv, At, Conn
<1>11. (e.pc = "idle" \/ e.c = c) /\ e.pc \in {"idle", "last"}
  BY <1>4, IdleType
<1>12. Failed("FAIL_DRIVER") /\ ~Failed("DECEL_PENDING")
  BY DEF Failed, FailModes
<1>13. Agrees(x, c, e, f, k, 0, 0, 0)
  BY <1>2, <1>4, <1>6, <1>8, <1>9, <1>10, <1>11, <1>12 DEF Agrees, OneIf
<1> QED  BY <1>1, <1>3, <1>4, <1>8, <1>10, <1>11, <1>13, QuietStep DEF TypeOK, counts

(* DestroyRefused preserves the invariant. *)
LEMMA DestroyRefusedStep ==
  ASSUME IndInv, NEW x \in Contexts, NEW c \in Conns, c = Conn(x), DestroyRefused(x)
  PROVE  IndInv'
<1> DEFINE n == feci[c].driver_fail + 1
           f == [feci[c] EXCEPT !.driver_fail = n, !.accel_mode = "ACCEL",
                                !.is_defunct = FALSE, !.destroy_fail_handle_pending = TRUE]
           k == Ref(ci[c])
           e == [ctx[x] EXCEPT !.pc = "rearm"]
<1>1. /\ TypeOK /\ ConnInv(c) /\ CtxInv(x) /\ feci[c] \in FeciType /\ ci[c] \in CiType
      /\ ctx[x] \in CtxType
  BY Known
<1>2. ctx[x].pc = "send" /\ At(x, "send") /\ n < DriverFailLimit
  BY DEF DestroyRefused, At
<1>3. /\ feci' = [feci EXCEPT ![c] = f] /\ ci' = [ci EXCEPT ![c] = k]
      /\ ctx' = [ctx EXCEPT ![x] = e] /\ UNCHANGED <<cmds, host, rule>>
      /\ pending_accel_count' \in Int /\ pending_decel_count' \in Int
      /\ accelerated_count' \in Int
  <2>1. feci' = [feci EXCEPT ![c] = f]
    BY <1>1 DEF DestroyRefused, TypeOK
  <2>2. ci' = [ci EXCEPT ![c] = k] /\ ctx' = [ctx EXCEPT ![x] = e]
    BY DEF DestroyRefused, Goto
  <2>3. /\ pending_decel_count' = pending_decel_count + 1
        /\ UNCHANGED <<cmds, host, rule, pending_accel_count, accelerated_count>>
    BY DEF DestroyRefused, nss
  <2> QED  BY <1>1, <2>1, <2>2, <2>3 DEF TypeOK
<1>4. SameRegen(ci[c], k)
  BY <1>1, RefsOK
<1>5. Mode(c) = "DECEL_PENDING"
  BY <1>2, Owners
<1>6. "ACCEL" \in Modes /\ n \in 0..DriverFailLimit /\ n # DriverFailLimit
  BY <1>1, <1>2, LimitAssumption DEF Modes, FeciType
<1> HIDE DEF n
<1>7. /\ f \in FeciType /\ f.accel_mode = "ACCEL" /\ f.driver_fail = n
      /\ f.flush_happened = feci[c].flush_happened
  BY <1>1, <1>6 DEF FeciType
<1>8. ~feci[c].flush_happened /\ ~f.flush_happened
  BY <1>1, <1>5, <1>7 DEF ConnInv, FlushBalance
<1>9. e \in CtxType /\ e.pc = "rearm" /\ e.c = c /\ e.op = ctx[x].op /\ e # Idle
  BY <1>1, MovesType DEF Conn, Pcs
<1> HIDE DEF e, f, k
<1>10. k \in CiType /\ RegenOK(k) /\ k.regen_in_progress = ci[c].regen_in_progress /\ k.added
  BY <1>1, <1>2, <1>4 DEF SameRegen, ConnInv, Bounded, CtxInv, At, Conn
<1>11. ReasonOK(x, e) /\ DriverOK(f)
  BY <1>1, <1>2, <1>6, <1>7, <1>9 DEF ReasonOK, CtxInv, DriverOK
<1>12. ~Failed("ACCEL") /\ ~Failed("DECEL_PENDING")
  BY DEF Failed, FailModes
<1>13. Agrees(x, c, e, f, k, 0, 0, 0)
  BY <1>2, <1>5, <1>7, <1>8, <1>9, <1>10, <1>11, <1>12 DEF Agrees, OneIf
<1> QED  BY <1>3, <1>7, <1>9, <1>10, <1>13, QuietStep

(* Rearm preserves the invariant. *)
LEMMA RearmStep ==
  ASSUME IndInv, NEW x \in Contexts, NEW c \in Conns, c = Conn(x), Rearm(x)
  PROVE  IndInv'
<1> DEFINE e == [ctx[x] EXCEPT !.pc = "unpend"]
           k == [ci[c] EXCEPT !.group = "RETRY"]
<1>1. TypeOK /\ ci[c] \in CiType /\ CtxInv(x) /\ ctx[x] \in CtxType
  BY Known
<1>2. /\ ctx' = [ctx EXCEPT ![x] = e] /\ ci' = [ci EXCEPT ![c] = k] /\ ctx[x].pc = "rearm"
      /\ UNCHANGED <<feci, cmds, host, rule, counts>>
  BY <1>1 DEF Rearm, TypeOK, nss, Goto, At
<1>3. e \in CtxType /\ e.pc = "unpend" /\ e.c = c /\ e.op = ctx[x].op /\ e # Idle
  BY <1>1, MovesType DEF Pcs, Conn
<1>4. SameRegen(ci[c], k)
  BY <1>1, RefsOK
<1> HIDE DEF e, k
<1>5. ReasonOK(x, e) /\ ci[c].added /\ ctx[x].pc \in Neutral /\ e.pc \in Neutral
  BY <1>1, <1>2, <1>3 DEF CtxInv, ReasonOK, At, Conn, Neutral, Pcs
<1> QED  BY <1>1, <1>2, <1>3, <1>4, <1>5, CtxOnlyStep DEF TypeOK, counts

(* FailureHandled preserves the invariant. *)
LEMMA FailureHandledStep ==
  ASSUME IndInv, NEW x \in Contexts, NEW c \in Conns, c = Conn(x), FailureHandled(x)
  PROVE  IndInv'
<1> DEFINE f == [feci[c] EXCEPT !.destroy_fail_handle_pending = FALSE]
           k == Deref(ci[c], 1 + OwnAfterSend(x))
           r == Failed(feci[c].accel_mode)
<1>1. TypeOK /\ CtxInv(x) /\ feci[c] \in FeciType /\ ci[c] \in CiType
  BY Known
<1>2. ctx[x].pc = "unpend" /\ SendReturns(x, r)
  BY DEF FailureHandled, At
<1>3. /\ feci' = [feci EXCEPT ![c] = f] /\ ci' = [ci EXCEPT ![c] = k]
      /\ UNCHANGED <<cmds, host, rule>> /\ pending_accel_count' \in Int
      /\ pending_decel_count' \in Int /\ accelerated_count' \in Int
  BY <1>1 DEF FailureHandled, nss, TypeOK
<1>4. r \in BOOLEAN
  BY DEF Failed
<1> HIDE DEF r
<1>5. PICK e \in CtxType :
        /\ ctx' = [ctx EXCEPT ![x] = e] /\ ReasonOK(x, e)
        /\ e = Idle \/ (e # Idle /\ e.c = Conn(x) /\ e.pc = "last")
  BY <1>1, <1>2, <1>4, SendReturnsOK
<1>6. SameRegen(ci[c], k)
  <2>1. 1 + OwnAfterSend(x) \in Int
    BY DEF OwnAfterSend, Own
  <2> QED  BY <1>1, <2>1, RefsOK
<1>7. SameMode(feci[c], f)
  BY <1>1 DEF SameMode, FeciType, DriverOK
<1>8. ci[c].added /\ ctx[x].pc \in Neutral /\ (e.pc = "last" => e.pc \in Neutral)
  BY <1>1, <1>2 DEF CtxInv, At, Conn, Neutral, Pcs
<1> HIDE DEF f, k
<1> QED  BY <1>3, <1>5, <1>6, <1>7, <1>8, NeutralStep

(* LastRef preserves the invariant. *)
LEMMA LastRefStep ==
  ASSUME IndInv, NEW x \in Contexts, NEW c \in Conns, c = Conn(x), LastRef(x)
  PROVE  IndInv'
<1> DEFINE n == Own(x) + TimerRef(x)
           j == Deref(ci[c], n)
           g == IF ctx[x].release /\ ctx[x].op = "make" THEN "MAX" ELSE ci[c].group
           k == [j EXCEPT !.group = g]
<1>1. TypeOK /\ CtxInv(x) /\ ci[c] \in CiType
  BY Known
<1>2. /\ Leave(x) /\ ci' = [ci EXCEPT ![c] = k] /\ ctx[x].pc = "last"
      /\ UNCHANGED <<feci, cmds, host, rule, counts>>
  <2>1. Leave(x) /\ ctx[x].pc = "last" /\ UNCHANGED <<feci, cmds, host, rule, counts>>
    BY DEF LastRef, nss, At
  <2>2. ci' = [ci EXCEPT ![c] = k]
    BY DEF LastRef
  <2> QED  BY <2>1, <2>2
<1>3. n \in Int
  BY DEF Own, TimerRef
<1> HIDE DEF n
<1>4. SameRegen(ci[c], j)
  BY <1>1, <1>3, RefsOK
<1> HIDE DEF j
<1>5. g \in {"MAX", "DEFAULT", "RETRY"}
  BY <1>1 DEF CiType
<1> HIDE DEF g
<1>6. SameRegen(j, k)
  BY <1>4, <1>5, RefsOK DEF SameRegen
<1> HIDE DEF k
<1>7. SameRegen(ci[c], k)
  BY <1>4, <1>6 DEF SameRegen
<1>8. ci[c].added /\ ctx[x].pc \in Neutral
  BY <1>1, <1>2 DEF CtxInv, At, Conn, Neutral, Pcs
<1> QED  BY <1>1, <1>2, <1>7, <1>8, LeaveStep DEF TypeOK, counts
-----------------------------------------------------------------------------
(* The steps of a sync message *)

(* AccelCeased preserves the invariant. *)
LEMMA AccelCeasedStep ==
  ASSUME IndInv, NEW x \in NssCtx, NEW c \in Conns, c = Conn(x), AccelCeased(x)
  PROVE  IndInv'
<1> DEFINE k == ci[c]
           mode == IF feci[c].no_action_seen >= NoActionLimit THEN "FAIL_NO_ACTION" ELSE "DECEL"
<1>1. x \in Contexts /\ x # TimerCtx
  BY NotTimer
<1>2. /\ TypeOK /\ ConnInv(c) /\ CtxInv(x) /\ feci[c] \in FeciType /\ k \in CiType
      /\ ctx[x] \in CtxType
  BY <1>1, Known
<1>3. /\ ctx[x].pc = "sync" /\ UNCHANGED <<ci, cmds, host, rule, counts>>
      /\ ci' = [ci EXCEPT ![c] = k]
  BY <1>2 DEF AccelCeased, nss, At, TypeOK
<1>4. k.added /\ RegenOK(k) /\ DriverOK(feci[c])
  BY <1>2, <1>3 DEF CtxInv, At, Conn, ConnInv, Bounded
<1>5. ~Failed("ACCEL") /\ ~Failed("DECEL") /\ ~Failed("ACCEL_PENDING") /\ Failed("FAIL_NO_ACTION")
      /\ "DECEL" \in Modes /\ "FAIL_NO_ACTION" \in Modes
  BY DEF Failed, FailModes, Modes
<1>6. ASSUME NEW pc \in {"peek", "ended"}
      PROVE  LET e == [ctx[x] EXCEPT !.pc = pc]
             IN  /\ e \in CtxType /\ e.pc = pc /\ e.c = c /\ e.op = ctx[x].op /\ e # Idle
                 /\ ReasonOK(x, e)
  <2> DEFINE e == [ctx[x] EXCEPT !.pc = pc]
  <2>1. pc \in Pcs \ {"idle"}
    BY DEF Pcs
  <2>2. e \in CtxType /\ e.pc = pc /\ e.c = c /\ e.op = ctx[x].op /\ e # Idle
    BY <1>2, <2>1, MovesType DEF Conn
  <2> HIDE DEF e
  <2>3. ReasonOK(x, e)
    BY <1>1, <1>2, <1>3, <2>2 DEF ReasonOK, CtxInv
  <2> QED  BY <2>2, <2>3 DEF e
<1>7. CASE Mode(c) = "ACCEL_PENDING"
  <2> DEFINE f == [feci[c] EXCEPT !.flush_happened = TRUE]
             e == [ctx[x] EXCEPT !.pc = "peek"]
  <2>1. feci' = [feci EXCEPT ![c] = f] /\ ctx' = [ctx EXCEPT ![x] = e]
    BY <1>2, <1>7 DEF AccelCeased, Goto, Mode, TypeOK
  <2>2. f \in FeciType /\ f.accel_mode = Mode(c) /\ f.flush_happened
        /\ f.driver_fail = feci[c].driver_fail
    BY <1>2 DEF FeciType, Mode
  <2>3. e \in CtxType /\ e.pc = "peek" /\ e.c = c /\ ReasonOK(x, e)
    BY <1>6
  <2> HIDE DEF e, f
  <2>4. DriverOK(f)
    BY <1>4, <2>2 DEF DriverOK, Mode
  <2>5. Agrees(x, c, e, f, k, 0, 0, 0)
    BY <1>3, <1>4, <1>5, <1>7, <2>2, <2>3, <2>4 DEF Agrees, OneIf
  <2> QED  BY <1>1, <1>2, <1>3, <2>1, <2>2, <2>3, <2>5, QuietStep, ZenonT(40) DEF TypeOK, counts
<1>8. CASE Mode(c) = "ACCEL"
  <2> DEFINE f == [feci[c] EXCEPT !.accel_mode = mode]
             e == [ctx[x] EXCEPT !.pc = "ended"]
  <2>1. feci' = [feci EXCEPT ![c] = f] /\ ctx' = [ctx EXCEPT ![x] = e]
    BY <1>2, <1>8 DEF AccelCeased, Goto, Mode, TypeOK
  <2>2. mode \in Modes /\ mode \in {"DECEL", "FAIL_NO_ACTION"}
    BY <1>5
  <2> HIDE DEF mode
  <2>3. f \in FeciType /\ f.accel_mode = mode /\ f.flush_happened = feci[c].flush_happened
        /\ f.driver_fail = feci[c].driver_fail
    BY <1>2, <2>2 DEF FeciType, Mode
  <2>4. e \in CtxType /\ e.pc = "ended" /\ e.c = c /\ ReasonOK(x, e)
    BY <1>6
  <2>5. ~feci[c].flush_happened /\ ~f.flush_happened
    BY <1>2, <1>8, <2>3 DEF ConnInv, FlushBalance
  <2> HIDE DEF e, f
  <2>6. DriverOK(f)
    BY <1>4, <1>8, <2>3 DEF DriverOK, Mode
  <2>7. Agrees(x, c, e, f, k, 0, 0, 0)
    BY <1>3, <1>4, <1>5, <1>8, <2>2, <2>3, <2>4, <2>5, <2>6 DEF Agrees, OneIf
  <2> QED  BY <1>1, <1>2, <1>3, <2>1, <2>3, <2>4, <2>7, QuietStep, ZenonT(40) DEF TypeOK, counts
<1>9. CASE Mode(c) \notin {"ACCEL_PENDING", "ACCEL"}
  <2> DEFINE f == feci[c]
             e == [ctx[x] EXCEPT !.pc = "peek"]
  <2>1. feci' = [feci EXCEPT ![c] = f] /\ ctx' = [ctx EXCEPT ![x] = e]
    BY <1>2, <1>9 DEF AccelCeased, Goto, Mode, TypeOK
  <2>2. e \in CtxType /\ e.pc = "peek" /\ e.c = c /\ ReasonOK(x, e)
    BY <1>6
  <2>3. ~f.flush_happened /\ f.accel_mode = Mode(c)
    BY <1>2, <1>9 DEF ConnInv, FlushBalance, Mode
  <2> HIDE DEF e
  <2>4. Agrees(x, c, e, f, k, 0, 0, 0)
    BY <1>3, <1>4, <1>5, <1>9, <2>2, <2>3 DEF Agrees, OneIf
  <2> QED  BY <1>1, <1>2, <1>3, <2>1, <2>2, <2>4, QuietStep, ZenonT(40) DEF TypeOK, counts
<1> QED  BY <1>7, <1>8, <1>9

(* AccelEnded preserves the invariant. *)
LEMMA AccelEndedStep ==
  ASSUME IndInv, NEW x \in NssCtx, NEW c \in Conns, c = Conn(x), AccelEnded(x)
  PROVE  IndInv'
<1>1. x \in Contexts /\ x # TimerCtx
  BY NotTimer
<1>2. TypeOK /\ CtxInv(x) /\ ci[c] \in CiType /\ ctx[x] \in CtxType
  BY <1>1, Known
<1>3. /\ ctx[x].pc = "ended" /\ UNCHANGED <<feci, cmds, host, rule>>
      /\ pending_accel_count' \in Int /\ pending_decel_count' \in Int
      /\ accelerated_count' \in Int
  BY <1>2 DEF AccelEnded, nss, At, TypeOK
<1>4. ci[c].added /\ ctx[x].pc \in Neutral
  BY <1>2, <1>3 DEF CtxInv, At, Conn, Neutral, Pcs
<1>5. CASE ctx[x].op = "decel"
  <2> DEFINE e == [ctx[x] EXCEPT !.pc = "peek"]
             k == ci[c]
  <2>1. ctx' = [ctx EXCEPT ![x] = e] /\ ci' = [ci EXCEPT ![c] = k]
    BY <1>2, <1>5 DEF AccelEnded, Goto, TypeOK
  <2>2. e \in CtxType /\ e.pc = "peek" /\ e.c = c /\ e.op = ctx[x].op /\ e # Idle
    BY <1>2, MovesType DEF Conn, Pcs
  <2>3. SameRegen(ci[c], k)
    BY <1>2, RefsOK
  <2> HIDE DEF e
  <2>4. ReasonOK(x, e) /\ e.pc \in Neutral
    BY <1>1, <1>2, <1>3, <1>5, <2>2 DEF ReasonOK, CtxInv, Neutral, Pcs
  <2> QED  BY <1>1, <1>3, <1>4, <2>1, <2>2, <2>3, <2>4, CtxOnlyStep
<1>6. CASE ctx[x].op # "decel"
  <2> DEFINE k == Deref(ci[c], Own(x))
  <2>1. Leave(x) /\ ci' = [ci EXCEPT ![c] = k]
    BY <1>6 DEF AccelEnded, Return
  <2>2. Own(x) \in Int
    BY DEF Own
  <2>3. SameRegen(ci[c], k)
    BY <1>2, <2>2, RefsOK
  <2> HIDE DEF k
  <2> QED  BY <1>1, <1>3, <1>4, <2>1, <2>3, LeaveStep
<1> QED  BY <1>5, <1>6

(* RegenPeek preserves the invariant. *)
LEMMA RegenPeekStep ==
  ASSUME IndInv, NEW x \in NssCtx, NEW c \in Conns, c = Conn(x), RegenPeek(x)
  PROVE  IndInv'
<1> DEFINE n == Noticed(ci[c])
<1>1. x \in Contexts /\ x # TimerCtx
  BY NotTimer
<1>2. TypeOK /\ CtxInv(x) /\ ci[c] \in CiType /\ ctx[x] \in CtxType /\ ConnInv(c)
  BY <1>1, Known
<1>3. ctx[x].pc = "peek" /\ UNCHANGED <<feci, cmds, host, rule, counts>>
  BY DEF RegenPeek, nss, At
<1>4. ci[c].added /\ ctx[x].pc \in Neutral /\ ctx[x].op = "decel"
  BY <1>2, <1>3 DEF CtxInv, ReasonOK, At, Conn, Neutral, Pcs
<1>5. SameRegen(ci[c], n)
  BY <1>2, NoticedOK DEF SameRegen, ConnInv, Bounded
<1>6. CASE n.regen_required > 0
  <2> DEFINE e == [ctx[x] EXCEPT !.pc = "decel"]
  <2>1. ctx' = [ctx EXCEPT ![x] = e] /\ ci' = [ci EXCEPT ![c] = n]
    BY <1>2, <1>6 DEF RegenPeek, Goto, TypeOK
  <2>2. e \in CtxType /\ e.pc = "decel" /\ e.c = c /\ e.op = ctx[x].op /\ e # Idle
    BY <1>2, MovesType DEF Conn, Pcs
  <2> HIDE DEF e, n
  <2>3. ReasonOK(x, e) /\ e.pc \in Neutral
    BY <1>1, <1>2, <1>4, <2>2 DEF ReasonOK, CtxInv, Neutral, Pcs
  <2> QED  BY <1>1, <1>2, <1>3, <1>4, <1>5, <2>1, <2>2, <2>3, CtxOnlyStep DEF TypeOK, counts
<1>7. CASE ~(n.regen_required > 0)
  <2> DEFINE k == Deref(n, 1)
  <2>1. Leave(x) /\ ci' = [ci EXCEPT ![c] = k]
    BY <1>7 DEF RegenPeek
  <2> HIDE DEF n
  <2>2. SameRegen(n, k)
    BY <1>5, RefsOK DEF SameRegen
  <2> HIDE DEF k
  <2>3. SameRegen(ci[c], k)
    BY <1>5, <2>2 DEF SameRegen
  <2> QED  BY <1>1, <1>2, <1>3, <1>4, <2>1, <2>3, LeaveStep DEF TypeOK, counts
<1> QED  BY <1>6, <1>7

-----------------------------------------------------------------------------
(* How the numbers of commands and messages change *)

(* A command that is queued, and one that is taken *)
LEMMA CmdsAppended ==
  ASSUME TypeOK, NEW m \in CmdType, cmds' = Append(cmds, m), NEW d \in Conns
  PROVE  /\ CreateCmds(d)' = CreateCmds(d) + OneIf(m.c = d /\ m.type = "create")
         /\ DestroyCmds(d)' = DestroyCmds(d) + OneIf(m.c = d /\ m.type = "destroy")
<1>1. cmds \in Seq(CmdType)
  BY DEF TypeOK
<1>2. ASSUME NEW M  PROVE In(cmds', M) = In(cmds, M) + (IF m \in M THEN 1 ELSE 0)
  BY <1>1, InAppend
<1>3. \A t : m \in CmdOf(d, t) <=> m.c = d /\ m.type = t
  BY DEF CmdOf
<1>4. In(cmds', CmdOf(d, "create")) = In(cmds, CmdOf(d, "create"))
                                       + OneIf(m.c = d /\ m.type = "create")
  BY <1>2, <1>3 DEF OneIf
<1>5. In(cmds', CmdOf(d, "destroy")) = In(cmds, CmdOf(d, "destroy"))
                                        + OneIf(m.c = d /\ m.type = "destroy")
  BY <1>2, <1>3 DEF OneIf
<1> QED  BY <1>4, <1>5 DEF CreateCmds, DestroyCmds, CmdOf

(* The NSS takes a command: one less of its type. *)
LEMMA CmdTaken ==
  ASSUME TypeOK, cmds # <<>>, cmds' = Tail(cmds), NEW m, m = Head(cmds), NEW d \in Conns
  PROVE  /\ CreateCmds(d)' = CreateCmds(d) - OneIf(m.c = d /\ m.type = "create")
         /\ DestroyCmds(d)' = DestroyCmds(d) - OneIf(m.c = d /\ m.type = "destroy")
<1>1. cmds \in Seq(CmdType)
  BY DEF TypeOK
<1>2. m \in CmdType
  BY <1>1
<1>3. ASSUME NEW M  PROVE In(cmds', M) = In(cmds, M) - (IF m \in M THEN 1 ELSE 0)
  BY <1>1, InTail
<1>4. \A t : m \in CmdOf(d, t) <=> m.c = d /\ m.type = t
  BY <1>2 DEF CmdOf
<1>5. In(cmds', CmdOf(d, "create")) = In(cmds, CmdOf(d, "create"))
                                       - OneIf(m.c = d /\ m.type = "create")
  BY <1>3, <1>4 DEF OneIf
<1>6. In(cmds', CmdOf(d, "destroy")) = In(cmds, CmdOf(d, "destroy"))
                                        - OneIf(m.c = d /\ m.type = "destroy")
  BY <1>3, <1>4 DEF OneIf
<1> QED  BY <1>5, <1>6 DEF CreateCmds, DestroyCmds, CmdOf
(* A message that the NSS sends, and one that ECM takes *)
LEMMA MsgKinds ==
  ASSUME NEW m \in HostType, NEW d
  PROVE  /\ \A t : m \in MsgOf(d, t) <=> m.c = d /\ m.type = t
         /\ \A t : m \in AckOf(d, t) <=> m.c = d /\ m.type = t /\ m.ack
  BY DEF MsgOf, AckOf

(* The NSS sends a message: one more of its type. *)
LEMMA MsgAppended ==
  ASSUME TypeOK, NEW m \in HostType, host' = Append(host, m), NEW d \in Conns
  PROVE  /\ Creates(d)' = Creates(d) + OneIf(m.c = d /\ m.type = "create")
         /\ Destroys(d)' = Destroys(d) + OneIf(m.c = d /\ m.type = "destroy")
         /\ Flushes(d)' = Flushes(d) + OneIf(m.c = d /\ m.type = "flush")
         /\ AckedCreates(d)' = AckedCreates(d) + OneIf(m.c = d /\ m.type = "create" /\ m.ack)
         /\ AckedDestroys(d)' = AckedDestroys(d) + OneIf(m.c = d /\ m.type = "destroy" /\ m.ack)
<1>1. host \in Seq(HostType)
  BY DEF TypeOK
<1>2. ASSUME NEW M  PROVE In(host', M) = In(host, M) + (IF m \in M THEN 1 ELSE 0)
  BY <1>1, InAppend
<1>3. ASSUME NEW t
      PROVE  /\ In(host', MsgOf(d, t)) = In(host, MsgOf(d, t)) + OneIf(m.c = d /\ m.type = t)
             /\ In(host', AckOf(d, t)) = In(host, AckOf(d, t))
                                          + OneIf(m.c = d /\ m.type = t /\ m.ack)
  BY <1>2, MsgKinds DEF OneIf
<1> QED
  BY <1>3 DEF Creates, Destroys, Flushes, AckedCreates, AckedDestroys, MsgOf, AckOf

(* What RemoveAt leaves. *)
LEMMA RemoveAtOK ==
  ASSUME NEW S, NEW s \in Seq(S), NEW i \in DOMAIN s
  PROVE  /\ RemoveAt(s, i) \in Seq(S) /\ Len(RemoveAt(s, i)) = Len(s) - 1
         /\ \A j \in DOMAIN RemoveAt(s, i) : RemoveAt(s, i)[j] = IF j < i THEN s[j] ELSE s[j + 1]
<1> DEFINE a == SubSeq(s, 1, i - 1)
           b == SubSeq(s, i + 1, Len(s))
<1>1. i \in 1..Len(s) /\ Len(s) \in Nat
  OBVIOUS
<1>2. /\ a \in Seq(S) /\ Len(a) = i - 1 /\ \A j \in 1..(i - 1) : a[j] = s[j]
  BY <1>1
<1>3. /\ b \in Seq(S) /\ Len(b) = Len(s) - i /\ \A j \in 1..(Len(s) - i) : b[j] = s[i + j]
  BY <1>1
<1> HIDE DEF a, b
<1>4. /\ a \o b \in Seq(S) /\ Len(a \o b) = Len(s) - 1 /\ DOMAIN (a \o b) = 1..(Len(s) - 1)
      /\ \A j \in 1..(Len(s) - 1) : (a \o b)[j] = IF j < i THEN s[j] ELSE s[j + 1]
  BY <1>1, <1>2, <1>3
<1>5. RemoveAt(s, i) = a \o b
  BY DEF RemoveAt, a, b
<1> DEFINE r == a \o b
<1> HIDE DEF r
<1> QED  BY <1>4, <1>5 DEF r

(* RemoveAt takes one entry away. *)
LEMMA InRemoveAt ==
  ASSUME NEW S, NEW s \in Seq(S), NEW i \in DOMAIN s, NEW M
  PROVE  In(RemoveAt(s, i), M) = In(s, M) - (IF s[i] \in M THEN 1 ELSE 0)
<1> DEFINE r == RemoveAt(s, i)
<1>1. /\ r \in Seq(S) /\ Len(r) = Len(s) - 1
      /\ \A j \in DOMAIN r : r[j] = IF j < i THEN s[j] ELSE s[j + 1]
  BY RemoveAtOK
<1> HIDE DEF r
<1>2. In(r, M) = In(s, M) - (IF s[i] \in M THEN 1 ELSE 0)
  BY <1>1, InWithout
<1> QED  BY <1>2 DEF r

(* A message is handled: one less of its type. *)
LEMMA MsgTaken ==
  ASSUME TypeOK, NEW i \in DOMAIN host, host' = RemoveAt(host, i), NEW m, m = host[i],
         NEW d \in Conns
  PROVE  /\ m \in HostType /\ host' \in Seq(HostType)
         /\ Creates(d)' = Creates(d) - OneIf(m.c = d /\ m.type = "create")
         /\ Destroys(d)' = Destroys(d) - OneIf(m.c = d /\ m.type = "destroy")
         /\ Flushes(d)' = Flushes(d) - OneIf(m.c = d /\ m.type = "flush")
         /\ AckedCreates(d)' = AckedCreates(d) - OneIf(m.c = d /\ m.type = "create" /\ m.ack)
         /\ AckedDestroys(d)' = AckedDestroys(d) - OneIf(m.c = d /\ m.type = "destroy" /\ m.ack)
<1>1. host \in Seq(HostType)
  BY DEF TypeOK
<1>2. m \in HostType
  BY <1>1
<1>3. host' \in Seq(HostType)
  BY <1>1, RemoveAtOK
<1>4. ASSUME NEW M  PROVE In(host', M) = In(host, M) - (IF m \in M THEN 1 ELSE 0)
  BY <1>1, InRemoveAt
<1>5. ASSUME NEW t
      PROVE  /\ In(host', MsgOf(d, t)) = In(host, MsgOf(d, t)) - OneIf(m.c = d /\ m.type = t)
             /\ In(host', AckOf(d, t)) = In(host, AckOf(d, t))
                                          - OneIf(m.c = d /\ m.type = t /\ m.ack)
  <2>1. /\ m \in MsgOf(d, t) <=> m.c = d /\ m.type = t
        /\ m \in AckOf(d, t) <=> m.c = d /\ m.type = t /\ m.ack
    BY <1>2, MsgKinds
  <2>2. In(host', MsgOf(d, t)) = In(host, MsgOf(d, t)) - OneIf(m.c = d /\ m.type = t)
    BY <1>4, <2>1 DEF OneIf
  <2>3. In(host', AckOf(d, t)) = In(host, AckOf(d, t)) - OneIf(m.c = d /\ m.type = t /\ m.ack)
    BY <1>4, <2>1 DEF OneIf
  <2> QED  BY <2>2, <2>3
<1> QED
  BY <1>2, <1>3, <1>5 DEF Creates, Destroys, Flushes, AckedCreates, AckedDestroys, MsgOf, AckOf

(* Without commands, without messages *)
LEMMA CmdsKept ==
  ASSUME UNCHANGED cmds, NEW d
  PROVE  CreateCmds(d)' = CreateCmds(d) /\ DestroyCmds(d)' = DestroyCmds(d)
  BY DEF CreateCmds, DestroyCmds

(* No message is sent to the host or handled. *)
LEMMA HostKept ==
  ASSUME UNCHANGED host, NEW d
  PROVE  /\ Creates(d)' = Creates(d) /\ Destroys(d)' = Destroys(d) /\ Flushes(d)' = Flushes(d)
         /\ AckedCreates(d)' = AckedCreates(d) /\ AckedDestroys(d)' = AckedDestroys(d)
  BY DEF Creates, Destroys, Flushes, AckedCreates, AckedDestroys

(* A response is the only owner of the mode it answers, and a create that  *)
(* was refused leaves no flush on record.                                  *)
LEMMA Answers ==
  ASSUME IndInv, NEW i \in DOMAIN host, NEW m, m = host[i], NEW c, c = m.c
  PROVE  /\ m \in HostType /\ c \in Conns
         /\ m.type = "create" => Mode(c) = "ACCEL_PENDING"
         /\ m.type = "create" /\ ~m.ack => ~feci[c].flush_happened
         /\ m.type = "destroy" => Mode(c) = "DECEL_PENDING"
<1>1. TypeOK /\ host \in Seq(HostType)
  BY DEF IndInv, TypeOK
<1>2. m \in HostType /\ c \in Conns
  <2>1. m \in HostType
    BY <1>1
  <2> QED  BY <2>1 DEF HostType
<1>3. ConnInv(c) /\ feci[c] \in FeciType
  BY <1>2, NotTimer, Known
<1>4. /\ Building(c) \in Nat /\ CreateCmds(c) \in Nat /\ Creates(c) \in Nat
      /\ Sending(c) \in Nat /\ DestroyCmds(c) \in Nat /\ Destroys(c) \in Nat
      /\ Flushes(c) \in Nat /\ Syncing(c) \in Nat /\ AckedDestroys(c) \in Nat
      /\ AckedCreates(c) \in Nat
  BY <1>1, <1>2, CountTypes
<1>5. ASSUME m.type = "create"
      PROVE  Mode(c) = "ACCEL_PENDING" /\ (~m.ack => ~feci[c].flush_happened)
  <2>1. Creates(c) > 0
    BY <1>1, <1>2, <1>5, MsgKinds, InPositive DEF Creates
  <2>2. Building(c) + CreateCmds(c) + Creates(c) = IF Mode(c) = "ACCEL_PENDING" THEN 1 ELSE 0
    BY <1>3 DEF ConnInv, PendingOwned, OneIf
  <2>3. Mode(c) = "ACCEL_PENDING" /\ Creates(c) = 1
    BY <1>4, <2>1, <2>2
  <2>4. ASSUME ~m.ack  PROVE ~feci[c].flush_happened
    <3> DEFINE r == RemoveAt(host, i)
    <3>1. r \in Seq(HostType)
      BY <1>1, RemoveAtOK
    <3>2. ASSUME NEW M  PROVE In(r, M) = In(host, M) - (IF m \in M THEN 1 ELSE 0)
      BY <1>1, InRemoveAt
    <3> HIDE DEF r
    <3>3. /\ In(r, MsgOf(c, "create")) = In(host, MsgOf(c, "create")) - 1
          /\ In(r, AckOf(c, "create")) = In(host, AckOf(c, "create")) - 0
      BY <1>2, <1>5, <2>4, <3>2, MsgKinds
    <3>4. In(r, AckOf(c, "create")) <= In(r, MsgOf(c, "create"))
      BY <3>1, InSubset DEF AckOf
    <3>5. AckedCreates(c) = 0
      BY <1>4, <2>3, <3>3, <3>4 DEF Creates, AckedCreates
    <3> QED  BY <1>3, <1>4, <2>3, <3>5 DEF ConnInv, FlushBalance, OneIf, Failed, FailModes
  <2> QED  BY <2>3, <2>4
<1>6. ASSUME m.type = "destroy"  PROVE Mode(c) = "DECEL_PENDING"
  <2>1. Destroys(c) > 0
    BY <1>1, <1>2, <1>6, MsgKinds, InPositive DEF Destroys
  <2>2. Sending(c) + DestroyCmds(c) + Destroys(c) = IF Mode(c) = "DECEL_PENDING" THEN 1 ELSE 0
    BY <1>3 DEF ConnInv, PendingOwned, OneIf
  <2> QED  BY <1>4, <2>1, <2>2
<1> QED  BY <1>2, <1>5, <1>6
-----------------------------------------------------------------------------
(* The steps that send or receive *)

(* Steps that send or handle a message of one connection. *)
LEMMA MessageStep ==
  ASSUME IndInv, NEW x \in Contexts, NEW c \in Conns,
         NEW e \in CtxType, NEW f \in FeciType, NEW k \in CiType,
         ctx' = [ctx EXCEPT ![x] = e], feci' = [feci EXCEPT ![c] = f],
         ci' = [ci EXCEPT ![c] = k], UNCHANGED rule,
         cmds' \in Seq(CmdType), host' \in Seq(HostType),
         pending_accel_count' \in Int, pending_decel_count' \in Int,
         accelerated_count' \in Int,
         At(x, "idle") \/ Conn(x) = c, e.pc = "idle" \/ e.c = c,
         \A d \in Conns \ {c} : MsgsKept(d), Destroys(c)' <= Destroys(c),
         Agrees(x, c, e, f, k, MoreCreates(c), MoreDestroys(c), MoreEnds(c))
  PROVE  IndInv'
<1>1. TypeOK /\ ConnInv(c)
  BY DEF IndInv
<1>2. /\ ctx'[x] = e /\ feci'[c] = f /\ ci'[c] = k
      /\ \A y \in Contexts \ {x} : ctx'[y] = ctx[y]
      /\ \A d \in Conns \ {c} : feci'[d] = feci[d] /\ ci'[d] = ci[d] /\ rule'[d] = rule[d]
  BY <1>1 DEF TypeOK
<1>3. TypeOK'
  <2>1. feci' \in [Conns -> FeciType] /\ ci' \in [Conns -> CiType]
    BY <1>1 DEF TypeOK
  <2>2. ctx' \in [Contexts -> CtxType]
    BY <1>1 DEF TypeOK, CtxType
  <2> QED  BY <1>1, <2>1, <2>2 DEF TypeOK, CtxType
<1>4. LocalTo(x, c)
  BY <1>2 DEF LocalTo
<1>5. Destroys(c)' > 0 => rule'[c] = NoRule
  <2>1. Destroys(c) \in Nat /\ (Destroys(c) > 0 => rule[c] = NoRule)
    BY <1>1, CountTypes DEF ConnInv, FlushBalance
  <2>2. Destroys(c)' \in Nat
    BY InType DEF Destroys, MsgOf
  <2> QED  BY <2>1, <2>2
<1> QED  BY <1>2, <1>3, <1>4, <1>5, LocalStep

(* A command of c is queued. *)
LEMMA CmdSent ==
  ASSUME TypeOK, NEW c \in Conns, NEW m \in CmdType, m.c = c, cmds' = Append(cmds, m),
         UNCHANGED <<host, rule>>
  PROVE  /\ cmds' \in Seq(CmdType) /\ host' \in Seq(HostType)
         /\ \A d \in Conns \ {c} : MsgsKept(d)
         /\ Destroys(c)' <= Destroys(c)
         /\ m.type = "create" => MoreCreates(c) = 1 /\ MoreDestroys(c) = 0
         /\ m.type = "destroy" => MoreCreates(c) = 0 /\ MoreDestroys(c) = 1
         /\ MoreEnds(c) = 0
<1>1. cmds' \in Seq(CmdType) /\ host' \in Seq(HostType)
  BY DEF TypeOK
<1>2. ASSUME NEW d \in Conns
      PROVE  /\ CreateCmds(d) \in Nat /\ DestroyCmds(d) \in Nat
             /\ Creates(d) \in Nat /\ Destroys(d) \in Nat /\ Flushes(d) \in Nat
             /\ AckedCreates(d) \in Nat /\ AckedDestroys(d) \in Nat
             /\ Creates(d)' = Creates(d) /\ Destroys(d)' = Destroys(d)
             /\ Flushes(d)' = Flushes(d)
             /\ AckedCreates(d)' = AckedCreates(d) /\ AckedDestroys(d)' = AckedDestroys(d)
             /\ CreateCmds(d)' = CreateCmds(d) + OneIf(m.c = d /\ m.type = "create")
             /\ DestroyCmds(d)' = DestroyCmds(d) + OneIf(m.c = d /\ m.type = "destroy")
  BY CountTypes, HostKept, CmdsAppended
<1>3. ASSUME NEW d \in Conns \ {c}  PROVE MsgsKept(d)
  <2>1. OneIf(m.c = d /\ m.type = "create") = 0 /\ OneIf(m.c = d /\ m.type = "destroy") = 0
    BY DEF OneIf
  <2> QED  BY <1>2, <2>1 DEF MsgsKept
<1>4. /\ m.type = "create" => MoreCreates(c) = 1 /\ MoreDestroys(c) = 0
      /\ m.type = "destroy" => MoreCreates(c) = 0 /\ MoreDestroys(c) = 1
  BY <1>2 DEF MoreCreates, MoreDestroys, OneIf
<1>5. MoreEnds(c) = 0 /\ Destroys(c)' <= Destroys(c)
  BY <1>2 DEF MoreEnds, OneIf
<1> QED  BY <1>1, <1>3, <1>4, <1>5

(* A message of c is taken. *)
LEMMA MsgReceived ==
  ASSUME TypeOK, NEW i \in DOMAIN host, NEW c \in Conns, NEW m, m = host[i], m.c = c,
         host' = RemoveAt(host, i), UNCHANGED <<cmds, rule>>
  PROVE  /\ cmds' \in Seq(CmdType) /\ host' \in Seq(HostType)
         /\ \A d \in Conns \ {c} : MsgsKept(d)
         /\ Destroys(c)' <= Destroys(c)
         /\ MoreCreates(c) = 0 - OneIf(m.type = "create")
         /\ MoreDestroys(c) = 0 - OneIf(m.type = "destroy")
         /\ MoreEnds(c) = OneIf(m.type = "create" /\ m.ack) - OneIf(m.type = "flush")
                           - OneIf(m.type = "destroy" /\ m.ack)
<1>1. cmds' \in Seq(CmdType) /\ host' \in Seq(HostType)
  BY MsgTaken DEF TypeOK
<1>2. ASSUME NEW d \in Conns
      PROVE  /\ CreateCmds(d) \in Nat /\ DestroyCmds(d) \in Nat
             /\ Creates(d) \in Nat /\ Destroys(d) \in Nat /\ Flushes(d) \in Nat
             /\ AckedCreates(d) \in Nat /\ AckedDestroys(d) \in Nat
             /\ CreateCmds(d)' = CreateCmds(d) /\ DestroyCmds(d)' = DestroyCmds(d)
             /\ Creates(d)' = Creates(d) - OneIf(m.c = d /\ m.type = "create")
             /\ Destroys(d)' = Destroys(d) - OneIf(m.c = d /\ m.type = "destroy")
             /\ Flushes(d)' = Flushes(d) - OneIf(m.c = d /\ m.type = "flush")
             /\ AckedCreates(d)' = AckedCreates(d) - OneIf(m.c = d /\ m.type = "create" /\ m.ack)
             /\ AckedDestroys(d)' = AckedDestroys(d)
                                     - OneIf(m.c = d /\ m.type = "destroy" /\ m.ack)
  BY CountTypes, CmdsKept, MsgTaken, ZenonT(40)
<1>3. ASSUME NEW d \in Conns \ {c}  PROVE MsgsKept(d)
  <2>1. /\ OneIf(m.c = d /\ m.type = "create") = 0 /\ OneIf(m.c = d /\ m.type = "destroy") = 0
        /\ OneIf(m.c = d /\ m.type = "flush") = 0
        /\ OneIf(m.c = d /\ m.type = "create" /\ m.ack) = 0
        /\ OneIf(m.c = d /\ m.type = "destroy" /\ m.ack) = 0
    BY DEF OneIf
  <2> QED  BY <1>2, <2>1 DEF MsgsKept
<1>4. Destroys(c)' <= Destroys(c)
  BY <1>2 DEF OneIf
<1>5. /\ MoreCreates(c) = 0 - OneIf(m.type = "create")
      /\ MoreDestroys(c) = 0 - OneIf(m.type = "destroy")
  BY <1>2 DEF MoreCreates, MoreDestroys, OneIf
<1>6. MoreEnds(c) = OneIf(m.type = "create" /\ m.ack) - OneIf(m.type = "flush")
                     - OneIf(m.type = "destroy" /\ m.ack)
  <2>1. /\ Flushes(c)' = Flushes(c) - OneIf(m.type = "flush")
        /\ AckedCreates(c)' = AckedCreates(c) - OneIf(m.type = "create" /\ m.ack)
        /\ AckedDestroys(c)' = AckedDestroys(c) - OneIf(m.type = "destroy" /\ m.ack)
    BY <1>2 DEF OneIf
  <2>2. \A b : OneIf(b) \in Int
    BY DEF OneIf
  <2> QED  BY <1>2, <2>1, <2>2 DEF MoreEnds
<1> QED  BY <1>1, <1>3, <1>4, <1>5, <1>6

(* CreateSent preserves the invariant. *)
LEMMA CreateSentStep ==
  ASSUME IndInv, NEW x \in PacketCtx, NEW c \in Conns, c = Conn(x), CreateSent(x)
  PROVE  IndInv'
<1> DEFINE m == [type |-> "create", c |-> c, gen |-> ctx[x].gen]
           e == Idle
           f == [feci[c] EXCEPT !.driver_fail = 0]
           k == Deref(ci[c], Own(x))
<1>1. x \in Contexts
  BY NotTimer
<1>2. /\ TypeOK /\ ConnInv(c) /\ CtxInv(x) /\ feci[c] \in FeciType /\ ci[c] \in CiType
      /\ ctx[x] \in CtxType
  BY <1>1, Known
<1>3. /\ cmds' = Append(cmds, m) /\ feci' = [feci EXCEPT ![c] = f]
      /\ ci' = [ci EXCEPT ![c] = k] /\ ctx' = [ctx EXCEPT ![x] = e] /\ ctx[x].pc = "tx"
      /\ UNCHANGED <<host, rule, counts>>
  BY <1>2 DEF CreateSent, Return, Leave, At, TypeOK
<1>4. m \in CmdType /\ m.c = c /\ m.type = "create"
  BY <1>2 DEF CmdType, CtxType
<1>5. SameRegen(ci[c], k)
  <2>1. Own(x) \in Int
    BY DEF Own
  <2> QED  BY <1>2, <2>1, RefsOK
<1>6. /\ f \in FeciType /\ f.accel_mode = Mode(c) /\ f.flush_happened = feci[c].flush_happened
      /\ DriverOK(f)
  BY <1>2, LimitAssumption DEF FeciType, Mode, DriverOK
<1>7. Mode(c) = "ACCEL_PENDING"
  BY <1>1, <1>3, Owners
<1>8. e \in CtxType /\ ReasonOK(x, e) /\ e.pc = "idle"
  BY IdleType DEF ReasonOK
<1> HIDE DEF m, e, f, k
<1>9. k \in CiType /\ RegenOK(k) /\ k.regen_in_progress = ci[c].regen_in_progress /\ k.added
  BY <1>2, <1>3, <1>5 DEF SameRegen, ConnInv, Bounded, CtxInv, At, Conn
<1>10. /\ cmds' \in Seq(CmdType) /\ host' \in Seq(HostType)
       /\ \A d \in Conns \ {c} : MsgsKept(d)
       /\ Destroys(c)' <= Destroys(c)
       /\ MoreCreates(c) = 1 /\ MoreDestroys(c) = 0 /\ MoreEnds(c) = 0
  BY <1>2, <1>3, <1>4, CmdSent
<1>11. Agrees(x, c, e, f, k, 1, 0, 0)
  BY <1>3, <1>6, <1>7, <1>8, <1>9 DEF Agrees, OneIf
<1> QED  BY <1>1, <1>2, <1>3, <1>6, <1>8, <1>9, <1>10, <1>11, MessageStep DEF TypeOK, counts

(* DestroySent preserves the invariant. *)
LEMMA DestroySentStep ==
  ASSUME IndInv, NEW x \in Contexts, NEW c \in Conns, c = Conn(x), DestroySent(x)
  PROVE  IndInv'
<1> DEFINE m == [type |-> "destroy", c |-> c, gen |-> 0]
           f == [feci[c] EXCEPT !.driver_fail = 0]
           j == Ref(ci[c])
           k == Deref(j, OwnAfterSend(x))
<1>1. /\ TypeOK /\ ConnInv(c) /\ CtxInv(x) /\ feci[c] \in FeciType /\ ci[c] \in CiType
      /\ ctx[x] \in CtxType
  BY Known
<1>2. ctx[x].pc = "send" /\ At(x, "send") /\ SendReturns(x, TRUE)
  BY DEF DestroySent, At
<1>3. /\ cmds' = Append(cmds, m) /\ feci' = [feci EXCEPT ![c] = f]
      /\ ci' = [ci EXCEPT ![c] = k] /\ UNCHANGED <<host, rule>>
      /\ pending_accel_count' \in Int /\ pending_decel_count' \in Int
      /\ accelerated_count' \in Int
  BY <1>1 DEF DestroySent, TypeOK
<1>4. m \in CmdType /\ m.c = c /\ m.type = "destroy"
  BY BoundAssumption DEF CmdType
<1>5. SameRegen(ci[c], k)
  <2>1. OwnAfterSend(x) \in Int
    BY DEF OwnAfterSend, Own
  <2>2. SameRegen(ci[c], j)
    BY <1>1, RefsOK
  <2> HIDE DEF j
  <2>3. SameRegen(j, k)
    BY <2>1, <2>2, RefsOK DEF SameRegen
  <2> HIDE DEF k
  <2> QED  BY <2>2, <2>3 DEF SameRegen
<1>6. /\ f \in FeciType /\ f.accel_mode = Mode(c) /\ f.flush_happened = feci[c].flush_happened
      /\ DriverOK(f)
  BY <1>1, LimitAssumption DEF FeciType, Mode, DriverOK
<1>7. Mode(c) = "DECEL_PENDING" /\ ~feci[c].flush_happened
  BY <1>1, <1>2, Owners DEF ConnInv, FlushBalance
<1>8. PICK e \in CtxType :
        /\ ctx' = [ctx EXCEPT ![x] = e] /\ ReasonOK(x, e)
        /\ e = Idle \/ (e # Idle /\ e.c = Conn(x) /\ e.pc = "last")
  BY <1>1, <1>2, SendReturnsOK
<1>9. (e.pc = "idle" \/ e.c = c) /\ e.pc \in {"idle", "last"}
  BY <1>8, IdleType
<1> HIDE DEF m, f, k
<1>10. k \in CiType /\ RegenOK(k) /\ k.regen_in_progress = ci[c].regen_in_progress /\ k.added
  BY <1>1, <1>2, <1>5 DEF SameRegen, ConnInv, Bounded, CtxInv, At, Conn
<1>11. /\ cmds' \in Seq(CmdType) /\ host' \in Seq(HostType)
       /\ \A d \in Conns \ {c} : MsgsKept(d)
       /\ Destroys(c)' <= Destroys(c)
       /\ MoreCreates(c) = 0 /\ MoreDestroys(c) = 1 /\ MoreEnds(c) = 0
  BY <1>1, <1>3, <1>4, CmdSent
<1>12. Agrees(x, c, e, f, k, 0, 1, 0)
  BY <1>2, <1>6, <1>7, <1>8, <1>9, <1>10 DEF Agrees, OneIf
<1> QED  BY <1>3, <1>6, <1>8, <1>9, <1>10, <1>11, <1>12, MessageStep
(* A response to create that ends the acceleration that was pending: it    *)
(* was refused, or the flush on record is taken.                           *)
LEMMA CreateEnds ==
  ASSUME IndInv, NEW x \in Contexts, At(x, "idle"), NEW i \in DOMAIN host,
         NEW c, NEW m, m = host[i], c = m.c, m.type = "create",
         host' = RemoveAt(host, i), UNCHANGED <<ctx, cmds, rule>>,
         NEW f \in FeciType, feci' = [feci EXCEPT ![c] = f],
         ci' = [ci EXCEPT ![c] = Deref(@, 1)],
         pending_accel_count' \in Int, pending_decel_count' \in Int, accelerated_count' \in Int,
         ~f.flush_happened, m.ack => feci[c].flush_happened,
         f.driver_fail = feci[c].driver_fail,
         f.accel_mode \in {"DECEL", "FAIL_DEFUNCT", "FAIL_ACCEL_ENGINE"}
  PROVE  IndInv'
<1> DEFINE e == ctx[x]
           k == Deref(ci[c], 1)
<1>1. m \in HostType /\ c \in Conns /\ Mode(c) = "ACCEL_PENDING"
      /\ (~m.ack => ~feci[c].flush_happened)
  BY Answers
<1>2. /\ TypeOK /\ ConnInv(c) /\ CtxInv(x) /\ feci[c] \in FeciType /\ ci[c] \in CiType
      /\ e \in CtxType
  BY <1>1, Known
<1>3. ctx' = [ctx EXCEPT ![x] = e] /\ ci' = [ci EXCEPT ![c] = k] /\ e.pc = "idle"
  BY <1>2 DEF TypeOK, At
<1>4. SameRegen(ci[c], k)
  BY <1>2, RefsOK
<1>5. /\ cmds' \in Seq(CmdType) /\ host' \in Seq(HostType)
      /\ \A d \in Conns \ {c} : MsgsKept(d)
      /\ Destroys(c)' <= Destroys(c)
      /\ MoreCreates(c) = 0 - OneIf(m.type = "create")
      /\ MoreDestroys(c) = 0 - OneIf(m.type = "destroy")
      /\ MoreEnds(c) = OneIf(m.type = "create" /\ m.ack) - OneIf(m.type = "flush")
                        - OneIf(m.type = "destroy" /\ m.ack)
  BY <1>1, <1>2, MsgReceived
<1>6. MoreCreates(c) = 0 - 1 /\ MoreDestroys(c) = 0 /\ MoreEnds(c) = OneIf(m.ack)
  BY <1>5 DEF OneIf
<1> HIDE DEF k
<1>7. k \in CiType /\ RegenOK(k) /\ k.regen_in_progress = ci[c].regen_in_progress
      /\ k.added = ci[c].added
  BY <1>2, <1>4 DEF SameRegen, ConnInv, Bounded
<1>8. ci[c].added
  BY <1>1, <1>2 DEF ConnInv, Untouched
<1>9. DriverOK(f) /\ ReasonOK(x, e) /\ k.added
  BY <1>1, <1>2, <1>7, <1>8 DEF ConnInv, Bounded, DriverOK, CtxInv, Mode
<1>10. OneIf(m.ack) = OneIf(feci[c].flush_happened) /\ OneIf(f.flush_happened) = 0
       /\ OneIf(m.ack) \in Int
  BY <1>1 DEF OneIf
<1>11. /\ OneIf(Failed(f.accel_mode)) >= 0 /\ OneIf(Failed(f.accel_mode)) \in Int
       /\ OneIf(Failed(Mode(c))) = 0
  BY <1>1 DEF OneIf, Failed, FailModes
<1>12. /\ OneIf(f.accel_mode = "ACCEL_PENDING") = 0 /\ OneIf(f.accel_mode = "DECEL_PENDING") = 0
       /\ OneIf(f.accel_mode \in {"ACCEL", "DECEL_PENDING"}) = 0
       /\ OneIf(Mode(c) = "ACCEL_PENDING") = 1 /\ OneIf(Mode(c) = "DECEL_PENDING") = 0
       /\ OneIf(Mode(c) \in {"ACCEL", "DECEL_PENDING"}) = 0
  BY <1>1 DEF OneIf
<1>13. /\ OneIf(e.pc \in {"build", "tx"}) = 0 /\ OneIf(e.pc = "send") = 0
       /\ OneIf(e.pc = "regen") = 0 /\ OneIf(e.pc = "sync") = 0
       /\ OneIf(k.regen_in_progress) = OneIf(ci[c].regen_in_progress)
       /\ OneIf(ci[c].regen_in_progress) \in Int
  BY <1>3, <1>7 DEF OneIf
<1>14. Agrees(x, c, e, f, k, 0 - 1, 0, OneIf(m.ack))
  BY <1>7, <1>9, <1>10, <1>11, <1>12, <1>13 DEF Agrees
<1>15. Agrees(x, c, e, f, k, MoreCreates(c), MoreDestroys(c), MoreEnds(c))
  BY <1>6, <1>14
<1>16. At(x, "idle") \/ Conn(x) = c
  OBVIOUS
<1>17. UNCHANGED rule /\ feci' = [feci EXCEPT ![c] = f]
  OBVIOUS
<1>18. e \in CtxType /\ k \in CiType /\ c \in Conns /\ (e.pc = "idle" \/ e.c = c)
  BY <1>1, <1>2, <1>3, <1>7
<1> HIDE DEF e
<1> QED
  BY ONLY IndInv, x \in Contexts, f \in FeciType, pending_accel_count' \in Int,
          pending_decel_count' \in Int, accelerated_count' \in Int,
          <1>3, <1>5, <1>15, <1>16, <1>17, <1>18, MessageStep

(* CreateNacked preserves the invariant. *)
LEMMA CreateNackedStep ==
  ASSUME IndInv, NEW x \in NssCtx, NEW i \in DOMAIN host, CreateNacked(x, i)
  PROVE  IndInv'
<1> DEFINE m == host[i]
           c == m.c
           nacks == feci[c].ae_nack + 1
           mode == IF feci[c].is_defunct THEN "FAIL_DEFUNCT"
                   ELSE IF nacks >= NackLimit THEN "FAIL_ACCEL_ENGINE" ELSE "DECEL"
           g == PendingCleared(feci[c], mode)
           f == [g EXCEPT !.ae_nack = AtMost(nacks, NackLimit)]
<1>1. x \in Contexts
  BY NotTimer
<1>2. /\ At(x, "idle") /\ m.type = "create" /\ ~m.ack /\ host' = RemoveAt(host, i)
      /\ feci' = [feci EXCEPT ![c] = f] /\ ci' = [ci EXCEPT ![c] = Deref(@, 1)]
      /\ pending_accel_count' = pending_accel_count - 1
      /\ UNCHANGED <<ctx, cmds, rule, pending_decel_count, accelerated_count>>
  BY DEF CreateNacked
<1>3. c \in Conns /\ ~feci[c].flush_happened
  <2> HIDE DEF c, m
  <2> QED  BY <1>2, Answers DEF c, m
<1>4. TypeOK /\ feci[c] \in FeciType
  BY <1>1, <1>3, Known
<1> HIDE DEF c, m
<1>5. mode \in Modes /\ mode \in {"DECEL", "FAIL_DEFUNCT", "FAIL_ACCEL_ENGINE"}
  BY DEF Modes, FailModes
<1>6. AtMost(nacks, NackLimit) \in 0..NackLimit
  BY <1>4, LimitAssumption DEF AtMost, FeciType
<1> HIDE DEF nacks, mode
<1>7. /\ g \in FeciType /\ g.accel_mode = mode /\ g.flush_happened = feci[c].flush_happened
      /\ g.driver_fail = feci[c].driver_fail
  BY <1>4, <1>5, PendingClearedOK
<1> HIDE DEF g
<1>8. /\ f \in FeciType /\ f.accel_mode = mode /\ f.flush_happened = g.flush_happened
      /\ f.driver_fail = g.driver_fail
  BY <1>6, <1>7 DEF FeciType
<1> HIDE DEF f
<1>9. ~f.flush_happened
  BY <1>3, <1>7, <1>8
<1>10. /\ pending_accel_count' \in Int /\ pending_decel_count' \in Int
       /\ accelerated_count' \in Int
  BY <1>2, <1>4 DEF TypeOK
<1>11. m = host[i] /\ c = m.c
  BY DEF m, c
<1> QED  BY <1>1, <1>2, <1>5, <1>7, <1>8, <1>9, <1>10, <1>11, CreateEnds

(* CreateFlushed preserves the invariant. *)
LEMMA CreateFlushedStep ==
  ASSUME IndInv, NEW x \in NssCtx, NEW i \in DOMAIN host, CreateFlushed(x, i)
  PROVE  IndInv'
<1> DEFINE m == host[i]
           c == m.c
           n == AtMost(feci[c].no_action_seen + 1, NoActionLimit)
           g == PendingCleared(feci[c], "DECEL")
           f == [g EXCEPT !.flush_happened = FALSE, !.no_action_seen = n]
<1>1. x \in Contexts
  BY NotTimer
<1>2. /\ At(x, "idle") /\ m.type = "create" /\ feci[c].flush_happened
      /\ host' = RemoveAt(host, i)
      /\ feci' = [feci EXCEPT ![c] = f] /\ ci' = [ci EXCEPT ![c] = Deref(@, 1)]
      /\ pending_accel_count' = pending_accel_count - 1
      /\ UNCHANGED <<ctx, cmds, rule, pending_decel_count, accelerated_count>>
  BY DEF CreateFlushed
<1>3. c \in Conns
  <2> HIDE DEF c, m
  <2> QED  BY Answers DEF c, m
<1>4. TypeOK /\ feci[c] \in FeciType
  BY <1>1, <1>3, Known
<1> HIDE DEF c, m
<1>5. "DECEL" \in Modes /\ n \in 0..NoActionLimit
  BY <1>4, LimitAssumption DEF Modes, AtMost, FeciType
<1> HIDE DEF n
<1>6. g \in FeciType /\ g.accel_mode = "DECEL" /\ g.driver_fail = feci[c].driver_fail
  BY <1>4, <1>5, PendingClearedOK
<1> HIDE DEF g
<1>7. /\ f \in FeciType /\ f.accel_mode = "DECEL" /\ f.driver_fail = g.driver_fail
      /\ ~f.flush_happened
  BY <1>5, <1>6 DEF FeciType
<1> HIDE DEF f
<1>8. /\ pending_accel_count' \in Int /\ pending_decel_count' \in Int
      /\ accelerated_count' \in Int
  BY <1>2, <1>4 DEF TypeOK
<1>9. m = host[i] /\ c = m.c
  BY DEF m, c
<1> QED  BY <1>1, <1>2, <1>6, <1>7, <1>8, <1>9, CreateEnds
(* The handler of a message of c: the message is taken, and x, the front   *)
(* end instance and the database instance of c become e, f and k.          *)
LEMMA MessageHandled ==
  ASSUME IndInv, NEW x \in Contexts, At(x, "idle"), NEW i \in DOMAIN host,
         NEW c, NEW m, m = host[i], c = m.c,
         host' = RemoveAt(host, i), UNCHANGED <<cmds, rule>>,
         NEW e \in CtxType, NEW f \in FeciType, NEW k \in CiType,
         ctx' = [ctx EXCEPT ![x] = e], feci' = [feci EXCEPT ![c] = f],
         ci' = [ci EXCEPT ![c] = k], e.pc = "idle" \/ e.c = c,
         pending_accel_count' \in Int, pending_decel_count' \in Int, accelerated_count' \in Int,
         Agrees(x, c, e, f, k, 0 - OneIf(m.type = "create"), 0 - OneIf(m.type = "destroy"),
                OneIf(m.type = "create" /\ m.ack) - OneIf(m.type = "flush")
                  - OneIf(m.type = "destroy" /\ m.ack))
  PROVE  IndInv'
<1>1. m \in HostType /\ c \in Conns
  BY Answers
<1>2. TypeOK
  BY DEF IndInv
<1>3. /\ cmds' \in Seq(CmdType) /\ host' \in Seq(HostType)
      /\ \A d \in Conns \ {c} : MsgsKept(d)
      /\ Destroys(c)' <= Destroys(c)
      /\ MoreCreates(c) = 0 - OneIf(m.type = "create")
      /\ MoreDestroys(c) = 0 - OneIf(m.type = "destroy")
      /\ MoreEnds(c) = OneIf(m.type = "create" /\ m.ack) - OneIf(m.type = "flush")
                        - OneIf(m.type = "destroy" /\ m.ack)
  BY <1>1, <1>2, MsgReceived
<1>4. Agrees(x, c, e, f, k, MoreCreates(c), MoreDestroys(c), MoreEnds(c))
  BY <1>3
<1>5. At(x, "idle") \/ Conn(x) = c
  OBVIOUS
<1>6. /\ UNCHANGED rule /\ feci' = [feci EXCEPT ![c] = f] /\ ctx' = [ctx EXCEPT ![x] = e]
      /\ ci' = [ci EXCEPT ![c] = k] /\ (e.pc = "idle" \/ e.c = c)
  OBVIOUS
<1> QED
  BY ONLY IndInv, x \in Contexts, e \in CtxType, f \in FeciType, k \in CiType,
          pending_accel_count' \in Int, pending_decel_count' \in Int,
          accelerated_count' \in Int, <1>1, <1>3, <1>4, <1>5, <1>6, MessageStep

(* CreateAcked preserves the invariant. *)
LEMMA CreateAckedStep ==
  ASSUME IndInv, NEW x \in NssCtx, NEW i \in DOMAIN host, CreateAcked(x, i)
  PROVE  IndInv'
<1> DEFINE m == host[i]
           c == m.c
           p == PendingCleared(feci[c], "ACCEL")
           g == [p EXCEPT !.ae_nack = 0]
           op == IF g.is_defunct THEN "make" ELSE "decel"
           n == AtMost(g.no_action_seen + 1, NoActionLimit)
           f == IF feci[c].decelerate_pending THEN [g EXCEPT !.is_defunct = FALSE]
                ELSE [g EXCEPT !.no_action_seen = n]
           e == IF feci[c].decelerate_pending
                THEN [Idle EXCEPT !.pc = "decel", !.c = c, !.op = op] ELSE ctx[x]
           k == IF feci[c].decelerate_pending THEN ci[c] ELSE Deref(ci[c], 1)
<1>1. x \in Contexts /\ x # TimerCtx
  BY NotTimer
<1>2. c \in Conns /\ m \in HostType
  <2> HIDE DEF c, m
  <2> QED  BY Answers DEF c, m
<1>3. /\ TypeOK /\ ConnInv(c) /\ CtxInv(x) /\ feci[c] \in FeciType /\ ci[c] \in CiType
      /\ ctx[x] \in CtxType
  BY <1>1, <1>2, Known
<1>4. /\ At(x, "idle") /\ m.type = "create" /\ m.ack /\ ~feci[c].flush_happened
      /\ host' = RemoveAt(host, i) /\ UNCHANGED <<cmds, rule, pending_decel_count>>
      /\ pending_accel_count' = pending_accel_count - 1
      /\ accelerated_count' = accelerated_count + 1
  BY DEF CreateAcked
<1>5. Mode(c) = "ACCEL_PENDING"
  <2> HIDE DEF c, m
  <2> QED  BY <1>4, Answers DEF c, m
<1>6. ctx[x].pc = "idle" /\ ci[c].added
  BY <1>3, <1>4, <1>5 DEF At, ConnInv, Untouched
<1>7. /\ feci' = [feci EXCEPT ![c] = f] /\ ctx' = [ctx EXCEPT ![x] = e]
      /\ ci' = [ci EXCEPT ![c] = k]
  <2>1. CASE feci[c].decelerate_pending
    <3>1. f = [g EXCEPT !.is_defunct = FALSE] /\ k = ci[c]
          /\ e = [Idle EXCEPT !.pc = "decel", !.c = c, !.op = op]
      BY <2>1
    <3>2. /\ feci' = [feci EXCEPT ![c] = [g EXCEPT !.is_defunct = FALSE]]
          /\ ctx' = [ctx EXCEPT ![x] = [Idle EXCEPT !.pc = "decel", !.c = c, !.op = op]]
          /\ ci' = ci
      BY <2>1 DEF CreateAcked
    <3>3. ci' = [ci EXCEPT ![c] = ci[c]]
      BY <1>3, <3>2 DEF TypeOK
    <3> HIDE DEF e, f, k, g, op, p
    <3> QED  BY <3>1, <3>2, <3>3
  <2>2. CASE ~feci[c].decelerate_pending
    <3>1. f = [g EXCEPT !.no_action_seen = n] /\ k = Deref(ci[c], 1) /\ e = ctx[x]
      BY <2>2
    <3>2. /\ feci' = [feci EXCEPT ![c] = [g EXCEPT !.no_action_seen = n]]
          /\ ci' = [ci EXCEPT ![c] = Deref(ci[c], 1)] /\ ctx' = ctx
      BY <2>2 DEF CreateAcked
    <3>3. ctx' = [ctx EXCEPT ![x] = ctx[x]]
      BY <1>3, <3>2 DEF TypeOK
    <3> HIDE DEF e, f, k, g, op, p, n
    <3> QED  BY <3>1, <3>2, <3>3
  <2> QED  BY <2>1, <2>2
<1> HIDE DEF c, m
<1>8. /\ f \in FeciType /\ f.accel_mode = "ACCEL" /\ f.flush_happened = feci[c].flush_happened
      /\ f.driver_fail = feci[c].driver_fail
  <2>1. "ACCEL" \in Modes
    BY DEF Modes
  <2>2. /\ p \in FeciType /\ p.accel_mode = "ACCEL" /\ p.flush_happened = feci[c].flush_happened
        /\ p.driver_fail = feci[c].driver_fail
    BY <1>3, <2>1, PendingClearedOK
  <2> HIDE DEF p
  <2>3. /\ g \in FeciType /\ g.accel_mode = "ACCEL" /\ g.flush_happened = p.flush_happened
        /\ g.driver_fail = p.driver_fail
    BY <2>2, LimitAssumption DEF FeciType
  <2> HIDE DEF g
  <2>4. n \in 0..NoActionLimit
    BY <2>3, LimitAssumption DEF AtMost, FeciType
  <2> HIDE DEF n
  <2>5. /\ f \in FeciType /\ f.accel_mode = "ACCEL" /\ f.flush_happened = g.flush_happened
        /\ f.driver_fail = g.driver_fail
    BY <2>3, <2>4 DEF FeciType
  <2> HIDE DEF f
  <2> QED  BY <2>2, <2>3, <2>5
<1>9. SameRegen(ci[c], k)
  BY <1>3, RefsOK
<1>10. e \in CtxType /\ ReasonOK(x, e) /\ e.pc \in {"idle", "decel"} /\ (e.pc = "idle" \/ e.c = c)
  <2>1. CASE feci[c].decelerate_pending
    <3> DEFINE b == [Idle EXCEPT !.pc = "decel", !.c = c, !.op = op]
    <3>1. op \in {"make", "decel"} /\ op \in Ops /\ "decel" \in Pcs \ {"idle"}
      BY DEF Ops, Pcs
    <3> HIDE DEF op
    <3>2. b \in CtxType /\ b.pc = "decel" /\ b.c = c /\ b.op = op /\ b # Idle
      BY <1>2, <3>1, BeginsAs
    <3>3. e = b
      BY <2>1
    <3> HIDE DEF b, e
    <3> QED  BY <1>1, <3>1, <3>2, <3>3 DEF ReasonOK
  <2>2. CASE ~feci[c].decelerate_pending
    <3>1. e = ctx[x]
      BY <2>2
    <3> HIDE DEF e
    <3> QED  BY <1>3, <1>6, <3>1 DEF CtxInv
  <2> QED  BY <2>1, <2>2
<1> HIDE DEF e, f, k
<1>11. k \in CiType /\ RegenOK(k) /\ k.regen_in_progress = ci[c].regen_in_progress /\ k.added
  BY <1>3, <1>6, <1>9 DEF SameRegen, ConnInv, Bounded
<1>12. DriverOK(f) /\ ~f.flush_happened /\ ~Failed("ACCEL") /\ ~Failed("ACCEL_PENDING")
  BY <1>3, <1>4, <1>5, <1>8 DEF ConnInv, Bounded, DriverOK, Mode, Failed, FailModes
<1>13. Agrees(x, c, e, f, k, 0 - 1, 0, 1)
  BY <1>4, <1>5, <1>6, <1>8, <1>10, <1>11, <1>12 DEF Agrees, OneIf
<1>14. m = host[i] /\ c = m.c
  BY DEF m, c
<1>15. /\ 0 - OneIf(m.type = "create") = 0 - 1 /\ 0 - OneIf(m.type = "destroy") = 0
       /\ OneIf(m.type = "create" /\ m.ack) - OneIf(m.type = "flush")
            - OneIf(m.type = "destroy" /\ m.ack) = 1
  BY <1>4 DEF OneIf
<1>16. Agrees(x, c, e, f, k, 0 - OneIf(m.type = "create"), 0 - OneIf(m.type = "destroy"),
              OneIf(m.type = "create" /\ m.ack) - OneIf(m.type = "flush")
                - OneIf(m.type = "destroy" /\ m.ack))
  BY <1>13, <1>15
<1>17. /\ pending_accel_count' \in Int /\ pending_decel_count' \in Int
       /\ accelerated_count' \in Int
  BY <1>3, <1>4 DEF TypeOK
<1>18. /\ UNCHANGED <<cmds, rule>> /\ At(x, "idle") /\ host' = RemoveAt(host, i)
       /\ x \in Contexts /\ e \in CtxType /\ f \in FeciType /\ k \in CiType
       /\ (e.pc = "idle" \/ e.c = c)
  BY <1>1, <1>4, <1>8, <1>10, <1>11
<1> QED
  BY ONLY IndInv, i \in DOMAIN host, <1>7, <1>14, <1>16, <1>17, <1>18, MessageHandled, ZenonT(40)

(* DestroyAnswered preserves the invariant. *)
LEMMA DestroyAnsweredStep ==
  ASSUME IndInv, NEW x \in NssCtx, NEW i \in DOMAIN host, DestroyAnswered(x, i)
  PROVE  IndInv'
<1> DEFINE m == host[i]
           c == m.c
           mode == IF feci[c].is_defunct THEN "FAIL_DEFUNCT"
                   ELSE IF m.ack THEN "DECEL" ELSE "FAIL_DECEL"
           f == [feci[c] EXCEPT !.accel_mode = mode]
           e == [Idle EXCEPT !.pc = "ended", !.c = c]
           k == ci[c]
<1>1. x \in Contexts /\ x # TimerCtx
  BY NotTimer
<1>2. c \in Conns /\ m \in HostType
  <2> HIDE DEF c, m
  <2> QED  BY Answers DEF c, m
<1>3. TypeOK /\ ConnInv(c) /\ CtxInv(x) /\ feci[c] \in FeciType /\ k \in CiType
  BY <1>1, <1>2, Known
<1>4. /\ At(x, "idle") /\ m.type = "destroy" /\ host' = RemoveAt(host, i)
      /\ pending_decel_count' = pending_decel_count - 1
      /\ UNCHANGED <<cmds, rule, pending_accel_count, accelerated_count>>
  BY DEF DestroyAnswered
<1>5. Mode(c) = "DECEL_PENDING"
  <2> HIDE DEF c, m
  <2> QED  BY <1>4, Answers DEF c, m
<1>6. ctx[x].pc = "idle" /\ k.added /\ ~feci[c].flush_happened
  BY <1>3, <1>4, <1>5 DEF At, ConnInv, Untouched, FlushBalance
<1>7. /\ feci' = [feci EXCEPT ![c] = f] /\ ctx' = [ctx EXCEPT ![x] = e]
      /\ ci' = [ci EXCEPT ![c] = k]
  <2>1. /\ feci' = [feci EXCEPT ![c].accel_mode = mode] /\ ctx' = [ctx EXCEPT ![x] = e]
        /\ ci' = ci
    BY <1>5 DEF DestroyAnswered, Mode
  <2> HIDE DEF mode, e
  <2> QED  BY <1>2, <1>3, <2>1 DEF TypeOK
<1> HIDE DEF c, m
<1>8. mode \in Modes /\ mode \in {"DECEL", "FAIL_DEFUNCT", "FAIL_DECEL"}
      /\ (mode = "DECEL" => m.ack)
  BY DEF Modes, FailModes
<1> HIDE DEF mode
<1>9. /\ f \in FeciType /\ f.accel_mode = mode /\ f.flush_happened = feci[c].flush_happened
      /\ f.driver_fail = feci[c].driver_fail
  BY <1>3, <1>8 DEF FeciType
<1>10. e \in CtxType /\ e.pc = "ended" /\ e.c = c /\ e.op = "packet" /\ e # Idle
  BY <1>2, BeginsType DEF Pcs
<1> HIDE DEF e, f
<1>11. ReasonOK(x, e) /\ RegenOK(k) /\ DriverOK(f) /\ ~f.flush_happened
  BY <1>1, <1>3, <1>5, <1>6, <1>9, <1>10 DEF ReasonOK, ConnInv, Bounded, DriverOK, Mode
<1>12. /\ ~Failed("DECEL_PENDING") /\ ~Failed("DECEL") /\ Failed("FAIL_DEFUNCT")
       /\ Failed("FAIL_DECEL")
  BY DEF Failed, FailModes
<1>13. m = host[i] /\ c = m.c
  BY DEF m, c
<1>14. /\ 0 - OneIf(m.type = "create") = 0 /\ 0 - OneIf(m.type = "destroy") = 0 - 1
       /\ OneIf(m.type = "create" /\ m.ack) - OneIf(m.type = "flush")
            - OneIf(m.type = "destroy" /\ m.ack) = 0 - OneIf(m.ack)
  BY <1>4 DEF OneIf
<1>15. Agrees(x, c, e, f, k, 0, 0 - 1, 0 - OneIf(m.ack))
  BY <1>5, <1>6, <1>8, <1>9, <1>10, <1>11, <1>12 DEF Agrees, OneIf
<1>16. Agrees(x, c, e, f, k, 0 - OneIf(m.type = "create"), 0 - OneIf(m.type = "destroy"),
              OneIf(m.type = "create" /\ m.ack) - OneIf(m.type = "flush")
                - OneIf(m.type = "destroy" /\ m.ack))
  BY <1>14, <1>15
<1>17. /\ pending_accel_count' \in Int /\ pending_decel_count' \in Int
       /\ accelerated_count' \in Int
  BY <1>3, <1>4 DEF TypeOK
<1>18. UNCHANGED <<cmds, rule>>
  BY <1>4
<1> QED
  BY <1>1, <1>3, <1>4, <1>7, <1>9, <1>10, <1>13, <1>16, <1>17, <1>18, MessageHandled

(* SyncSeen preserves the invariant. *)
LEMMA SyncSeenStep ==
  ASSUME IndInv, NEW x \in NssCtx, NEW i \in DOMAIN host, SyncSeen(x, i)
  PROVE  IndInv'
<1> DEFINE m == host[i]
           c == m.c
<1>1. x \in Contexts /\ x # TimerCtx
  BY NotTimer
<1>2. c \in Conns /\ m \in HostType
  <2> HIDE DEF c, m
  <2> QED  BY Answers DEF c, m
<1>3. /\ TypeOK /\ ConnInv(c) /\ CtxInv(x) /\ feci[c] \in FeciType /\ ci[c] \in CiType
      /\ ctx[x] \in CtxType
  BY <1>1, <1>2, Known
<1>4. /\ At(x, "idle") /\ ctx[x].pc = "idle" /\ m.type \in {"sync", "flush"}
      /\ host' = RemoveAt(host, i) /\ UNCHANGED <<cmds, rule, counts>>
  BY DEF SyncSeen, IsNote, At
<1>5. \/ UNCHANGED <<feci, ci, ctx>>
      \/ /\ ci[c].group # "MAX" /\ ci' = [ci EXCEPT ![c] = Ref(ci[c])]
         /\ feci' = [feci EXCEPT ![c].no_action_seen = 0] \/ UNCHANGED feci
         /\ ctx' = [ctx EXCEPT ![x] = [Idle EXCEPT !.pc = IF m.type = "flush" THEN "sync" ELSE "peek",
                                                   !.c = c, !.op = "decel"]]
  BY DEF SyncSeen
<1>6. /\ RegenOK(ci[c]) /\ DriverOK(feci[c]) /\ ReasonOK(x, ctx[x])
      /\ feci[c].flush_happened => Mode(c) = "ACCEL_PENDING"
  BY <1>3 DEF ConnInv, Bounded, FlushBalance, CtxInv
<1> HIDE DEF c, m
<1>7. m = host[i] /\ c = m.c
  BY DEF m, c
<1>8. /\ OneIf(m.type = "create") = 0 /\ OneIf(m.type = "destroy") = 0
      /\ OneIf(m.type = "create" /\ m.ack) = 0 /\ OneIf(m.type = "destroy" /\ m.ack) = 0
      /\ OneIf(m.type = "flush") \in Int
  BY <1>4 DEF OneIf
<1>9. /\ 0 - OneIf(m.type = "create") = 0 /\ 0 - OneIf(m.type = "destroy") = 0
      /\ OneIf(m.type = "create" /\ m.ack) - OneIf(m.type = "flush")
           - OneIf(m.type = "destroy" /\ m.ack) = 0 - OneIf(m.type = "flush")
  BY <1>8
<1>10. /\ pending_accel_count' \in Int /\ pending_decel_count' \in Int
       /\ accelerated_count' \in Int
  BY <1>3, <1>4 DEF TypeOK, counts
<1>13. UNCHANGED <<cmds, rule>>
  BY <1>4
<1>11. CASE UNCHANGED <<feci, ci, ctx>>
  <2> DEFINE e == ctx[x]
             f == feci[c]
             k == ci[c]
  <2>1. /\ ctx' = [ctx EXCEPT ![x] = e] /\ feci' = [feci EXCEPT ![c] = f]
        /\ ci' = [ci EXCEPT ![c] = k]
    BY <1>3, <1>11 DEF TypeOK
  <2>2. Agrees(x, c, e, f, k, 0, 0, 0 - OneIf(m.type = "flush"))
    <3>1. f.accel_mode = Mode(c)
      BY DEF Mode
    <3>2. \A b : OneIf(b) \in {0, 1}
      BY DEF OneIf
    <3> QED  BY <1>4, <1>6, <3>1, <3>2 DEF Agrees, OneIf
  <2>3. Agrees(x, c, e, f, k, 0 - OneIf(m.type = "create"), 0 - OneIf(m.type = "destroy"),
               OneIf(m.type = "create" /\ m.ack) - OneIf(m.type = "flush")
                 - OneIf(m.type = "destroy" /\ m.ack))
    BY <1>9, <2>2
  <2>4. e \in CtxType /\ f \in FeciType /\ k \in CiType /\ e.pc = "idle"
    BY <1>3, <1>4
  <2> HIDE DEF e, f, k
  <2> QED  BY <1>1, <1>4, <1>7, <1>10, <1>13, <2>1, <2>3, <2>4, MessageHandled
<1>12. CASE /\ ci[c].group # "MAX" /\ ci' = [ci EXCEPT ![c] = Ref(ci[c])]
            /\ feci' = [feci EXCEPT ![c].no_action_seen = 0] \/ UNCHANGED feci
            /\ ctx' = [ctx EXCEPT ![x] =
                         [Idle EXCEPT !.pc = IF m.type = "flush" THEN "sync" ELSE "peek",
                                      !.c = c, !.op = "decel"]]
  <2> DEFINE pc == IF m.type = "flush" THEN "sync" ELSE "peek"
             e == [Idle EXCEPT !.pc = pc, !.c = c, !.op = "decel"]
             k == Ref(ci[c])
  <2>1. ctx' = [ctx EXCEPT ![x] = e] /\ ci' = [ci EXCEPT ![c] = k]
    BY <1>12
  <2>2. PICK f \in FeciType :
          /\ feci' = [feci EXCEPT ![c] = f] /\ f.accel_mode = Mode(c)
          /\ f.flush_happened = feci[c].flush_happened /\ f.driver_fail = feci[c].driver_fail
    <3>1. CASE UNCHANGED feci
      <4>1. feci' = [feci EXCEPT ![c] = feci[c]]
        BY <1>3, <3>1 DEF TypeOK
      <4> QED  BY <1>3, <4>1 DEF Mode
    <3>2. CASE feci' = [feci EXCEPT ![c].no_action_seen = 0]
      <4> DEFINE g == [feci[c] EXCEPT !.no_action_seen = 0]
      <4>1. feci' = [feci EXCEPT ![c] = g]
        BY <1>2, <1>3, <3>2 DEF TypeOK
      <4>2. g \in FeciType /\ g.accel_mode = Mode(c)
            /\ g.flush_happened = feci[c].flush_happened /\ g.driver_fail = feci[c].driver_fail
        BY <1>3, LimitAssumption DEF FeciType, Mode
      <4> HIDE DEF g
      <4> QED  BY <4>1, <4>2
    <3> QED  BY <1>12, <3>1, <3>2
  <2>3. pc \in Pcs \ {"idle"} /\ "decel" \in Ops
    BY DEF Pcs, Ops
  <2>4. (m.type = "flush" <=> pc = "sync") /\ pc \in {"sync", "peek"}
    OBVIOUS
  <2> HIDE DEF pc
  <2>5. e \in CtxType /\ e.pc = pc /\ e.c = c /\ e.op = "decel" /\ e # Idle
    <3>1. \A q \in Pcs \ {"idle"} : LET d == [Idle EXCEPT !.pc = q, !.c = c, !.op = "decel"] IN
             d \in CtxType /\ d.pc = q /\ d.c = c /\ d.op = "decel" /\ d # Idle
      BY <1>2, <2>3, IdleType DEF CtxType
    <3> QED  BY <2>3, <3>1
  <2>6. ci[c].added /\ SameRegen(ci[c], k)
    BY <1>3, <1>12, RefsOK DEF ConnInv, Untouched
  <2> HIDE DEF e, k
  <2>7. k \in CiType /\ RegenOK(k) /\ k.regen_in_progress = ci[c].regen_in_progress /\ k.added
    BY <1>3, <2>6 DEF SameRegen, ConnInv, Bounded
  <2>8. ReasonOK(x, e) /\ DriverOK(f)
    BY <1>1, <1>6, <2>2, <2>4, <2>5 DEF ReasonOK, DriverOK, Mode
  <2>9. Agrees(x, c, e, f, k, 0, 0, 0 - OneIf(m.type = "flush"))
    BY <1>4, <1>6, <2>2, <2>4, <2>5, <2>7, <2>8 DEF Agrees, OneIf
  <2>10. Agrees(x, c, e, f, k, 0 - OneIf(m.type = "create"), 0 - OneIf(m.type = "destroy"),
               OneIf(m.type = "create" /\ m.ack) - OneIf(m.type = "flush")
                 - OneIf(m.type = "destroy" /\ m.ack))
    BY <1>9, <2>9
  <2> QED  BY <1>1, <1>4, <1>7, <1>10, <1>13, <2>1, <2>2, <2>5, <2>7, <2>10, MessageHandled
<1> QED  BY <1>5, <1>11, <1>12
-----------------------------------------------------------------------------
(* The NSS, which sees the commands and sends the messages *)

(* A step of the NSS that answers or notes something of c *)
LEMMA NssStep ==
  ASSUME IndInv, NEW c \in Conns, UNCHANGED <<feci, ci, ctx, counts>>,
         cmds' \in Seq(CmdType), host' \in Seq(HostType), rule' \in [Conns -> 0..NoRule],
         \A d \in Conns \ {c} : MsgsKept(d) /\ rule'[d] = rule[d],
         MoreCreates(c) = 0, MoreDestroys(c) = 0, MoreEnds(c) \in Int, MoreEnds(c) <= 0,
         Destroys(c)' > 0 => rule'[c] = NoRule
  PROVE  IndInv'
<1> DEFINE x == TimerCtx
<1>1. x \in Contexts
  BY NotTimer
<1>2. /\ TypeOK /\ CtxInv(x) /\ ConnInv(c) /\ feci[c] \in FeciType
  BY <1>1, Known
<1>3. TypeOK'
  BY <1>2 DEF TypeOK, counts
<1>4. LocalTo(x, c)
  BY DEF LocalTo
<1>5. /\ ReasonOK(x, ctx[x]) /\ RegenOK(ci[c]) /\ DriverOK(feci[c])
      /\ feci[c].flush_happened => Mode(c) = "ACCEL_PENDING"
  BY <1>2 DEF CtxInv, ConnInv, Bounded, FlushBalance
<1>6. ASSUME NEW n \in Int, n <= 0  PROVE Agrees(x, c, ctx[x], feci[c], ci[c], 0, 0, n)
  <2>1. \A b : OneIf(b) \in Int
    BY DEF OneIf
  <2> QED  BY <1>5, <1>6, <2>1, SMTT(30) DEF Agrees, Mode
<1>7. Agrees(x, c, ctx'[x], feci'[c], ci'[c], MoreCreates(c), MoreDestroys(c), MoreEnds(c))
  <2>1. ctx'[x] = ctx[x] /\ feci'[c] = feci[c] /\ ci'[c] = ci[c]
    OBVIOUS
  <2>2. Agrees(x, c, ctx[x], feci[c], ci[c], MoreCreates(c), MoreDestroys(c), MoreEnds(c))
    BY <1>6
  <2> QED  BY <2>1, <2>2
<1>8. \A d \in Conns \ {c} : MsgsKept(d)
  OBVIOUS
<1> QED
  BY ONLY IndInv, c \in Conns, Destroys(c)' > 0 => rule'[c] = NoRule,
          <1>1, <1>3, <1>4, <1>7, <1>8, LocalStep

(* A command is the only owner of the mode that waits for its answer. *)
LEMMA Commands ==
  ASSUME IndInv, cmds # <<>>, NEW m, m = Head(cmds), NEW c, c = m.c
  PROVE  /\ m \in CmdType /\ c \in Conns /\ cmds \in Seq(CmdType) /\ Tail(cmds) \in Seq(CmdType)
         /\ m.type = "create" => Mode(c) = "ACCEL_PENDING" /\ Destroys(c) = 0
         /\ m.type = "destroy" => Mode(c) = "DECEL_PENDING"
<1>1. TypeOK /\ cmds \in Seq(CmdType)
  BY DEF IndInv, TypeOK
<1>2. m \in CmdType /\ Tail(cmds) \in Seq(CmdType) /\ 1 \in DOMAIN cmds /\ m = cmds[1]
  BY <1>1
<1>3. c \in Conns /\ \A t : m \in CmdOf(c, t) <=> m.type = t
  BY <1>2 DEF CmdType, CmdOf
<1>4. ConnInv(c)
  BY <1>3, NotTimer, Known
<1>5. /\ Building(c) \in Nat /\ CreateCmds(c) \in Nat /\ Creates(c) \in Nat
      /\ Sending(c) \in Nat /\ DestroyCmds(c) \in Nat /\ Destroys(c) \in Nat
  BY <1>1, <1>3, CountTypes
<1>6. /\ Building(c) + CreateCmds(c) + Creates(c) = IF Mode(c) = "ACCEL_PENDING" THEN 1 ELSE 0
      /\ Sending(c) + DestroyCmds(c) + Destroys(c) = IF Mode(c) = "DECEL_PENDING" THEN 1 ELSE 0
  BY <1>4 DEF ConnInv, PendingOwned, OneIf
<1>7. ASSUME m.type = "create"  PROVE Mode(c) = "ACCEL_PENDING" /\ Destroys(c) = 0
  <2>1. CreateCmds(c) > 0
    BY <1>1, <1>2, <1>3, <1>7, InPositive DEF CreateCmds
  <2>2. Mode(c) = "ACCEL_PENDING"
    BY <1>5, <1>6, <2>1
  <2> QED  BY <1>5, <1>6, <2>2
<1>8. ASSUME m.type = "destroy"  PROVE Mode(c) = "DECEL_PENDING"
  <2>1. DestroyCmds(c) > 0
    BY <1>1, <1>2, <1>3, <1>8, InPositive DEF DestroyCmds
  <2> QED  BY <1>5, <1>6, <2>1
<1> QED  BY <1>1, <1>2, <1>3, <1>7, <1>8

(* The NSS takes a command m of c and sends the answer to it. *)
LEMMA Answered ==
  ASSUME IndInv, cmds # <<>>, NEW m, m = Head(cmds), NEW c, c = m.c, NEW ack \in BOOLEAN,
         cmds' = Tail(cmds), host' = Append(host, [type |-> m.type, c |-> m.c, ack |-> ack])
  PROVE  /\ c \in Conns /\ cmds' \in Seq(CmdType) /\ host' \in Seq(HostType)
         /\ \A d \in Conns \ {c} : MsgsKept(d)
         /\ MoreCreates(c) = 0 /\ MoreDestroys(c) = 0
         /\ MoreEnds(c) = OneIf(rule'[c] # NoRule) - OneIf(rule[c] # NoRule)
                          + OneIf(m.type = "destroy" /\ ack) - OneIf(m.type = "create" /\ ack)
         /\ m.type = "create" => Destroys(c)' = 0
<1> DEFINE r == [type |-> m.type, c |-> m.c, ack |-> ack]
<1>1. /\ m \in CmdType /\ c \in Conns /\ cmds \in Seq(CmdType) /\ Tail(cmds) \in Seq(CmdType)
      /\ m.type = "create" => Destroys(c) = 0
  BY Commands
<1>2. TypeOK /\ host \in Seq(HostType)
  BY DEF IndInv, TypeOK
<1>3. /\ r \in HostType /\ r.type = m.type /\ r.c = m.c /\ r.ack = ack
      /\ m.type \in {"create", "destroy"} /\ host' = Append(host, r)
  BY <1>1 DEF HostType, CmdType
<1> HIDE DEF r
<1>4. cmds' \in Seq(CmdType) /\ host' \in Seq(HostType)
  BY <1>1, <1>2, <1>3
<1>5. ASSUME NEW d \in Conns
      PROVE  /\ CreateCmds(d) \in Nat /\ DestroyCmds(d) \in Nat
             /\ Creates(d) \in Nat /\ Destroys(d) \in Nat /\ Flushes(d) \in Nat
             /\ AckedCreates(d) \in Nat /\ AckedDestroys(d) \in Nat
             /\ CreateCmds(d)' = CreateCmds(d) - OneIf(m.c = d /\ m.type = "create")
             /\ DestroyCmds(d)' = DestroyCmds(d) - OneIf(m.c = d /\ m.type = "destroy")
             /\ Creates(d)' = Creates(d) + OneIf(m.c = d /\ m.type = "create")
             /\ Destroys(d)' = Destroys(d) + OneIf(m.c = d /\ m.type = "destroy")
             /\ Flushes(d)' = Flushes(d)
             /\ AckedCreates(d)' = AckedCreates(d) + OneIf(m.c = d /\ m.type = "create" /\ ack)
             /\ AckedDestroys(d)' = AckedDestroys(d)
                                     + OneIf(m.c = d /\ m.type = "destroy" /\ ack)
  <2>1. /\ CreateCmds(d) \in Nat /\ DestroyCmds(d) \in Nat
        /\ Creates(d) \in Nat /\ Destroys(d) \in Nat /\ Flushes(d) \in Nat
        /\ AckedCreates(d) \in Nat /\ AckedDestroys(d) \in Nat
    BY <1>2, CountTypes
  <2>2. /\ CreateCmds(d)' = CreateCmds(d) - OneIf(m.c = d /\ m.type = "create")
        /\ DestroyCmds(d)' = DestroyCmds(d) - OneIf(m.c = d /\ m.type = "destroy")
    BY <1>2, CmdTaken
  <2>3. /\ Creates(d)' = Creates(d) + OneIf(r.c = d /\ r.type = "create")
        /\ Destroys(d)' = Destroys(d) + OneIf(r.c = d /\ r.type = "destroy")
        /\ Flushes(d)' = Flushes(d) + OneIf(r.c = d /\ r.type = "flush")
        /\ AckedCreates(d)' = AckedCreates(d) + OneIf(r.c = d /\ r.type = "create" /\ r.ack)
        /\ AckedDestroys(d)' = AckedDestroys(d) + OneIf(r.c = d /\ r.type = "destroy" /\ r.ack)
    BY <1>2, <1>3, MsgAppended
  <2>4. OneIf(r.c = d /\ r.type = "flush") = 0
    BY <1>3 DEF OneIf
  <2> QED  BY <1>3, <2>1, <2>2, <2>3, <2>4
<1>6. ASSUME NEW d \in Conns \ {c}  PROVE MsgsKept(d)
  <2>1. /\ OneIf(m.c = d /\ m.type = "create") = 0 /\ OneIf(m.c = d /\ m.type = "destroy") = 0
        /\ OneIf(m.c = d /\ m.type = "create" /\ ack) = 0
        /\ OneIf(m.c = d /\ m.type = "destroy" /\ ack) = 0
    BY DEF OneIf
  <2> QED  BY <1>5, <2>1 DEF MsgsKept
<1>7. \A b : OneIf(b) \in Int
  BY DEF OneIf
<1>8. MoreCreates(c) = 0 /\ MoreDestroys(c) = 0
  <2>1. /\ CreateCmds(c)' = CreateCmds(c) - OneIf(m.type = "create")
        /\ DestroyCmds(c)' = DestroyCmds(c) - OneIf(m.type = "destroy")
        /\ Creates(c)' = Creates(c) + OneIf(m.type = "create")
        /\ Destroys(c)' = Destroys(c) + OneIf(m.type = "destroy")
        /\ CreateCmds(c) \in Nat /\ DestroyCmds(c) \in Nat
        /\ Creates(c) \in Nat /\ Destroys(c) \in Nat
    BY <1>1, <1>5 DEF OneIf
  <2> QED  BY <1>7, <2>1 DEF MoreCreates, MoreDestroys
<1>9. MoreEnds(c) = OneIf(rule'[c] # NoRule) - OneIf(rule[c] # NoRule)
                    + OneIf(m.type = "destroy" /\ ack) - OneIf(m.type = "create" /\ ack)
  <2>1. /\ Flushes(c)' = Flushes(c)
        /\ AckedCreates(c)' = AckedCreates(c) + OneIf(m.type = "create" /\ ack)
        /\ AckedDestroys(c)' = AckedDestroys(c) + OneIf(m.type = "destroy" /\ ack)
        /\ Flushes(c) \in Nat /\ AckedCreates(c) \in Nat /\ AckedDestroys(c) \in Nat
    BY <1>1, <1>5 DEF OneIf
  <2> QED  BY <1>7, <2>1, SMTT(30) DEF MoreEnds
<1>10. ASSUME m.type = "create"  PROVE Destroys(c)' = 0
  <2>1. Destroys(c)' = Destroys(c) + OneIf(m.c = c /\ m.type = "destroy")
    BY <1>1, <1>5
  <2>2. OneIf(m.c = c /\ m.type = "destroy") = 0
    BY <1>10 DEF OneIf
  <2> QED  BY <1>1, <1>10, <2>1, <2>2
<1> QED  BY <1>1, <1>4, <1>6, <1>8, <1>9, <1>10

(* NssCreate preserves the invariant. *)
LEMMA NssCreateStep ==
  ASSUME IndInv, NEW ack \in BOOLEAN, NssCreate(ack)
  PROVE  IndInv'
<1>1. PICK m : m = Head(cmds)
  OBVIOUS
<1>2. PICK c : c = m.c
  OBVIOUS
<1>3. /\ cmds # <<>> /\ m.type = "create" /\ (ack => rule[c] = NoRule) /\ cmds' = Tail(cmds)
      /\ rule' = IF ack THEN [rule EXCEPT ![c] = m.gen] ELSE rule
      /\ host' = Append(host, [type |-> m.type, c |-> m.c, ack |-> ack])
      /\ UNCHANGED <<feci, ci, ctx, counts>>
  BY <1>1, <1>2 DEF NssCreate
<1>4. /\ c \in Conns /\ cmds' \in Seq(CmdType) /\ host' \in Seq(HostType)
      /\ \A d \in Conns \ {c} : MsgsKept(d)
      /\ MoreCreates(c) = 0 /\ MoreDestroys(c) = 0
      /\ MoreEnds(c) = OneIf(rule'[c] # NoRule) - OneIf(rule[c] # NoRule)
                       + OneIf(m.type = "destroy" /\ ack) - OneIf(m.type = "create" /\ ack)
      /\ m.type = "create" => Destroys(c)' = 0
  BY <1>1, <1>2, <1>3, Answered
<1>5. m.gen \in 0..MaxRegen
  BY <1>1, <1>2, <1>3, Commands DEF CmdType
<1>6. m.gen \in 0..NoRule /\ m.gen # NoRule
  BY <1>5, BoundAssumption DEF NoRule
<1>7. rule \in [Conns -> 0..NoRule]
  BY DEF IndInv, TypeOK
<1>8. rule' \in [Conns -> 0..NoRule] /\ \A d \in Conns \ {c} : rule'[d] = rule[d]
  BY <1>3, <1>4, <1>6, <1>7
<1>9. MoreEnds(c) = 0
  <2>1. OneIf(m.type = "destroy" /\ ack) = 0 /\ OneIf(m.type = "create" /\ ack) = OneIf(ack)
    BY <1>3 DEF OneIf
  <2>2. CASE ack
    <3>1. rule'[c] # NoRule /\ rule[c] = NoRule
      BY <1>3, <1>4, <1>6, <1>7, <2>2
    <3> QED  BY <1>4, <2>1, <2>2, <3>1 DEF OneIf
  <2>3. CASE ~ack
    <3>1. rule'[c] = rule[c]
      BY <1>3, <2>3
    <3> QED  BY <1>4, <2>1, <2>3, <3>1 DEF OneIf
  <2> QED  BY <2>2, <2>3
<1> QED  BY <1>3, <1>4, <1>8, <1>9, NssStep

(* NssDestroy preserves the invariant. *)
LEMMA NssDestroyStep ==
  ASSUME IndInv, NssDestroy
  PROVE  IndInv'
<1>1. PICK m : m = Head(cmds)
  OBVIOUS
<1>2. PICK c : c = m.c
  OBVIOUS
<1>3. PICK ack \in BOOLEAN : ack <=> rule[c] # NoRule
  <2>1. (rule[c] # NoRule) \in BOOLEAN
    OBVIOUS
  <2> QED  BY <2>1
<1>4. /\ cmds # <<>> /\ m.type = "destroy" /\ cmds' = Tail(cmds)
      /\ rule' = [rule EXCEPT ![c] = NoRule]
      /\ host' = Append(host, [type |-> m.type, c |-> m.c, ack |-> ack])
      /\ UNCHANGED <<feci, ci, ctx, counts>>
  BY <1>1, <1>2, <1>3 DEF NssDestroy
<1>5. /\ c \in Conns /\ cmds' \in Seq(CmdType) /\ host' \in Seq(HostType)
      /\ \A d \in Conns \ {c} : MsgsKept(d)
      /\ MoreCreates(c) = 0 /\ MoreDestroys(c) = 0
      /\ MoreEnds(c) = OneIf(rule'[c] # NoRule) - OneIf(rule[c] # NoRule)
                       + OneIf(m.type = "destroy" /\ ack) - OneIf(m.type = "create" /\ ack)
  BY <1>1, <1>2, <1>4, Answered
<1>6. rule \in [Conns -> 0..NoRule] /\ NoRule \in 0..NoRule
  BY BoundAssumption DEF IndInv, TypeOK, NoRule
<1>7. /\ rule' \in [Conns -> 0..NoRule] /\ \A d \in Conns \ {c} : rule'[d] = rule[d]
      /\ rule'[c] = NoRule
  BY <1>4, <1>5, <1>6
<1>8. MoreEnds(c) = 0
  <2>1. /\ OneIf(rule'[c] # NoRule) = 0 /\ OneIf(m.type = "create" /\ ack) = 0
        /\ OneIf(m.type = "destroy" /\ ack) = OneIf(rule[c] # NoRule)
        /\ OneIf(rule[c] # NoRule) \in Int
    BY <1>3, <1>4, <1>7 DEF OneIf
  <2> QED  BY <1>5, <2>1
<1> QED  BY <1>4, <1>5, <1>7, <1>8, NssStep

(* A sync message, and with it the end of a rule *)
LEMMA Noted ==
  ASSUME TypeOK, NEW c \in Conns, NEW t \in {"sync", "flush"}, UNCHANGED cmds,
         host' = Append(host, [type |-> t, c |-> c, ack |-> FALSE])
  PROVE  /\ cmds' \in Seq(CmdType) /\ host' \in Seq(HostType)
         /\ \A d \in Conns \ {c} : MsgsKept(d)
         /\ MoreCreates(c) = 0 /\ MoreDestroys(c) = 0 /\ Destroys(c)' = Destroys(c)
         /\ MoreEnds(c) = OneIf(t = "flush") + OneIf(rule'[c] # NoRule) - OneIf(rule[c] # NoRule)
<1> DEFINE r == [type |-> t, c |-> c, ack |-> FALSE]
<1>1. r \in HostType /\ r.type = t /\ r.c = c /\ ~r.ack /\ host' = Append(host, r)
  BY DEF HostType
<1> HIDE DEF r
<1>2. cmds' \in Seq(CmdType) /\ host' \in Seq(HostType)
  BY <1>1 DEF TypeOK
<1>3. ASSUME NEW d \in Conns
      PROVE  /\ CreateCmds(d) \in Nat /\ DestroyCmds(d) \in Nat
             /\ Creates(d) \in Nat /\ Destroys(d) \in Nat /\ Flushes(d) \in Nat
             /\ AckedCreates(d) \in Nat /\ AckedDestroys(d) \in Nat
             /\ CreateCmds(d)' = CreateCmds(d) /\ DestroyCmds(d)' = DestroyCmds(d)
             /\ Creates(d)' = Creates(d) /\ Destroys(d)' = Destroys(d)
             /\ Flushes(d)' = Flushes(d) + OneIf(c = d /\ t = "flush")
             /\ AckedCreates(d)' = AckedCreates(d) /\ AckedDestroys(d)' = AckedDestroys(d)
  <2>1. /\ CreateCmds(d) \in Nat /\ DestroyCmds(d) \in Nat
        /\ Creates(d) \in Nat /\ Destroys(d) \in Nat /\ Flushes(d) \in Nat
        /\ AckedCreates(d) \in Nat /\ AckedDestroys(d) \in Nat
    BY CountTypes
  <2>2. /\ Creates(d)' = Creates(d) + OneIf(r.c = d /\ r.type = "create")
        /\ Destroys(d)' = Destroys(d) + OneIf(r.c = d /\ r.type = "destroy")
        /\ Flushes(d)' = Flushes(d) + OneIf(r.c = d /\ r.type = "flush")
        /\ AckedCreates(d)' = AckedCreates(d) + OneIf(r.c = d /\ r.type = "create" /\ r.ack)
        /\ AckedDestroys(d)' = AckedDestroys(d) + OneIf(r.c = d /\ r.type = "destroy" /\ r.ack)
    BY <1>1, MsgAppended
  <2>3. /\ OneIf(r.c = d /\ r.type = "create") = 0 /\ OneIf(r.c = d /\ r.type = "destroy") = 0
        /\ OneIf(r.c = d /\ r.type = "create" /\ r.ack) = 0
        /\ OneIf(r.c = d /\ r.type = "destroy" /\ r.ack) = 0
        /\ OneIf(r.c = d /\ r.type = "flush") = OneIf(c = d /\ t = "flush")
    BY <1>1 DEF OneIf
  <2> QED  BY <2>1, <2>2, <2>3, CmdsKept
<1>4. ASSUME NEW d \in Conns \ {c}  PROVE MsgsKept(d)
  BY <1>3 DEF MsgsKept, OneIf
<1>5. \A b : OneIf(b) \in Int
  BY DEF OneIf
<1>6. MoreCreates(c) = 0 /\ MoreDestroys(c) = 0 /\ Destroys(c)' = Destroys(c)
  BY <1>3, <1>5 DEF MoreCreates, MoreDestroys
<1>7. MoreEnds(c) = OneIf(t = "flush") + OneIf(rule'[c] # NoRule) - OneIf(rule[c] # NoRule)
  <2>1. Flushes(c)' = Flushes(c) + OneIf(t = "flush")
    BY <1>3 DEF OneIf
  <2> QED  BY <1>3, <1>5, <2>1, SMTT(30) DEF MoreEnds
<1> QED  BY <1>2, <1>4, <1>6, <1>7

(* The NSS sends a message of its own accord. *)
LEMMA NssNoteStep ==
  ASSUME IndInv, NEW c \in Conns, NssSync(c) \/ NssFlush(c)
  PROVE  IndInv'
<1>1. /\ TypeOK /\ ConnInv(c) /\ rule \in [Conns -> 0..NoRule] /\ NoRule \in 0..NoRule
  BY BoundAssumption DEF IndInv, TypeOK, NoRule
<1>2. Destroys(c) > 0 => rule[c] = NoRule
  BY <1>1 DEF ConnInv, FlushBalance
<1>3. CASE NssSync(c)
  <2>1. /\ host' = Append(host, [type |-> "sync", c |-> c, ack |-> FALSE])
        /\ UNCHANGED <<feci, ci, ctx, counts>> /\ UNCHANGED cmds /\ UNCHANGED rule
    BY <1>3 DEF NssSync
  <2>2. /\ cmds' \in Seq(CmdType) /\ host' \in Seq(HostType)
        /\ \A d \in Conns \ {c} : MsgsKept(d)
        /\ MoreCreates(c) = 0 /\ MoreDestroys(c) = 0 /\ Destroys(c)' = Destroys(c)
        /\ MoreEnds(c) = OneIf("sync" = "flush") + OneIf(rule'[c] # NoRule)
                          - OneIf(rule[c] # NoRule)
    BY <1>1, <2>1, Noted
  <2>3. MoreEnds(c) = 0
    BY <2>1, <2>2 DEF OneIf
  <2>4. /\ rule' \in [Conns -> 0..NoRule] /\ (Destroys(c)' > 0 => rule'[c] = NoRule)
        /\ \A d \in Conns \ {c} : MsgsKept(d) /\ rule'[d] = rule[d]
        /\ MoreEnds(c) \in Int /\ MoreEnds(c) <= 0
    BY <1>1, <1>2, <2>1, <2>2, <2>3
  <2> QED  BY ONLY IndInv, c \in Conns, <2>1, <2>2, <2>4, NssStep
<1>4. CASE NssFlush(c)
  <2>1. /\ host' = Append(host, [type |-> "flush", c |-> c, ack |-> FALSE]) /\ rule[c] # NoRule
        /\ UNCHANGED <<feci, ci, ctx, counts>> /\ UNCHANGED cmds
        /\ rule' = [rule EXCEPT ![c] = NoRule]
    BY <1>4 DEF NssFlush
  <2>2. /\ cmds' \in Seq(CmdType) /\ host' \in Seq(HostType)
        /\ \A d \in Conns \ {c} : MsgsKept(d)
        /\ MoreCreates(c) = 0 /\ MoreDestroys(c) = 0
        /\ MoreEnds(c) = OneIf("flush" = "flush") + OneIf(rule'[c] # NoRule)
                          - OneIf(rule[c] # NoRule)
    BY <1>1, <2>1, Noted
  <2>3. /\ rule' \in [Conns -> 0..NoRule] /\ rule'[c] = NoRule
        /\ \A d \in Conns \ {c} : rule'[d] = rule[d]
    BY <1>1, <2>1
  <2>4. MoreEnds(c) = 0
    BY <2>1, <2>2, <2>3 DEF OneIf
  <2>5. /\ Destroys(c)' > 0 => rule'[c] = NoRule
        /\ \A d \in Conns \ {c} : MsgsKept(d) /\ rule'[d] = rule[d]
        /\ MoreEnds(c) \in Int /\ MoreEnds(c) <= 0
    BY <2>2, <2>3, <2>4
  <2> QED  BY ONLY IndInv, c \in Conns, <2>1, <2>2, <2>3, <2>5, NssStep
<1> QED  BY <1>3, <1>4
-----------------------------------------------------------------------------
(* Regenerations, which touch the database instances only *)

(* Steps that only ask connections to be generated again. *)
LEMMA InstancesStep ==
  ASSUME IndInv, UNCHANGED <<feci, ctx, nss, counts>>, ci' \in [Conns -> CiType],
         \A d \in Conns : /\ RegenOK(ci'[d]) /\ ci'[d].added = ci[d].added
                          /\ ci'[d].regen_in_progress = ci[d].regen_in_progress
                          /\ ci'[d].refs = ci[d].refs /\ ci'[d].group = ci[d].group
  PROVE  IndInv'
<1>1. TypeOK'
  BY DEF IndInv, TypeOK, nss, counts
<1>2. ASSUME NEW y \in Contexts  PROVE CtxInv(y)'
  <2>1. CtxInv(y) /\ ctx[y].c \in Conns
    BY <1>2 DEF IndInv, TypeOK
  <2> QED  BY <2>1 DEF CtxInv, ReasonOK, At, Conn
<1>3. ASSUME NEW d \in Conns  PROVE ConnInv(d)'
  <2>1. ConnInv(d)
    BY DEF IndInv
  <2>2. UNCHANGED <<cmds, host, rule>>
    BY DEF nss
  <2>3. MsgsKept(d)
    BY <2>2, NoMessages
  <2>4. /\ Building(d)' = Building(d) /\ Sending(d)' = Sending(d) /\ Syncing(d)' = Syncing(d)
        /\ Regenerating(d)' = Regenerating(d) /\ Mode(d)' = Mode(d)
    BY DEF Building, Sending, Syncing, Regenerating, Busy, Mode
  <2>5. PendingOwned(d)' /\ FlushBalance(d)'
    BY <2>1, <2>2, <2>3, <2>4 DEF ConnInv, PendingOwned, FlushBalance, MsgsKept
  <2>6. Untouched(d)' /\ Bounded(d)'
    BY <2>1, <2>4 DEF ConnInv, Untouched, Bounded, DriverOK
  <2> QED  BY <2>5, <2>6 DEF ConnInv
<1> QED  BY <1>1, <1>2, <1>3 DEF IndInv

(* RegenNeeded preserves the invariant. *)
LEMMA RegenNeededStep ==
  ASSUME IndInv, NEW c \in Conns, RegenNeeded(c)
  PROVE  IndInv'
<1> DEFINE o == ci[c].regen_occurances + 1
           r == ci[c].regen_required + 1
           k == [ci[c] EXCEPT !.regen_occurances = o, !.regen_required = r]
<1>1. ci \in [Conns -> CiType] /\ ci[c] \in CiType /\ \A d \in Conns : RegenOK(ci[d])
  BY DEF IndInv, TypeOK, ConnInv, Bounded
<1>2. /\ ci[c].regen_occurances \in 0..MaxRegen /\ ci[c].regen_required \in 0..MaxRegen
      /\ ci[c].regen_occurances + OneIf(ci[c].stale) < MaxRegen
      /\ ci[c].regen_required <= ci[c].regen_occurances
  BY <1>1 DEF CiType, RegenNeeded, Generation, RegenOK, OneIf
<1>3. /\ o \in 0..MaxRegen /\ r \in 0..MaxRegen /\ r <= o /\ r > 0
      /\ o + OneIf(ci[c].stale) <= MaxRegen
  BY <1>2, BoundAssumption DEF OneIf
<1>4. ci' = [ci EXCEPT ![c] = k] /\ UNCHANGED <<feci, ctx, nss, counts>>
  BY <1>1 DEF RegenNeeded
<1> HIDE DEF o, r
<1>5. /\ k \in CiType /\ k.regen_occurances = o /\ k.regen_required = r
      /\ k.stale = ci[c].stale /\ k.added = ci[c].added
      /\ k.regen_in_progress = ci[c].regen_in_progress /\ k.refs = ci[c].refs
      /\ k.group = ci[c].group
  BY <1>1, <1>3 DEF CiType
<1> HIDE DEF k
<1>6. RegenOK(k)
  BY <1>3, <1>5 DEF RegenOK
<1>7. ci' \in [Conns -> CiType] /\ ci'[c] = k /\ \A d \in Conns \ {c} : ci'[d] = ci[d]
  BY <1>1, <1>4, <1>5
<1>8. \A d \in Conns : /\ RegenOK(ci'[d]) /\ ci'[d].added = ci[d].added
                       /\ ci'[d].regen_in_progress = ci[d].regen_in_progress
                       /\ ci'[d].refs = ci[d].refs /\ ci'[d].group = ci[d].group
  BY <1>1, <1>5, <1>6, <1>7
<1> QED  BY <1>4, <1>7, <1>8, InstancesStep

(* AllRegenNeeded preserves the invariant. *)
LEMMA AllRegenNeededStep ==
  ASSUME IndInv, AllRegenNeeded
  PROVE  IndInv'
<1>1. ci \in [Conns -> CiType] /\ \A d \in Conns : RegenOK(ci[d])
  BY DEF IndInv, TypeOK, ConnInv, Bounded
<1>2. /\ ci' = [c \in Conns |-> [ci[c] EXCEPT !.stale = ci[c].refs > 0]]
      /\ \A c \in Conns : ci[c].refs > 0 => ci[c].stale \/ Generation(c) < MaxRegen
      /\ UNCHANGED <<feci, ctx, nss, counts>>
  BY DEF AllRegenNeeded
<1>3. ASSUME NEW d \in Conns
      PROVE  /\ ci'[d] \in CiType /\ RegenOK(ci'[d]) /\ ci'[d].added = ci[d].added
             /\ ci'[d].regen_in_progress = ci[d].regen_in_progress
             /\ ci'[d].refs = ci[d].refs /\ ci'[d].group = ci[d].group
  <2> DEFINE b == ci[d].refs > 0
             k == [ci[d] EXCEPT !.stale = b]
  <2>1. ci'[d] = k /\ b \in BOOLEAN
    BY <1>1, <1>2
  <2>2. ci[d] \in CiType /\ RegenOK(ci[d])
    BY <1>1
  <2>3. b => ci[d].stale \/ Generation(d) < MaxRegen
    BY <1>2
  <2>4. Generation(d) = ci[d].regen_occurances + OneIf(ci[d].stale)
    BY DEF Generation, OneIf
  <2>5. ci[d].regen_occurances \in 0..MaxRegen
    BY <2>2 DEF CiType
  <2>6. ci[d].regen_occurances + OneIf(b) <= MaxRegen
    BY <2>2, <2>3, <2>4, <2>5, BoundAssumption DEF RegenOK, OneIf
  <2> HIDE DEF b
  <2>7. /\ k \in CiType /\ k.stale = b /\ k.regen_occurances = ci[d].regen_occurances
        /\ k.regen_required = ci[d].regen_required /\ k.added = ci[d].added
        /\ k.regen_in_progress = ci[d].regen_in_progress /\ k.refs = ci[d].refs
        /\ k.group = ci[d].group
    BY <2>1, <2>2 DEF CiType
  <2> HIDE DEF k
  <2>8. RegenOK(k)
    BY <2>2, <2>6, <2>7 DEF RegenOK
  <2> QED  BY <2>1, <2>7, <2>8
<1>4. ci' \in [Conns -> CiType]
  BY <1>2, <1>3
<1> QED  BY <1>2, <1>3, <1>4, InstancesStep
-----------------------------------------------------------------------------
(* The invariant holds *)

(* The invariant holds at the start. *)
LEMMA InitHolds == Init => IndInv
<1> SUFFICES ASSUME Init  PROVE IndInv
  OBVIOUS
<1>1. /\ \A x \in Contexts : ctx[x] = Idle
      /\ cmds = <<>> /\ host = <<>> /\ \A c \in Conns : rule[c] = NoRule
      /\ \A c \in Conns :
           /\ feci[c].accel_mode = "DECEL" /\ feci[c].flush_happened = FALSE
           /\ feci[c].driver_fail = 0
           /\ ci[c].added = FALSE /\ ci[c].refs = 0 /\ ci[c].group = "MAX"
           /\ ci[c].stale = FALSE /\ ci[c].regen_occurances = 0 /\ ci[c].regen_required = 0
           /\ ci[c].regen_in_progress = FALSE
  BY DEF Init
<1>2. TypeOK
  <2>1. feci \in [Conns -> FeciType]
    BY LimitAssumption DEF Init, FeciType, Modes
  <2>2. ci \in [Conns -> CiType]
    BY BoundAssumption DEF Init, CiType
  <2>3. ctx \in [Contexts -> CtxType]
    BY IdleType DEF Init
  <2>4. rule \in [Conns -> 0..NoRule]
    BY BoundAssumption DEF Init, NoRule
  <2>5. /\ cmds \in Seq(CmdType) /\ host \in Seq(HostType)
        /\ pending_accel_count \in Int /\ pending_decel_count \in Int /\ accelerated_count \in Int
    BY DEF Init
  <2> QED  BY <2>1, <2>2, <2>3, <2>4, <2>5 DEF TypeOK, CtxType
<1>3. ASSUME NEW x \in Contexts  PROVE CtxInv(x)
  BY <1>1, <1>3, IdleType DEF CtxInv, ReasonOK, At
<1>4. ASSUME NEW c \in Conns  PROVE ConnInv(c)
  <2>1. ASSUME NEW P, "idle" \notin P  PROVE Cardinality(Busy(c, P)) = 0
    <3>1. Busy(c, P) = {}
      BY <1>1, <2>1, IdleType DEF Busy
    <3> QED  BY <3>1, FS_EmptySet
  <2>2. /\ Building(c) = 0 /\ Sending(c) = 0 /\ Syncing(c) = 0 /\ Regenerating(c) = 0
    BY <2>1 DEF Building, Sending, Syncing, Regenerating
  <2>3. /\ CreateCmds(c) = 0 /\ DestroyCmds(c) = 0 /\ Creates(c) = 0 /\ Destroys(c) = 0
        /\ Flushes(c) = 0 /\ AckedCreates(c) = 0 /\ AckedDestroys(c) = 0
    BY <1>1, InEmpty DEF CreateCmds, DestroyCmds, Creates, Destroys, Flushes, AckedCreates,
       AckedDestroys
  <2>4. PendingOwned(c)
    BY <1>1, <2>2, <2>3 DEF PendingOwned, Mode, OneIf
  <2>5. FlushBalance(c)
    BY <1>1, <2>2, <2>3 DEF FlushBalance, Mode, OneIf, Failed
  <2>6. Untouched(c)
    BY <1>1 DEF Untouched, Mode
  <2>7. Bounded(c)
    BY <1>1, <2>2, BoundAssumption, LimitAssumption DEF Bounded, RegenOK, DriverOK, OneIf
  <2> QED  BY <2>4, <2>5, <2>6, <2>7 DEF ConnInv
<1> QED  BY <1>2, <1>3, <1>4 DEF IndInv

(* A packet is handled. *)
LEMMA PacketStep ==
  ASSUME IndInv, NEW x \in PacketCtx, Packet(x)
  PROVE  IndInv'
<1>1. Conn(x) \in Conns
  BY NotTimer, Known
<1>2. PICK c \in Conns : c = Conn(x)
  BY <1>1
<1> QED
  BY <1>2, TimerSetStep, PacketStartStep, PacketExpiredStep, RegenerateStep,
     AccelPendingSetStep, AccelDeniedStep, BuildAbortedStep, RuleBuiltStep, CreateSentStep,
     CreateRefusedStep DEF Packet

(* A rule is withdrawn. *)
LEMMA DecelerationStep ==
  ASSUME IndInv, NEW x \in Contexts, Deceleration(x)
  PROVE  IndInv'
<1>1. Conn(x) \in Conns
  BY Known
<1>2. PICK c \in Conns : c = Conn(x)
  BY <1>1
<1> QED
  BY <1>2, DecelerateStep, DefunctStep, DestroySentStep, DestroyGivenUpStep,
     DestroyRefusedStep, RearmStep, FailureHandledStep, LastRefStep DEF Deceleration

(* A message from the NSS is handled on. *)
LEMMA SyncStep ==
  ASSUME IndInv, NEW x \in NssCtx, Sync(x)
  PROVE  IndInv'
<1>1. Conn(x) \in Conns
  BY NotTimer, Known
<1>2. PICK c \in Conns : c = Conn(x)
  BY <1>1
<1> QED  BY <1>2, AccelCeasedStep, AccelEndedStep, RegenPeekStep DEF Sync

(* A stuttering step. *)
LEMMA UnchangedStep ==
  ASSUME IndInv, UNCHANGED vars
  PROVE  IndInv'
<1>1. UNCHANGED <<feci, ctx, nss, counts>> /\ ci' = ci
  BY DEF vars, nss
<1>2. ci \in [Conns -> CiType] /\ \A d \in Conns : RegenOK(ci[d])
  BY DEF IndInv, TypeOK, ConnInv, Bounded
<1> QED  BY <1>1, <1>2, InstancesStep

(* Every step of the specification keeps the invariant. *)
LEMMA NextHolds == IndInv /\ [Next]_vars => IndInv'
<1> SUFFICES ASSUME IndInv, [Next]_vars  PROVE IndInv'
  OBVIOUS
<1>1. CASE UNCHANGED vars
  BY <1>1, UnchangedStep
<1>2. CASE \E x \in PacketCtx, c \in Conns : ConnectionAdd(x, c) \/ PacketSeen(x, c)
  BY <1>2, ConnectionAddStep, PacketSeenStep
<1>3. CASE \E x \in PacketCtx : Packet(x)
  BY <1>3, PacketStep
<1>4. CASE \E x \in UserCtx, c \in Conns, op \in {"decel", "make"} : ForceDecel(x, c, op)
  BY <1>4, ForceDecelStep
<1>5. CASE \E c \in Conns : TimerExpires(c)
  BY <1>5, TimerExpiresStep
<1>6. CASE \E x \in Contexts : Deceleration(x)
  BY <1>6, DecelerationStep
<1>7. CASE \E x \in NssCtx, i \in DOMAIN host : Response(x, i) \/ SyncSeen(x, i)
  BY <1>7, CreateNackedStep, CreateFlushedStep, CreateAckedStep, DestroyAnsweredStep,
     SyncSeenStep DEF Response
<1>8. CASE \E x \in NssCtx : Sync(x)
  BY <1>8, SyncStep
<1>9. CASE \E c \in Conns : RegenNeeded(c) \/ NssSync(c) \/ NssFlush(c)
  BY <1>9, RegenNeededStep, NssNoteStep
<1>10. CASE AllRegenNeeded \/ NssCreate(TRUE) \/ NssCreate(FALSE) \/ NssDestroy
  BY <1>10, AllRegenNeededStep, NssCreateStep, NssDestroyStep
<1> QED
  BY <1>1, <1>2, <1>3, <1>4, <1>5, <1>6, <1>7, <1>8, <1>9, <1>10 DEF Next

(* The inductive invariant: whatever packets, timers, forced decelerations,*)
(* NSS callbacks and regenerations interleave, every mode that waits for   *)
(* the NSS has one owner, rules and flushes balance, and the contexts work *)
(* on connections that were added.                                         *)
THEOREM Invariance == Spec => []IndInv
<1>1. Init => IndInv
  BY InitHolds
<1>2. IndInv /\ [Next]_vars => IndInv'
  BY NextHolds
<1> QED  BY <1>1, <1>2, PTL DEF Spec

(* The instances, contexts, messages and rules stay within their types, so *)
(* no counter of a connection leaves its bounds.                           *)
THEOREM TypeCorrect == Spec => []TypeOK
<1>1. IndInv => TypeOK
  BY DEF IndInv
<1> QED  BY <1>1, Invariance, PTL

(* InFlight, which the properties of EcmAccel use, in terms of In *)
LEMMA InFlightIn ==
  ASSUME TypeOK, NEW c \in Conns
  PROVE  /\ InFlight(c, "create") = CreateCmds(c) + Creates(c)
         /\ InFlight(c, "destroy") = DestroyCmds(c) + Destroys(c)
<1>1. ASSUME NEW t
      PROVE  InFlight(c, t) = In(cmds, CmdOf(c, t)) + In(host, MsgOf(c, t))
  <2>1. \A i \in DOMAIN cmds : cmds[i] \in CmdOf(c, t) <=> cmds[i].c = c /\ cmds[i].type = t
    BY DEF TypeOK, CmdOf
  <2>2. \A i \in DOMAIN host : host[i] \in MsgOf(c, t) <=> host[i].c = c /\ host[i].type = t
    BY DEF TypeOK, MsgOf
  <2>3. /\ {i \in DOMAIN cmds : cmds[i].c = c /\ cmds[i].type = t}
             = {i \in DOMAIN cmds : cmds[i] \in CmdOf(c, t)}
        /\ {i \in DOMAIN host : host[i].c = c /\ host[i].type = t}
             = {i \in DOMAIN host : host[i] \in MsgOf(c, t)}
    BY <2>1, <2>2
  <2> QED  BY <2>3 DEF InFlight, In
<1> QED  BY <1>1 DEF CreateCmds, Creates, DestroyCmds, Destroys

(* Whatever interleaves, a connection in ACCEL_PENDING has exactly one     *)
(* construction or create under way and another has none: the callbacks    *)
(* find the mode they assert.                                              *)
THEOREM PendingAccelOwned == Spec => []AccelOwned
<1>1. IndInv => AccelOwned
  <2> SUFFICES ASSUME IndInv, NEW c \in Conns
               PROVE  Cardinality(Busy(c, {"build", "tx"})) + InFlight(c, "create")
                        = OneIf(feci[c].accel_mode = "ACCEL_PENDING")
    BY DEF AccelOwned
  <2>1. TypeOK /\ PendingOwned(c)
    BY DEF IndInv, ConnInv
  <2>2. Building(c) \in Nat /\ CreateCmds(c) \in Nat /\ Creates(c) \in Nat
    BY <2>1, CountTypes
  <2> QED  BY <2>1, <2>2, InFlightIn DEF PendingOwned, Building, Mode
<1> QED  BY <1>1, Invariance, PTL

(* The same for DECEL_PENDING and the destroy that is sent or answered: no *)
(* flush, retry or defunct moves the mode under it.                        *)
THEOREM PendingDecelOwned == Spec => []DecelOwned
<1>1. IndInv => DecelOwned
  <2> SUFFICES ASSUME IndInv, NEW c \in Conns
               PROVE  Cardinality(Busy(c, {"send"})) + InFlight(c, "destroy")
                        = OneIf(feci[c].accel_mode = "DECEL_PENDING")
    BY DEF DecelOwned
  <2>1. TypeOK /\ PendingOwned(c)
    BY DEF IndInv, ConnInv
  <2>2. Sending(c) \in Nat /\ DestroyCmds(c) \in Nat /\ Destroys(c) \in Nat
    BY <2>1, CountTypes
  <2> QED  BY <2>1, <2>2, InFlightIn DEF PendingOwned, Sending, Mode
<1> QED  BY <1>1, Invariance, PTL

(* The record that accel_ceased() makes of a flush that overtook an ACK is *)
(* gone when the create is answered, however often rules are flushed.      *)
THEOREM FlushRecordConsumed == Spec => []FlushConsumed
<1>1. IndInv => FlushConsumed
  BY DEF IndInv, ConnInv, FlushBalance, FlushConsumed, Mode
<1> QED  BY <1>1, Invariance, PTL
-----------------------------------------------------------------------------
(* Failing, and being failed *)

(* What a step may do to the mode of c: a failure is final, and fails only *)
(* what has no rule, unless the driver refuses messages.                   *)
Moves(c) ==
  /\ ci[c].added /\ Failed(Mode(c)) => Failed(Mode(c)')
  /\ Failed(Mode(c)') => \/ TxFails \/ rule'[c] = NoRule
                         \/ Failed(Mode(c)) /\ rule'[c] = rule[c]

(* Modes and rules that stay what they are. *)
LEMMA SameModes ==
  ASSUME \A d \in Conns : Mode(d)' = Mode(d) /\ rule'[d] = rule[d]
  PROVE  \A d \in Conns : Moves(d)
  BY DEF Moves

(* Where the balance leaves no room for a rule *)
LEMMA NoRuleWhen ==
  ASSUME IndInv, NEW c \in Conns
  PROVE  /\ Mode(c) = "DECEL" => rule[c] = NoRule
         /\ Mode(c) = "ACCEL_PENDING" /\ AckedCreates(c) = 0 => rule[c] = NoRule
         /\ Mode(c) = "ACCEL" /\ Syncing(c) > 0 => rule[c] = NoRule
         /\ Destroys(c) > 0 => rule[c] = NoRule
<1>1. TypeOK /\ ConnInv(c)
  BY DEF IndInv
<1>2. /\ Building(c) \in Nat /\ CreateCmds(c) \in Nat /\ Creates(c) \in Nat
      /\ Destroys(c) \in Nat /\ Flushes(c) \in Nat /\ Syncing(c) \in Nat
      /\ AckedDestroys(c) \in Nat /\ AckedCreates(c) \in Nat /\ AckedCreates(c) <= Creates(c)
  BY <1>1, CountTypes, AckedAtMost
<1>3. \A b : OneIf(b) \in {0, 1} /\ (b => OneIf(b) = 1) /\ (~b => OneIf(b) = 0)
  BY DEF OneIf
<1>4. Building(c) + CreateCmds(c) + Creates(c) = OneIf(Mode(c) = "ACCEL_PENDING")
  BY <1>1 DEF ConnInv, PendingOwned
<1>5. Mode(c) # "ACCEL_PENDING" => AckedCreates(c) = 0
  BY <1>2, <1>4 DEF OneIf
<1>6. Flushes(c) + Syncing(c) + OneIf(feci[c].flush_happened) + OneIf(rule[c] # NoRule)
       + AckedDestroys(c)
     <= OneIf(Mode(c) \in {"ACCEL", "DECEL_PENDING"}) + AckedCreates(c) + OneIf(Failed(Mode(c)))
  BY <1>1 DEF ConnInv, FlushBalance
<1>7. OneIf(feci[c].flush_happened) \in Nat /\ OneIf(rule[c] # NoRule) \in Nat
      /\ (OneIf(rule[c] # NoRule) = 0 => rule[c] = NoRule)
  BY DEF OneIf
<1>8. /\ Mode(c) = "DECEL" => /\ OneIf(Mode(c) \in {"ACCEL", "DECEL_PENDING"}) = 0
                              /\ OneIf(Failed(Mode(c))) = 0
      /\ Mode(c) = "ACCEL_PENDING" => /\ OneIf(Mode(c) \in {"ACCEL", "DECEL_PENDING"}) = 0
                                      /\ OneIf(Failed(Mode(c))) = 0
      /\ Mode(c) = "ACCEL" => /\ OneIf(Mode(c) \in {"ACCEL", "DECEL_PENDING"}) = 1
                              /\ OneIf(Failed(Mode(c))) = 0
  BY DEF OneIf, Failed, FailModes
<1>9. ASSUME Mode(c) = "DECEL" \/ (Mode(c) = "ACCEL_PENDING" /\ AckedCreates(c) = 0)
      PROVE  rule[c] = NoRule
  <2>1. /\ OneIf(Mode(c) \in {"ACCEL", "DECEL_PENDING"}) = 0 /\ OneIf(Failed(Mode(c))) = 0
        /\ AckedCreates(c) = 0
    BY <1>5, <1>8, <1>9
  <2>2. OneIf(rule[c] # NoRule) = 0
    BY <1>2, <1>6, <1>7, <2>1
  <2> QED  BY <1>7, <2>2
<1>10. Mode(c) = "ACCEL" /\ Syncing(c) > 0 => rule[c] = NoRule
  BY <1>2, <1>5, <1>6, <1>7, <1>8
<1>11. Destroys(c) > 0 => rule[c] = NoRule
  BY <1>1 DEF ConnInv, FlushBalance
<1> QED  BY <1>9, <1>10, <1>11

(* An answer that refuses a create, or answers a destroy, leaves no rule. *)
LEMMA NoRuleAnswered ==
  ASSUME IndInv, NEW i \in DOMAIN host, NEW m, m = host[i], NEW c, c = m.c
  PROVE  /\ m.type = "create" /\ ~m.ack => rule[c] = NoRule
         /\ m.type = "destroy" => rule[c] = NoRule
<1>1. TypeOK /\ host \in Seq(HostType)
  BY DEF IndInv, TypeOK
<1>2. /\ m \in HostType /\ c \in Conns
      /\ m.type = "create" => Mode(c) = "ACCEL_PENDING"
  BY Answers
<1>3. ConnInv(c)
  BY <1>2 DEF IndInv
<1>4. ASSUME m.type = "destroy"  PROVE rule[c] = NoRule
  <2>1. Destroys(c) > 0
    BY <1>1, <1>2, <1>4, MsgKinds, InPositive DEF Destroys
  <2> QED  BY <1>2, <2>1, NoRuleWhen
<1>5. ASSUME m.type = "create", ~m.ack  PROVE rule[c] = NoRule
  <2> DEFINE r == RemoveAt(host, i)
  <2>1. r \in Seq(HostType)
    BY <1>1, RemoveAtOK
  <2>2. ASSUME NEW M  PROVE In(r, M) = In(host, M) - (IF m \in M THEN 1 ELSE 0)
    BY <1>1, InRemoveAt
  <2> HIDE DEF r
  <2>3. /\ In(r, MsgOf(c, "create")) = In(host, MsgOf(c, "create")) - 1
        /\ In(r, AckOf(c, "create")) = In(host, AckOf(c, "create")) - 0
    BY <1>2, <1>5, <2>2, MsgKinds
  <2>4. In(r, AckOf(c, "create")) <= In(r, MsgOf(c, "create"))
    BY <2>1, InSubset DEF AckOf
  <2>5. /\ Building(c) \in Nat /\ CreateCmds(c) \in Nat /\ Creates(c) \in Nat
        /\ AckedCreates(c) \in Nat
    BY <1>1, <1>2, CountTypes
  <2>6. Building(c) + CreateCmds(c) + Creates(c) = 1
    BY <1>2, <1>3, <1>5 DEF ConnInv, PendingOwned, OneIf
  <2>7. AckedCreates(c) = 0
    BY <2>3, <2>4, <2>5, <2>6 DEF Creates, AckedCreates
  <2> QED  BY <1>2, <1>5, <2>7, NoRuleWhen
<1> QED  BY <1>4, <1>5

(* The steps of a packet, of a deceleration and of a message *)
LEMMA PacketMoves ==
  ASSUME IndInv, NEW x \in PacketCtx, Packet(x)
  PROVE  \A d \in Conns : Moves(d)
<1>1. TypeOK /\ x \in Contexts /\ Conn(x) \in Conns
  BY NotTimer, Known
<1>2. PICK c \in Conns : c = Conn(x)
  BY <1>1
<1>3. feci \in [Conns -> FeciType]
  BY <1>1 DEF TypeOK
<1>4. UNCHANGED rule
  BY DEF Packet, TimerSet, PacketStart, PacketExpired, Regenerate, AccelUnwanted,
     AccelPendingSet, AccelDenied, BuildAborted, RuleBuilt, CreateSent, CreateRefused, nss
<1>5. CASE UNCHANGED feci
  BY <1>4, <1>5, SameModes DEF Mode
<1>6. CASE CreateSent(x)
  BY <1>2, <1>3, <1>4, <1>6, SameModes DEF Mode, CreateSent, FeciType
<1>7. CASE AccelPendingSet(x)
  BY <1>2, <1>3, <1>4, <1>7 DEF AccelPendingSet, AccelPermitted, Moves, Mode, Failed, FailModes,
     FeciType
<1>8. CASE BuildAborted(x) \/ CreateRefused(x)
  <2>1. /\ ctx[x].pc \in {"build", "tx"} /\ (ctx[x].pc = "tx" => TxFails)
        /\ \A d \in Conns \ {c} : feci'[d] = feci[d]
    BY <1>2, <1>3, <1>8 DEF BuildAborted, CreateRefused, At
  <2>2. Mode(c) = "ACCEL_PENDING" /\ Creates(c) = 0
    BY <1>1, <1>2, <2>1, Owners
  <2>3. rule[c] = NoRule
    <3>1. AckedCreates(c) = 0
      BY <1>1, <2>2, CountTypes, AckedAtMost
    <3> QED  BY <2>2, <3>1, NoRuleWhen
  <2>4. ~Failed(Mode(c))
    BY <2>2 DEF Failed, FailModes
  <2>5. Moves(c)
    BY <1>4, <2>3, <2>4 DEF Moves
  <2>6. ASSUME NEW d \in Conns \ {c}  PROVE Moves(d)
    BY <1>4, <2>1 DEF Moves, Mode
  <2> QED  BY <2>5, <2>6
<1> QED
  BY <1>5, <1>6, <1>7, <1>8 DEF Packet, TimerSet, PacketStart, PacketExpired, Regenerate,
     AccelUnwanted, AccelDenied, RuleBuilt

(* How the modes change when a rule is withdrawn, *)
LEMMA DecelerationMoves ==
  ASSUME IndInv, NEW x \in Contexts, Deceleration(x)
  PROVE  \A d \in Conns : Moves(d)
<1>1. TypeOK /\ Conn(x) \in Conns
  BY Known
<1>2. PICK c \in Conns : c = Conn(x)
  BY <1>1
<1>3. feci \in [Conns -> FeciType] /\ feci[c] \in FeciType
  BY <1>1 DEF TypeOK
<1>4. UNCHANGED rule
  BY DEF Deceleration, Decelerate, Defunct, DestroySent, DestroyGivenUp, DestroyRefused, Rearm,
     FailureHandled, LastRef, nss
<1>5. CASE Rearm(x) \/ LastRef(x)
  BY <1>4, <1>5, SameModes DEF Mode, Rearm, LastRef
<1>6. CASE DestroySent(x) \/ FailureHandled(x)
  <2>1. \/ feci' = [feci EXCEPT ![c].driver_fail = 0]
        \/ feci' = [feci EXCEPT ![c].destroy_fail_handle_pending = FALSE]
    BY <1>2, <1>6 DEF DestroySent, FailureHandled
  <2>2. \A d \in Conns : feci'[d].accel_mode = feci[d].accel_mode
    BY <1>3, <2>1 DEF FeciType
  <2> QED  BY <1>4, <2>2, SameModes DEF Mode
<1>7. CASE DestroyGivenUp(x) \/ DestroyRefused(x)
  <2>1. At(x, "send") /\ TxFails /\ \A d \in Conns \ {c} : feci'[d] = feci[d]
    BY <1>2, <1>3, <1>7 DEF DestroyGivenUp, DestroyRefused
  <2>2. ~Failed(Mode(c))
    BY <1>2, <2>1, Owners DEF Failed, FailModes
  <2> QED  BY <1>4, <2>1, <2>2 DEF Moves, Mode
<1>8. CASE Decelerate(x)
  <2>1. feci'[c] = DecelNoted(feci[c]) /\ \A d \in Conns \ {c} : feci'[d] = feci[d]
    BY <1>2, <1>3, <1>8 DEF Decelerate
  <2>2. Mode(c)' = IF DecelAllowed(feci[c]) THEN "DECEL_PENDING" ELSE Mode(c)
    BY <1>3, <2>1, DecelNotedOK DEF Mode
  <2>3. Moves(c)
    BY <1>4, <2>2 DEF Moves, DecelAllowed, Mode, Failed, FailModes
  <2>4. ASSUME NEW d \in Conns \ {c}  PROVE Moves(d)
    BY <1>4, <2>1 DEF Moves, Mode
  <2> QED  BY <2>3, <2>4
<1>9. CASE Defunct(x)
  <2>1. feci'[c] = Defuncted(feci[c]) /\ \A d \in Conns \ {c} : feci'[d] = feci[d]
    BY <1>2, <1>3, <1>9 DEF Defunct
  <2>2. Mode(c)' = IF DefunctRefused(feci[c]) THEN Mode(c)
                   ELSE IF Mode(c) = "DECEL" THEN "FAIL_DEFUNCT"
                   ELSE IF DecelAllowed(feci[c]) THEN "DECEL_PENDING" ELSE Mode(c)
    BY <1>3, <2>1, DefunctedOK DEF Mode
  <2>3. Mode(c) = "DECEL" => rule[c] = NoRule
    BY NoRuleWhen
  <2>4. Moves(c)
    BY <1>4, <2>2, <2>3 DEF Moves, DecelAllowed, Mode, Failed, FailModes
  <2>5. ASSUME NEW d \in Conns \ {c}  PROVE Moves(d)
    BY <1>4, <2>1 DEF Moves, Mode
  <2> QED  BY <2>4, <2>5
<1> QED  BY <1>5, <1>6, <1>7, <1>8, <1>9 DEF Deceleration

(* ... when a message is handled on, *)
LEMMA SyncMoves ==
  ASSUME IndInv, NEW x \in NssCtx, Sync(x)
  PROVE  \A d \in Conns : Moves(d)
<1>1. TypeOK /\ x \in Contexts /\ Conn(x) \in Conns
  BY NotTimer, Known
<1>2. PICK c \in Conns : c = Conn(x)
  BY <1>1
<1>3. feci \in [Conns -> FeciType] /\ feci[c] \in FeciType
  BY <1>1 DEF TypeOK
<1>4. UNCHANGED rule
  BY DEF Sync, AccelCeased, AccelEnded, RegenPeek, nss
<1>5. CASE AccelEnded(x) \/ RegenPeek(x)
  BY <1>4, <1>5, SameModes DEF Mode, AccelEnded, RegenPeek
<1>6. CASE AccelCeased(x)
  <2>1. At(x, "sync") /\ \A d \in Conns \ {c} : feci'[d] = feci[d]
    BY <1>2, <1>3, <1>6 DEF AccelCeased
  <2>2. Mode(c)' = Mode(c) \/ Mode(c) = "ACCEL"
    BY <1>2, <1>3, <1>6 DEF AccelCeased, Mode, FeciType
  <2>3. Syncing(c) > 0
    BY <1>1, <1>2, <2>1, BusyCounts DEF Syncing, Conn, At
  <2>4. Mode(c) = "ACCEL" => rule[c] = NoRule /\ ~Failed(Mode(c))
    BY <2>3, NoRuleWhen DEF Failed, FailModes
  <2>5. Moves(c)
    BY <1>4, <2>2, <2>4 DEF Moves
  <2>6. ASSUME NEW d \in Conns \ {c}  PROVE Moves(d)
    BY <1>4, <2>1 DEF Moves, Mode
  <2> QED  BY <2>5, <2>6
<1> QED  BY <1>5, <1>6 DEF Sync

(* ... when it comes, *)
LEMMA MessageMoves ==
  ASSUME IndInv, NEW x \in NssCtx, NEW i \in DOMAIN host, Response(x, i) \/ SyncSeen(x, i)
  PROVE  \A d \in Conns : Moves(d)
<1>1. PICK m : m = host[i]
  OBVIOUS
<1>2. PICK c : c = m.c
  OBVIOUS
<1>3. /\ m \in HostType /\ c \in Conns
      /\ m.type = "create" => Mode(c) = "ACCEL_PENDING"
      /\ m.type = "destroy" => Mode(c) = "DECEL_PENDING"
      /\ m.type = "create" /\ ~m.ack => rule[c] = NoRule
      /\ m.type = "destroy" => rule[c] = NoRule
  BY <1>1, <1>2, Answers, NoRuleAnswered
<1>4. feci \in [Conns -> FeciType] /\ feci[c] \in FeciType
  BY <1>3 DEF IndInv, TypeOK
<1>5. UNCHANGED rule
  BY DEF Response, CreateNacked, CreateFlushed, CreateAcked, DestroyAnswered, SyncSeen
<1>6. \A d \in Conns \ {c} : feci'[d] = feci[d]
  BY <1>1, <1>2, <1>4 DEF Response, CreateNacked, CreateFlushed, CreateAcked, DestroyAnswered,
     SyncSeen
<1>7. ~Failed("ACCEL_PENDING") /\ ~Failed("DECEL_PENDING") /\ ~Failed("ACCEL") /\ ~Failed("DECEL")
  BY DEF Failed, FailModes
<1>8. Moves(c)
  <2>1. CASE CreateNacked(x, i) \/ DestroyAnswered(x, i)
    <3>1. (m.type = "create" /\ ~m.ack) \/ m.type = "destroy"
      BY <1>1, <2>1 DEF CreateNacked, DestroyAnswered
    <3> QED  BY <1>3, <1>5, <1>7, <3>1 DEF Moves
  <2>2. CASE CreateFlushed(x, i)
    <3> DEFINE n == AtMost(feci[c].no_action_seen + 1, NoActionLimit)
    <3>1. m.type = "create" /\ feci'[c] = [PendingCleared(feci[c], "DECEL") EXCEPT
                                             !.flush_happened = FALSE, !.no_action_seen = n]
      BY <1>1, <1>2, <1>3, <1>4, <2>2 DEF CreateFlushed
    <3> HIDE DEF n
    <3>2. Mode(c)' = "DECEL"
      BY <1>4, <3>1 DEF PendingCleared, Mode, FeciType
    <3> QED  BY <1>3, <1>7, <3>1, <3>2 DEF Moves
  <2>3. CASE CreateAcked(x, i)
    <3> DEFINE g == [PendingCleared(feci[c], "ACCEL") EXCEPT !.ae_nack = 0]
               n == AtMost(g.no_action_seen + 1, NoActionLimit)
    <3>1. /\ m.type = "create"
          /\ feci'[c] = [g EXCEPT !.is_defunct = FALSE] \/ feci'[c] = [g EXCEPT !.no_action_seen = n]
      BY <1>1, <1>2, <1>3, <1>4, <2>3 DEF CreateAcked
    <3>2. g.accel_mode = "ACCEL" /\ [g EXCEPT !.is_defunct = FALSE].accel_mode = "ACCEL"
          /\ [g EXCEPT !.no_action_seen = n].accel_mode = "ACCEL"
      BY <1>4 DEF PendingCleared, FeciType
    <3> HIDE DEF g, n
    <3>3. Mode(c)' = "ACCEL"
      BY <3>1, <3>2 DEF Mode
    <3> QED  BY <1>3, <1>7, <3>1, <3>3 DEF Moves
  <2>4. CASE SyncSeen(x, i)
    <3>1. Mode(c)' = Mode(c)
      BY <1>1, <1>2, <1>3, <1>4, <2>4 DEF SyncSeen, Mode, FeciType
    <3> QED  BY <1>5, <3>1 DEF Moves
  <2> QED  BY <2>1, <2>2, <2>3, <2>4 DEF Response
<1>9. ASSUME NEW d \in Conns \ {c}  PROVE Moves(d)
  BY <1>5, <1>6 DEF Moves, Mode
<1> QED  BY <1>8, <1>9

(* The NSS gives a rule to a connection in ACCEL_PENDING only. *)
LEMMA NssMoves ==
  ASSUME IndInv, \/ NssCreate(TRUE) \/ NssCreate(FALSE) \/ NssDestroy
                 \/ \E c \in Conns : NssSync(c) \/ NssFlush(c)
  PROVE  \A d \in Conns : Moves(d)
<1>1. UNCHANGED feci /\ rule \in [Conns -> 0..NoRule]
  BY DEF NssCreate, NssDestroy, NssSync, NssFlush, IndInv, TypeOK
<1>2. ASSUME NEW d \in Conns
      PROVE  rule'[d] = rule[d] \/ rule'[d] = NoRule \/ Mode(d) = "ACCEL_PENDING"
  <2>1. CASE NssCreate(TRUE) \/ NssCreate(FALSE)
    <3>1. PICK m : m = Head(cmds)
      OBVIOUS
    <3>2. PICK c : c = m.c
      OBVIOUS
    <3>3. /\ cmds # <<>> /\ m.type = "create"
          /\ rule' = [rule EXCEPT ![c] = m.gen] \/ rule' = rule
      BY <2>1, <3>1, <3>2 DEF NssCreate
    <3>4. Mode(c) = "ACCEL_PENDING"
      BY <3>1, <3>2, <3>3, Commands
    <3> QED  BY <1>1, <3>3, <3>4
  <2>2. CASE NssDestroy \/ \E c \in Conns : NssSync(c) \/ NssFlush(c)
    BY <1>1, <2>2 DEF NssDestroy, NssSync, NssFlush
  <2> QED  BY <2>1, <2>2
<1>3. ~Failed("ACCEL_PENDING")
  BY DEF Failed, FailModes
<1> QED  BY <1>1, <1>2, <1>3 DEF Moves, Mode

(* ... and in every step. *)
LEMMA StepMoves ==
  ASSUME IndInv, [Next]_vars
  PROVE  \A d \in Conns : Moves(d)
<1>1. CASE UNCHANGED vars
  BY <1>1, SameModes DEF vars, Mode
<1>2. CASE \E x \in PacketCtx, c \in Conns : ConnectionAdd(x, c)
  <2>1. PICK x \in PacketCtx, c \in Conns : ConnectionAdd(x, c)
    BY <1>2
  <2>2. feci \in [Conns -> FeciType]
    BY DEF IndInv, TypeOK
  <2>3. UNCHANGED rule /\ ~ci[c].added /\ \A d \in Conns \ {c} : feci'[d] = feci[d]
    BY <2>1, <2>2 DEF ConnectionAdd, nss
  <2>4. rule[c] = NoRule
    <3>1. Mode(c) = "DECEL"
      BY <2>3 DEF IndInv, ConnInv, Untouched
    <3> QED  BY <3>1, NoRuleWhen
  <2> QED  BY <2>3, <2>4 DEF Moves, Mode
<1>3. CASE \/ \E x \in PacketCtx, c \in Conns : PacketSeen(x, c)
           \/ \E x \in UserCtx, c \in Conns, op \in {"decel", "make"} : ForceDecel(x, c, op)
           \/ \E c \in Conns : TimerExpires(c) \/ RegenNeeded(c)
           \/ AllRegenNeeded
  <2>1. UNCHANGED <<feci, rule>>
    BY <1>3 DEF PacketSeen, ForceDecel, TimerExpires, RegenNeeded, AllRegenNeeded, nss
  <2> QED  BY <2>1, SameModes DEF Mode
<1>4. CASE \E x \in PacketCtx : Packet(x)
  BY <1>4, PacketMoves
<1>5. CASE \E x \in Contexts : Deceleration(x)
  BY <1>5, DecelerationMoves
<1>6. CASE \E x \in NssCtx, i \in DOMAIN host : Response(x, i) \/ SyncSeen(x, i)
  BY <1>6, MessageMoves
<1>7. CASE \E x \in NssCtx : Sync(x)
  BY <1>7, SyncMoves
<1>8. CASE \/ NssCreate(TRUE) \/ NssCreate(FALSE) \/ NssDestroy
           \/ \E c \in Conns : NssSync(c) \/ NssFlush(c)
  BY <1>8, NssMoves
<1> QED
  BY <1>1, <1>2, <1>3, <1>4, <1>5, <1>6, <1>7, <1>8 DEF Next

(* A connection that failed stays failed: no late response, retry or flush *)
(* brings it back, although each of them writes accel_mode.                *)
THEOREM FailureFinal == Spec => FailIsFinal
<1>1. IndInv /\ [Next]_vars =>
        [\A c \in Conns : ci[c].added /\ Failed(feci[c].accel_mode)
                             => Failed(feci'[c].accel_mode)]_vars
  BY StepMoves DEF Moves, Mode
<1> QED  BY <1>1, Invariance, PTL DEF Spec, FailIsFinal

(* A connection that failed has no rule. *)
RuleGone == \A c \in Conns : Failed(Mode(c)) => rule[c] = NoRule

(* As long as the driver takes every message, the NSS has rules only for   *)
(* connections that ECM still has to decelerate: a flush that overtakes an *)
(* ACK, a defunct during the create or a late destroy leaves none behind.  *)
THEOREM RulesTracked == ~TxFails => (Spec => []RuleTracked)
<1> SUFFICES ASSUME ~TxFails  PROVE Spec => []RuleTracked
  OBVIOUS
<1>1. Init => RuleGone
  BY DEF Init, RuleGone
<1>2. IndInv /\ RuleGone /\ [Next]_vars => RuleGone'
  <2> SUFFICES ASSUME IndInv, RuleGone, [Next]_vars, NEW c \in Conns, Failed(Mode(c)')
               PROVE  rule'[c] = NoRule
    BY DEF RuleGone
  <2>1. Moves(c)
    BY StepMoves
  <2> QED  BY <2>1 DEF Moves, RuleGone
<1>3. IndInv /\ RuleGone => RuleTracked
  <2> SUFFICES ASSUME IndInv, RuleGone, NEW c \in Conns, rule[c] # NoRule
               PROVE  feci[c].accel_mode \in {"ACCEL_PENDING", "ACCEL", "DECEL_PENDING"}
    BY DEF RuleTracked
  <2>1. feci[c].accel_mode \in Modes
    BY DEF IndInv, TypeOK, FeciType
  <2>2. feci[c].accel_mode # "DECEL"
    BY NoRuleWhen DEF Mode
  <2> QED  BY <2>1, <2>2 DEF RuleGone, Failed, Modes, Mode
<1> QED  BY <1>1, <1>2, <1>3, Invariance, PTL DEF Spec
=============================================================================
