--------------------------- MODULE EcmRefsProofs ----------------------------
(***************************************************************************)
(* The references of a connection, for any number of connections and       *)
(* contexts, while the driver takes every message: all that uses a         *)
(* connection holds one, and a connection is freed with its timer          *)
(* detached.                                                               *)
(***************************************************************************)
EXTENDS EcmAccelProofs

-----------------------------------------------------------------------------
(* The inductive invariant *)

(* States in which a context holds a reference for a message too *)
Twice == {"tx", "rearm", "unpend"}

Flight(c) == CreateCmds(c) + Creates(c) + DestroyCmds(c) + Destroys(c)
Working(c) == Cardinality(Busy(c, Pcs \ {"idle"}))
Adding(c) == Cardinality(Busy(c, {"add"}))
TimerBusy(c) == ctx[TimerCtx].c = c /\ ctx[TimerCtx].pc # "idle"

(* Who should hold a reference.  The timer's callback works on the timer's *)
(* own one, which it took over when the timer left its group.              *)
Users(c) ==
  Working(c) + Cardinality(Busy(c, Twice)) + Flight(c) + OneIf(ci[c].group # "MAX")

(* A timer that has expired is in no group; before connection_add() ends   *)
(* there is none; and only when both are over can a callback have left the *)
(* reference behind.                                                       *)
RefOK(c) ==
  /\ TimerBusy(c) => ci[c].group = "MAX"
  /\ Adding(c) <= 1
  /\ Adding(c) > 0 => ci[c].group = "MAX" /\ ~TimerBusy(c)
  /\ \/ ci[c].refs = Users(c)
     \/ /\ ci[c].refs = Users(c) + 1 /\ ci[c].group = "MAX"
        /\ ~TimerBusy(c) /\ Adding(c) = 0

RefInv ==
  /\ \A x \in Contexts : ctx[x].pc \notin {"rearm", "unpend"}
  /\ \A c \in Conns : RefOK(c)

-----------------------------------------------------------------------------
(* How the number of references that are held changes *)

Hold(e) == OneIf(e.pc # "idle") + OneIf(e.pc \in Twice)

(* All the numbers are natural numbers. *)
LEMMA UserTypes ==
  ASSUME TypeOK, NEW c \in Conns
  PROVE  /\ Flight(c) \in Nat /\ Working(c) \in Nat /\ Adding(c) \in Nat
         /\ Cardinality(Busy(c, Twice)) \in Nat /\ Users(c) \in Nat
<1>1. \A P : Busy(c, P) \subseteq Contexts
  BY DEF Busy
<1>2. \A P : Cardinality(Busy(c, P)) \in Nat
  BY <1>1, FiniteAssumption, FS_Subset, FS_CardinalityType
<1>3. Flight(c) \in Nat
  BY CountTypes DEF Flight
<1>4. OneIf(ci[c].group # "MAX") \in Nat
  BY DEF OneIf
<1> QED  BY <1>2, <1>3, <1>4 DEF Working, Adding, Users

(* The same after a step *)
LEMMA FlightNext ==
  ASSUME TypeOK', NEW c \in Conns
  PROVE  Flight(c)' \in Nat
<1>1. cmds' \in Seq(CmdType) /\ host' \in Seq(HostType)
  BY DEF TypeOK
<1>2. \A M : In(cmds', M) \in Nat /\ In(host', M) \in Nat
  BY <1>1, InType
<1> QED  BY <1>2 DEF Flight, CreateCmds, Creates, DestroyCmds, Destroys, CmdOf, MsgOf

(* The step of x, which works on c before and after it *)
LEMMA UsersChange ==
  ASSUME TypeOK, TypeOK', NEW x \in Contexts, NEW c \in Conns,
         \A y \in Contexts \ {x} : ctx'[y] = ctx[y],
         ctx[x].pc = "idle" \/ ctx[x].c = c, ctx'[x].pc = "idle" \/ ctx'[x].c = c
  PROVE  /\ Users(c)' = Users(c) + Hold(ctx'[x]) - Hold(ctx[x]) + Flight(c)' - Flight(c)
                         + OneIf(ci'[c].group # "MAX") - OneIf(ci[c].group # "MAX")
         /\ Adding(c)' = Adding(c) + OneIf(ctx'[x].pc = "add") - OneIf(ctx[x].pc = "add")
<1>1. ASSUME NEW P, "idle" \notin P
      PROVE  /\ Cardinality(Busy(c, P)) \in Nat
             /\ Cardinality(Busy(c, P))' = Cardinality(Busy(c, P))
                  - OneIf(ctx[x].pc \in P) + OneIf(ctx'[x].pc \in P)
  <2>1. /\ Cardinality(Busy(c, P)) \in Nat
        /\ Cardinality(Busy(c, P))' = Cardinality(Busy(c, P))
             - OneIf(ctx[x].c = c /\ ctx[x].pc \in P) + OneIf(ctx'[x].c = c /\ ctx'[x].pc \in P)
    BY CtxStep
  <2>2. /\ OneIf(ctx[x].c = c /\ ctx[x].pc \in P) = OneIf(ctx[x].pc \in P)
        /\ OneIf(ctx'[x].c = c /\ ctx'[x].pc \in P) = OneIf(ctx'[x].pc \in P)
    BY <1>1 DEF OneIf
  <2> QED  BY <2>1, <2>2
<1>2. ctx[x].pc \in Pcs /\ ctx'[x].pc \in Pcs
  BY DEF TypeOK
<1>3. Working(c)' = Working(c) - OneIf(ctx[x].pc # "idle") + OneIf(ctx'[x].pc # "idle")
  <2>1. Working(c)' = Working(c) - OneIf(ctx[x].pc \in Pcs \ {"idle"})
                                 + OneIf(ctx'[x].pc \in Pcs \ {"idle"})
    BY <1>1 DEF Working
  <2>2. /\ OneIf(ctx[x].pc \in Pcs \ {"idle"}) = OneIf(ctx[x].pc # "idle")
        /\ OneIf(ctx'[x].pc \in Pcs \ {"idle"}) = OneIf(ctx'[x].pc # "idle")
    BY <1>2 DEF OneIf
  <2> QED  BY <2>1, <2>2
<1>4. Cardinality(Busy(c, Twice))' = Cardinality(Busy(c, Twice))
        - OneIf(ctx[x].pc \in Twice) + OneIf(ctx'[x].pc \in Twice)
  BY <1>1 DEF Twice
<1>5. Adding(c)' = Adding(c) - OneIf(ctx[x].pc = "add") + OneIf(ctx'[x].pc = "add")
  <2>1. Adding(c)' = Adding(c) - OneIf(ctx[x].pc \in {"add"}) + OneIf(ctx'[x].pc \in {"add"})
    BY <1>1 DEF Adding
  <2>2. /\ OneIf(ctx[x].pc \in {"add"}) = OneIf(ctx[x].pc = "add")
        /\ OneIf(ctx'[x].pc \in {"add"}) = OneIf(ctx'[x].pc = "add")
    BY DEF OneIf
  <2> QED  BY <2>1, <2>2
<1>6. \A b : OneIf(b) \in Int
  BY DEF OneIf
<1>7. /\ Working(c) \in Nat /\ Adding(c) \in Nat /\ Cardinality(Busy(c, Twice)) \in Nat
      /\ Flight(c) \in Nat /\ Flight(c)' \in Nat
  <2>1. Flight(c)' \in Nat
    BY FlightNext
  <2> QED  BY <2>1, UserTypes
<1> QED
  BY <1>3, <1>4, <1>5, <1>6, <1>7 DEF Users, Hold

(* The step of x changes nothing for a connection d that it is not about. *)
HoldsOnly(x, c) ==
  /\ \A y \in Contexts \ {x} : ctx'[y] = ctx[y]
  /\ ctx[x].pc = "idle" \/ ctx[x].c = c
  /\ ctx'[x].pc = "idle" \/ ctx'[x].c = c
  /\ \A d \in Conns \ {c} :
       /\ ci'[d].refs = ci[d].refs /\ ci'[d].group = ci[d].group /\ Flight(d)' = Flight(d)

(* Connections that a step of x on c has nothing to do with. *)
LEMMA OtherRefs ==
  ASSUME TypeOK, NEW x \in Contexts, NEW c \in Conns, HoldsOnly(x, c), NEW d \in Conns \ {c},
         RefOK(d)
  PROVE  RefOK(d)'
<1>1. ASSUME NEW P, "idle" \notin P
      PROVE  Cardinality(Busy(d, P))' = Cardinality(Busy(d, P))
  <2>1. Busy(d, P)' = Busy(d, P)
    BY <1>1 DEF Busy, HoldsOnly
  <2> QED  BY <2>1
<1>2. /\ Working(d)' = Working(d) /\ Adding(d)' = Adding(d)
      /\ Cardinality(Busy(d, Twice))' = Cardinality(Busy(d, Twice))
  BY <1>1 DEF Working, Adding, Twice
<1>3. ci'[d].refs = ci[d].refs /\ ci'[d].group = ci[d].group /\ Flight(d)' = Flight(d)
  BY DEF HoldsOnly
<1>4. Users(d)' = Users(d)
  BY <1>2, <1>3 DEF Users
<1>5. TimerBusy(d)' <=> TimerBusy(d)
  BY NotTimer DEF TimerBusy, HoldsOnly
<1> QED  BY <1>2, <1>3, <1>4, <1>5 DEF RefOK

(* So only c has to be looked at. *)
LEMMA RefStep ==
  ASSUME IndInv, RefInv, NEW x \in Contexts, NEW c \in Conns, HoldsOnly(x, c),
         ctx'[x].pc \notin {"rearm", "unpend"}, RefOK(c)'
  PROVE  RefInv'
<1>1. ASSUME NEW d \in Conns  PROVE RefOK(d)'
  <2>1. CASE d = c
    BY <2>1
  <2>2. CASE d # c
    <3>1. TypeOK /\ RefOK(d)
      BY DEF IndInv, RefInv
    <3> QED  BY <2>2, <3>1, OtherRefs
  <2> QED  BY <2>1, <2>2
<1>2. ASSUME NEW y \in Contexts  PROVE ctx'[y].pc \notin {"rearm", "unpend"}
  BY DEF HoldsOnly, RefInv
<1> QED  BY <1>1, <1>2 DEF RefInv

(* A step that takes and gives back what it should, and leaves the timer   *)
(* alone                                                                   *)
LEMMA BalancedStep ==
  ASSUME IndInv, IndInv', RefInv, NEW x \in Contexts, NEW c \in Conns, HoldsOnly(x, c),
         ctx[x].pc # "add", ctx'[x].pc \notin {"add", "rearm", "unpend"},
         x = TimerCtx => ctx[x].pc # "idle" /\ ctx'[x].pc # "idle",
         ci'[c].group = ci[c].group,
         ci'[c].refs = ci[c].refs + Hold(ctx'[x]) - Hold(ctx[x]) + Flight(c)' - Flight(c)
  PROVE  RefInv'
<1>1. TypeOK /\ TypeOK' /\ RefOK(c)
  BY DEF IndInv, RefInv
<1>2. /\ Users(c)' = Users(c) + Hold(ctx'[x]) - Hold(ctx[x]) + Flight(c)' - Flight(c)
                      + OneIf(ci'[c].group # "MAX") - OneIf(ci[c].group # "MAX")
      /\ Adding(c)' = Adding(c) + OneIf(ctx'[x].pc = "add") - OneIf(ctx[x].pc = "add")
  BY <1>1, UsersChange DEF HoldsOnly
<1>3. /\ OneIf(ctx'[x].pc = "add") = 0 /\ OneIf(ctx[x].pc = "add") = 0
      /\ OneIf(ci'[c].group # "MAX") = OneIf(ci[c].group # "MAX")
      /\ OneIf(ci[c].group # "MAX") \in Int
      /\ \A e : Hold(e) \in Int
  BY DEF OneIf, Hold
<1>4. /\ Users(c) \in Nat /\ Adding(c) \in Nat /\ Flight(c) \in Nat /\ Flight(c)' \in Nat
      /\ ci[c].refs \in Int
  <2>1. Flight(c)' \in Nat
    BY <1>1, FlightNext
  <2>2. ci[c].refs \in Int
    BY <1>1 DEF TypeOK, CiType
  <2> QED  BY <1>1, <2>1, <2>2, UserTypes
<1>5. Adding(c)' = Adding(c) /\ Users(c)' - ci'[c].refs = Users(c) - ci[c].refs
      /\ Users(c)' \in Int /\ ci'[c].refs \in Int
  BY <1>2, <1>3, <1>4
<1>6. TimerBusy(c)' <=> TimerBusy(c)
  BY NotTimer DEF TimerBusy, HoldsOnly
<1>7. RefOK(c)'
  <2>1. ci'[c].refs = Users(c)' <=> ci[c].refs = Users(c)
    BY <1>4, <1>5
  <2>2. ci'[c].refs = Users(c)' + 1 <=> ci[c].refs = Users(c) + 1
    BY <1>4, <1>5
  <2> QED  BY <1>1, <1>5, <1>6, <2>1, <2>2 DEF RefOK
<1> QED  BY <1>7, RefStep

-----------------------------------------------------------------------------
(* The references of an instance, and what the messages hold *)

(* What taking and dropping references does. *)
LEMMA RefFields ==
  ASSUME NEW k \in CiType
  PROVE  /\ Ref(k).refs = k.refs + 1 /\ Ref(k).group = k.group
         /\ \A n \in Int : Deref(k, n).refs = k.refs - n /\ Deref(k, n).group = k.group
         /\ k.refs \in Int
  BY DEF Ref, Deref, CiType

(* No command is sent or answered, *)
LEMMA FlightKept ==
  ASSUME UNCHANGED <<cmds, host>>
  PROVE  \A d \in Conns : Flight(d)' = Flight(d)
  BY NoMessages DEF MsgsKept, Flight

(* ... one is sent, *)
LEMMA FlightSent ==
  ASSUME TypeOK, NEW m \in CmdType, cmds' = Append(cmds, m), UNCHANGED host
  PROVE  \A d \in Conns : Flight(d)' = Flight(d) + OneIf(m.c = d)
<1> SUFFICES ASSUME NEW d \in Conns  PROVE Flight(d)' = Flight(d) + OneIf(m.c = d)
  OBVIOUS
<1>1. /\ CreateCmds(d)' = CreateCmds(d) + OneIf(m.c = d /\ m.type = "create")
      /\ DestroyCmds(d)' = DestroyCmds(d) + OneIf(m.c = d /\ m.type = "destroy")
      /\ Creates(d)' = Creates(d) /\ Destroys(d)' = Destroys(d)
  BY CmdsAppended, HostKept
<1>2. OneIf(m.c = d) = OneIf(m.c = d /\ m.type = "create") + OneIf(m.c = d /\ m.type = "destroy")
  BY DEF OneIf, CmdType
<1>3. \A b : OneIf(b) \in Int
  BY DEF OneIf
<1>4. /\ CreateCmds(d) \in Nat /\ DestroyCmds(d) \in Nat /\ Creates(d) \in Nat /\ Destroys(d) \in Nat
  BY CountTypes
<1> QED  BY <1>1, <1>2, <1>3, <1>4 DEF Flight

(* ... an answer is handled. *)
LEMMA FlightTaken ==
  ASSUME TypeOK, NEW i \in DOMAIN host, host' = RemoveAt(host, i), NEW m, m = host[i],
         UNCHANGED cmds
  PROVE  \A d \in Conns : Flight(d)' = Flight(d) - OneIf(m.c = d /\ ~IsNote(m))
<1> SUFFICES ASSUME NEW d \in Conns
             PROVE  Flight(d)' = Flight(d) - OneIf(m.c = d /\ ~IsNote(m))
  OBVIOUS
<1>1. /\ Creates(d)' = Creates(d) - OneIf(m.c = d /\ m.type = "create")
      /\ Destroys(d)' = Destroys(d) - OneIf(m.c = d /\ m.type = "destroy")
      /\ CreateCmds(d)' = CreateCmds(d) /\ DestroyCmds(d)' = DestroyCmds(d) /\ m \in HostType
  BY MsgTaken, CmdsKept
<1>2. OneIf(m.c = d /\ ~IsNote(m))
        = OneIf(m.c = d /\ m.type = "create") + OneIf(m.c = d /\ m.type = "destroy")
  BY <1>1 DEF OneIf, HostType, IsNote
<1>3. \A b : OneIf(b) \in Int
  BY DEF OneIf
<1>4. /\ CreateCmds(d) \in Nat /\ DestroyCmds(d) \in Nat /\ Creates(d) \in Nat /\ Destroys(d) \in Nat
  BY CountTypes
<1> QED  BY <1>1, <1>2, <1>3, <1>4 DEF Flight

(* The NSS turns a command into its response, and a note is neither. *)
LEMMA FlightNss ==
  ASSUME TypeOK,
         \/ NssCreate(TRUE) \/ NssCreate(FALSE) \/ NssDestroy
         \/ \E c \in Conns : NssSync(c) \/ NssFlush(c)
  PROVE  \A d \in Conns : Flight(d)' = Flight(d)
<1> SUFFICES ASSUME NEW d \in Conns  PROVE Flight(d)' = Flight(d)
  OBVIOUS
<1>1. \A b : OneIf(b) \in Int
  BY DEF OneIf
<1>2. /\ CreateCmds(d) \in Nat /\ DestroyCmds(d) \in Nat /\ Creates(d) \in Nat /\ Destroys(d) \in Nat
  BY CountTypes
<1>3. CASE NssCreate(TRUE) \/ NssCreate(FALSE) \/ NssDestroy
  <2>1. PICK m : m = Head(cmds)
    OBVIOUS
  <2>2. PICK ack \in BOOLEAN : /\ cmds # <<>> /\ cmds' = Tail(cmds)
                               /\ host' = Append(host, [type |-> m.type, c |-> m.c, ack |-> ack])
    BY <1>3, <2>1 DEF NssCreate, NssDestroy
  <2>3. m \in CmdType
    BY <2>1, <2>2 DEF TypeOK
  <2>4. PICK r : r = [type |-> m.type, c |-> m.c, ack |-> ack]
    OBVIOUS
  <2>5. r \in HostType /\ r.c = m.c /\ r.type = m.type
    BY <2>3, <2>4 DEF CmdType, HostType
  <2>6. /\ CreateCmds(d)' = CreateCmds(d) - OneIf(m.c = d /\ m.type = "create")
        /\ DestroyCmds(d)' = DestroyCmds(d) - OneIf(m.c = d /\ m.type = "destroy")
    BY <2>1, <2>2, CmdTaken
  <2>7. /\ Creates(d)' = Creates(d) + OneIf(r.c = d /\ r.type = "create")
        /\ Destroys(d)' = Destroys(d) + OneIf(r.c = d /\ r.type = "destroy")
    BY <2>2, <2>4, <2>5, MsgAppended
  <2> QED  BY <1>1, <1>2, <2>5, <2>6, <2>7 DEF Flight
<1>4. CASE \E c \in Conns : NssSync(c) \/ NssFlush(c)
  <2>1. PICK c \in Conns, t \in {"sync", "flush"} :
          host' = Append(host, [type |-> t, c |-> c, ack |-> FALSE]) /\ UNCHANGED cmds
    BY <1>4 DEF NssSync, NssFlush
  <2>2. PICK r : r = [type |-> t, c |-> c, ack |-> FALSE]
    OBVIOUS
  <2>3. r \in HostType /\ r.type \in {"sync", "flush"}
    BY <2>2 DEF HostType
  <2>4. /\ Creates(d)' = Creates(d) + OneIf(r.c = d /\ r.type = "create")
        /\ Destroys(d)' = Destroys(d) + OneIf(r.c = d /\ r.type = "destroy")
    BY <2>1, <2>2, <2>3, MsgAppended
  <2>5. OneIf(r.c = d /\ r.type = "create") = 0 /\ OneIf(r.c = d /\ r.type = "destroy") = 0
    BY <2>3 DEF OneIf
  <2> QED  BY <1>2, <2>1, <2>4, <2>5, CmdsKept DEF Flight
<1> QED  BY <1>3, <1>4

-----------------------------------------------------------------------------
(* Steps that send and receive nothing *)

(* A step that takes or drops the references that its context holds. *)
LEMMA QuietRefs ==
  ASSUME IndInv, IndInv', RefInv, NEW x \in Contexts, NEW c \in Conns,
         \A y \in Contexts \ {x} : ctx'[y] = ctx[y],
         \A d \in Conns \ {c} : ci'[d] = ci[d],
         ctx[x].pc = "idle" \/ ctx[x].c = c, ctx'[x].pc = "idle" \/ ctx'[x].c = c,
         UNCHANGED nss,
         ctx[x].pc # "add", ctx'[x].pc \notin {"add", "rearm", "unpend"},
         x = TimerCtx => ctx[x].pc # "idle" /\ ctx'[x].pc # "idle",
         ci'[c].group = ci[c].group,
         ci'[c].refs = ci[c].refs + Hold(ctx'[x]) - Hold(ctx[x])
  PROVE  RefInv'
<1>1. \A d \in Conns : Flight(d)' = Flight(d)
  BY FlightKept DEF nss
<1>2. HoldsOnly(x, c)
  BY <1>1 DEF HoldsOnly
<1>3. ci[c].refs \in Int /\ Flight(c) \in Nat /\ \A e : Hold(e) \in Int
  <2>1. ci[c].refs \in Int /\ TypeOK
    BY DEF IndInv, TypeOK, CiType
  <2> QED  BY <2>1, UserTypes DEF Hold, OneIf
<1>4. ci'[c].refs = ci[c].refs + Hold(ctx'[x]) - Hold(ctx[x]) + Flight(c)' - Flight(c)
  BY <1>1, <1>3
<1> QED  BY <1>2, <1>4, BalancedStep

(* A context that goes on, and one that is done *)
Single == Pcs \ {"idle", "add", "tx", "rearm", "unpend"}

(* The references that a context holds at each point. *)
LEMMA HoldOne ==
  /\ \A e : e.pc \in Single => Hold(e) = 1
  /\ \A e : e.pc = "idle" => Hold(e) = 0
  /\ \A e : e.pc = "tx" => Hold(e) = 2
  BY DEF Hold, Single, OneIf, Twice

(* A context that goes on with the reference it holds. *)
LEMMA GoesOn ==
  ASSUME IndInv, IndInv', RefInv, NEW x \in Contexts, NEW c \in Conns, c = Conn(x),
         \A y \in Contexts \ {x} : ctx'[y] = ctx[y], ctx'[x].c = c,
         \A d \in Conns \ {c} : ci'[d] = ci[d],
         UNCHANGED nss, ctx[x].pc \in Single, ctx'[x].pc \in Single,
         ci'[c].group = ci[c].group, ci'[c].refs = ci[c].refs
  PROVE  RefInv'
<1>1. Hold(ctx[x]) = 1 /\ Hold(ctx'[x]) = 1 /\ ci[c].refs \in Int
  BY HoldOne DEF IndInv, TypeOK, CiType
<1>2. ci'[c].refs = ci[c].refs + Hold(ctx'[x]) - Hold(ctx[x])
  BY <1>1
<1>3. /\ ctx[x].pc # "add" /\ ctx'[x].pc \notin {"add", "rearm", "unpend"}
      /\ ctx[x].pc # "idle" /\ ctx'[x].pc # "idle"
  BY DEF Single
<1> QED  BY <1>2, <1>3, QuietRefs DEF Conn

(* A context that drops its reference and is done. *)
LEMMA GivesBack ==
  ASSUME IndInv, IndInv', RefInv, NEW x \in Contexts, NEW c \in Conns, c = Conn(x),
         x # TimerCtx, \A y \in Contexts \ {x} : ctx'[y] = ctx[y], ctx'[x].pc = "idle",
         \A d \in Conns \ {c} : ci'[d] = ci[d],
         UNCHANGED nss, ctx[x].pc \in Single,
         ci'[c].group = ci[c].group, ci'[c].refs = ci[c].refs - 1
  PROVE  RefInv'
<1>1. Hold(ctx[x]) = 1 /\ Hold(ctx'[x]) = 0 /\ ci[c].refs \in Int
  BY HoldOne DEF IndInv, TypeOK, CiType
<1>2. ci'[c].refs = ci[c].refs + Hold(ctx'[x]) - Hold(ctx[x])
  BY <1>1
<1>3. ctx[x].pc # "add" /\ ctx'[x].pc \notin {"add", "rearm", "unpend"}
  BY DEF Single
<1> QED  BY <1>2, <1>3, QuietRefs DEF Conn

(* One that finds a connection takes a reference. *)
LEMMA Looks ==
  ASSUME IndInv, IndInv', RefInv, NEW x \in Contexts, NEW c \in Conns,
         x # TimerCtx, \A y \in Contexts \ {x} : ctx'[y] = ctx[y],
         ctx[x].pc = "idle", ctx'[x].c = c, ctx'[x].pc \in Single,
         ci' = [ci EXCEPT ![c] = Ref(@)], UNCHANGED nss
  PROVE  RefInv'
<1>1. Hold(ctx[x]) = 0 /\ Hold(ctx'[x]) = 1 /\ ci[c] \in CiType /\ ci \in [Conns -> CiType]
  BY HoldOne DEF IndInv, TypeOK
<1>2. /\ ci'[c].refs = ci[c].refs + 1 /\ ci'[c].group = ci[c].group /\ ci[c].refs \in Int
      /\ \A d \in Conns \ {c} : ci'[d] = ci[d]
  BY <1>1, RefFields
<1>3. ci'[c].refs = ci[c].refs + Hold(ctx'[x]) - Hold(ctx[x])
  BY <1>1, <1>2
<1>4. ctx'[x].pc \notin {"add", "rearm", "unpend"}
  BY DEF Single
<1> QED  BY <1>2, <1>3, <1>4, QuietRefs

-----------------------------------------------------------------------------
(* The actions *)

(* Nothing works on a connection before its first packet. *)
LEMMA NoneBefore ==
  ASSUME IndInv, NEW c \in Conns, ~ci[c].added
  PROVE  Adding(c) = 0 /\ ~TimerBusy(c)
<1>1. \A y \in Contexts : ctx[y].c = c => ctx[y].pc = "idle"
  BY DEF IndInv, CtxInv, At, Conn
<1>2. Busy(c, {"add"}) = {}
  BY <1>1 DEF Busy
<1> QED  BY <1>1, <1>2, FS_EmptySet, NotTimer DEF Adding, TimerBusy

(* A connection is added. *)
LEMMA AddRefs ==
  ASSUME IndInv, IndInv', RefInv, NEW x \in PacketCtx, NEW c \in Conns, ConnectionAdd(x, c)
  PROVE  RefInv'
<1>1. /\ TypeOK /\ TypeOK' /\ x \in Contexts /\ x # TimerCtx /\ ctx \in [Contexts -> CtxType]
      /\ ci \in [Conns -> CiType] /\ RefOK(c)
  BY NotTimer DEF IndInv, TypeOK, CtxType, RefInv
<1>2. /\ ctx[x].pc = "idle" /\ ~ci[c].added /\ UNCHANGED nss
      /\ ci' = [ci EXCEPT ![c].added = TRUE, ![c].refs = 1]
      /\ ctx' = [ctx EXCEPT ![x] = [Idle EXCEPT !.pc = "add", !.c = c]]
  BY DEF ConnectionAdd, At
<1>3. /\ \A y \in Contexts \ {x} : ctx'[y] = ctx[y]
      /\ \A d \in Conns \ {c} : ci'[d] = ci[d]
      /\ ci'[c].refs = 1 /\ ci'[c].group = ci[c].group
  BY <1>1, <1>2 DEF CiType
<1>4. ctx'[x].pc = "add" /\ ctx'[x].c = c
  BY <1>1, <1>2, BeginsType DEF Pcs
<1>5. \A d \in Conns : Flight(d)' = Flight(d)
  BY <1>2, FlightKept DEF nss
<1>6. HoldsOnly(x, c)
  BY <1>2, <1>3, <1>4, <1>5 DEF HoldsOnly
<1>7. Adding(c) = 0 /\ ~TimerBusy(c) /\ ci[c].refs = 0 /\ ci[c].group = "MAX"
  BY <1>2, NoneBefore DEF IndInv, ConnInv, Untouched
<1>8. Users(c) = 0
  <2>1. Users(c) \in Nat
    BY <1>1, UserTypes
  <2> QED  BY <1>1, <1>7, <2>1 DEF RefOK
<1>9. /\ Users(c)' = Users(c) + Hold(ctx'[x]) - Hold(ctx[x]) + Flight(c)' - Flight(c)
                      + OneIf(ci'[c].group # "MAX") - OneIf(ci[c].group # "MAX")
      /\ Adding(c)' = Adding(c) + OneIf(ctx'[x].pc = "add") - OneIf(ctx[x].pc = "add")
  BY <1>1, <1>6, UsersChange DEF HoldsOnly
<1>10. /\ Hold(ctx'[x]) = 1 /\ Hold(ctx[x]) = 0 /\ OneIf(ctx'[x].pc = "add") = 1
       /\ OneIf(ctx[x].pc = "add") = 0 /\ OneIf(ci'[c].group # "MAX") = 0
       /\ OneIf(ci[c].group # "MAX") = 0
  BY <1>2, <1>3, <1>4, <1>7 DEF Hold, OneIf, Twice
<1>11. Flight(c) \in Nat /\ Flight(c)' = Flight(c)
  BY <1>1, <1>5, UserTypes
<1>12. Users(c)' = 1 /\ Adding(c)' = 1
  BY <1>7, <1>8, <1>9, <1>10, <1>11
<1>13. ~TimerBusy(c)'
  BY <1>1, <1>3, <1>7, NotTimer DEF TimerBusy
<1>14. RefOK(c)'
  BY <1>3, <1>7, <1>12, <1>13 DEF RefOK
<1> QED  BY <1>1, <1>4, <1>6, <1>14, RefStep

(* Its timer is set. *)
LEMMA TimerSetRefs ==
  ASSUME IndInv, IndInv', RefInv, NEW x \in PacketCtx, TimerSet(x)
  PROVE  RefInv'
<1>1. /\ TypeOK /\ TypeOK' /\ x \in Contexts /\ x # TimerCtx /\ ctx \in [Contexts -> CtxType]
      /\ ci \in [Conns -> CiType] /\ Conn(x) \in Conns
  BY NotTimer, Known DEF IndInv, TypeOK, CtxType
<1>2. PICK c \in Conns : c = Conn(x)
  BY <1>1
<1>3. /\ ctx[x].pc = "add" /\ UNCHANGED nss /\ ctx' = [ctx EXCEPT ![x].pc = "packet"]
      /\ ci' = [ci EXCEPT ![c] = [Ref(@) EXCEPT !.group = "DEFAULT"]]
  BY <1>2 DEF TimerSet, At, Goto
<1>4. /\ \A y \in Contexts \ {x} : ctx'[y] = ctx[y]
      /\ \A d \in Conns \ {c} : ci'[d] = ci[d]
      /\ ci'[c] = [Ref(ci[c]) EXCEPT !.group = "DEFAULT"]
      /\ ctx'[x].pc = "packet" /\ ctx'[x].c = c
  BY <1>1, <1>2, <1>3 DEF CtxType, Conn
<1>5. ci'[c].refs = ci[c].refs + 1 /\ ci'[c].group = "DEFAULT" /\ ci[c].refs \in Int
  BY <1>1, <1>4 DEF Ref, CiType
<1>6. \A d \in Conns : Flight(d)' = Flight(d)
  BY <1>3, FlightKept DEF nss
<1>7. HoldsOnly(x, c)
  BY <1>2, <1>4, <1>6 DEF HoldsOnly, Conn
<1>8. /\ Users(c)' = Users(c) + Hold(ctx'[x]) - Hold(ctx[x]) + Flight(c)' - Flight(c)
                      + OneIf(ci'[c].group # "MAX") - OneIf(ci[c].group # "MAX")
      /\ Adding(c)' = Adding(c) + OneIf(ctx'[x].pc = "add") - OneIf(ctx[x].pc = "add")
  BY <1>1, <1>7, UsersChange DEF HoldsOnly
<1>9. Adding(c) > 0
  <2>1. x \in Busy(c, {"add"})
    BY <1>1, <1>2, <1>3 DEF Busy, Conn
  <2>2. Busy(c, {"add"}) \subseteq Contexts
    BY DEF Busy
  <2>3. IsFiniteSet(Busy(c, {"add"}))
    BY <2>2, FiniteAssumption, FS_Subset
  <2>4. Cardinality(Busy(c, {"add"})) \in Nat /\ Cardinality(Busy(c, {"add"})) # 0
    BY <2>1, <2>3, FS_CardinalityType, FS_EmptySet
  <2> QED  BY <2>4 DEF Adding
<1>10. Adding(c) = 1 /\ ci[c].group = "MAX" /\ ~TimerBusy(c) /\ ci[c].refs = Users(c)
  <2>1. RefOK(c) /\ Adding(c) \in Nat
    BY <1>1, UserTypes DEF RefInv
  <2> QED  BY <1>9, <2>1 DEF RefOK
<1>11. /\ Hold(ctx'[x]) = 1 /\ Hold(ctx[x]) = 1 /\ OneIf(ctx'[x].pc = "add") = 0
       /\ OneIf(ctx[x].pc = "add") = 1 /\ OneIf(ci'[c].group # "MAX") = 1
       /\ OneIf(ci[c].group # "MAX") = 0
  BY <1>3, <1>4, <1>5, <1>10 DEF Hold, OneIf, Twice
<1>12. Flight(c) \in Nat /\ Flight(c)' = Flight(c) /\ Users(c) \in Nat
  BY <1>1, <1>6, UserTypes
<1>13. Users(c)' = Users(c) + 1 /\ Adding(c)' = 0
  BY <1>8, <1>10, <1>11, <1>12
<1>14. ~TimerBusy(c)'
  BY <1>1, <1>4, <1>10, NotTimer DEF TimerBusy
<1>15. RefOK(c)'
  BY <1>5, <1>10, <1>13, <1>14 DEF RefOK
<1> QED  BY <1>1, <1>4, <1>7, <1>15, RefStep

(* A packet or a caller finds the connection; the timer expires *)
LEMMA LookRefs ==
  ASSUME IndInv, IndInv', RefInv, NEW c \in Conns,
         \/ \E x \in PacketCtx : PacketSeen(x, c)
         \/ \E x \in UserCtx, op \in {"decel", "make"} : ForceDecel(x, c, op)
  PROVE  RefInv'
<1>1. ctx \in [Contexts -> CtxType]
  BY DEF IndInv, TypeOK, CtxType
<1>2. CASE \E x \in PacketCtx : PacketSeen(x, c)
  <2>1. PICK x \in PacketCtx : PacketSeen(x, c)
    BY <1>2
  <2>2. /\ ctx[x].pc = "idle" /\ UNCHANGED nss /\ x \in Contexts /\ x # TimerCtx
        /\ ci' = [ci EXCEPT ![c] = Ref(@)]
        /\ ctx' = [ctx EXCEPT ![x] = [Idle EXCEPT !.pc = "packet", !.c = c]]
    BY <2>1, NotTimer DEF PacketSeen, At
  <2>3. /\ ctx'[x].pc = "packet" /\ ctx'[x].c = c
        /\ \A y \in Contexts \ {x} : ctx'[y] = ctx[y]
    BY <1>1, <2>2, BeginsType, ZenonT(40) DEF Pcs
  <2> QED  BY <2>2, <2>3, Looks DEF Single, Pcs
<1>3. CASE \E x \in UserCtx, op \in {"decel", "make"} : ForceDecel(x, c, op)
  <2>1. PICK x \in UserCtx, op \in {"decel", "make"} : ForceDecel(x, c, op)
    BY <1>3
  <2>2. /\ ctx[x].pc = "idle" /\ UNCHANGED nss /\ x \in Contexts /\ x # TimerCtx
        /\ ci' = [ci EXCEPT ![c] = Ref(@)]
        /\ ctx' = [ctx EXCEPT ![x] = [Idle EXCEPT !.pc = "decel", !.c = c, !.op = op]]
    BY <2>1, NotTimer DEF ForceDecel, At
  <2>3. /\ ctx'[x].pc = "decel" /\ ctx'[x].c = c
        /\ \A y \in Contexts \ {x} : ctx'[y] = ctx[y]
    <3>1. op \in Ops /\ "decel" \in Pcs \ {"idle"}
      BY DEF Ops, Pcs
    <3>2. PICK e : e = [Idle EXCEPT !.pc = "decel", !.c = c, !.op = op]
      OBVIOUS
    <3>3. e.pc = "decel" /\ e.c = c
      BY <3>2, IdleType DEF CtxType
    <3> QED  BY <1>1, <2>2, <3>2, <3>3
  <2> QED  BY <2>2, <2>3, Looks DEF Single, Pcs
<1> QED  BY <1>2, <1>3

(* Its timer expires. *)
LEMMA ExpiryRefs ==
  ASSUME IndInv, IndInv', RefInv, NEW c \in Conns, TimerExpires(c)
  PROVE  RefInv'
<1>1. /\ TypeOK /\ TypeOK' /\ TimerCtx \in Contexts /\ ctx \in [Contexts -> CtxType]
      /\ ci \in [Conns -> CiType] /\ RefOK(c)
  BY NotTimer DEF IndInv, TypeOK, CtxType, RefInv
<1>2. PICK x \in Contexts : x = TimerCtx
  BY <1>1
<1>3. /\ ctx[x].pc = "idle" /\ ci[c].group # "MAX" /\ UNCHANGED nss
      /\ ci' = [ci EXCEPT ![c].group = "MAX"]
      /\ ctx' = [ctx EXCEPT ![x] = [Idle EXCEPT !.pc = "decel", !.c = c, !.op = "expiry"]]
  BY <1>2 DEF TimerExpires, At
<1>4. /\ \A y \in Contexts \ {x} : ctx'[y] = ctx[y]
      /\ \A d \in Conns \ {c} : ci'[d] = ci[d]
      /\ ci'[c].refs = ci[c].refs /\ ci'[c].group = "MAX"
  BY <1>1, <1>3 DEF CiType
<1>5. ctx'[x].pc = "decel" /\ ctx'[x].c = c
  BY <1>1, <1>3, BeginsAs, ZenonT(40) DEF Pcs, Ops
<1>6. \A d \in Conns : Flight(d)' = Flight(d)
  BY <1>3, FlightKept DEF nss
<1>7. HoldsOnly(x, c)
  BY <1>3, <1>4, <1>5, <1>6 DEF HoldsOnly
<1>8. /\ Users(c)' = Users(c) + Hold(ctx'[x]) - Hold(ctx[x]) + Flight(c)' - Flight(c)
                      + OneIf(ci'[c].group # "MAX") - OneIf(ci[c].group # "MAX")
      /\ Adding(c)' = Adding(c) + OneIf(ctx'[x].pc = "add") - OneIf(ctx[x].pc = "add")
  BY <1>1, <1>7, UsersChange DEF HoldsOnly
<1>9. /\ Hold(ctx'[x]) = 1 /\ Hold(ctx[x]) = 0 /\ OneIf(ctx'[x].pc = "add") = 0
      /\ OneIf(ctx[x].pc = "add") = 0 /\ OneIf(ci'[c].group # "MAX") = 0
      /\ OneIf(ci[c].group # "MAX") = 1
  BY <1>3, <1>4, <1>5 DEF Hold, OneIf, Twice
<1>10. Flight(c) \in Nat /\ Flight(c)' = Flight(c) /\ Users(c) \in Nat /\ Adding(c) \in Nat
  BY <1>1, <1>6, UserTypes
<1>11. Adding(c) = 0 /\ ci[c].refs = Users(c)
  BY <1>1, <1>3, <1>10 DEF RefOK
<1>12. Users(c)' = Users(c) /\ Adding(c)' = 0
  BY <1>8, <1>9, <1>10, <1>11
<1>13. RefOK(c)'
  BY <1>4, <1>11, <1>12 DEF RefOK
<1> QED  BY <1>5, <1>7, <1>13, RefStep

(* A context that has found its connection for a packet *)
LEMMA PacketRefs ==
  ASSUME ~TxFails, IndInv, IndInv', RefInv, NEW x \in PacketCtx, Packet(x)
  PROVE  RefInv'
<1>1. /\ TypeOK /\ TypeOK' /\ x \in Contexts /\ x # TimerCtx /\ ctx \in [Contexts -> CtxType]
      /\ ci \in [Conns -> CiType] /\ Conn(x) \in Conns /\ ctx[x] \in CtxType
  BY NotTimer, Known DEF IndInv, TypeOK, CtxType
<1>2. PICK c \in Conns : c = Conn(x)
  BY <1>1
<1>3. /\ \A y \in Contexts \ {x} : ctx'[y] = ctx[y]
      /\ \A d \in Conns \ {c} : ci'[d] = ci[d]
  BY <1>1, <1>2 DEF Packet, TimerSet, PacketStart, PacketExpired, Regenerate, AccelUnwanted,
     AccelPendingSet, AccelDenied, BuildAborted, RuleBuilt, CreateSent, CreateRefused, Goto,
     Return, Leave
<1>4. /\ ci[c] \in CiType /\ Noticed(ci[c]) \in CiType
      /\ Noticed(ci[c]).refs = ci[c].refs /\ Noticed(ci[c]).group = ci[c].group
  <2>1. ci[c] \in CiType /\ RegenOK(ci[c])
    BY DEF IndInv, TypeOK, ConnInv, Bounded
  <2> QED  BY <2>1, NoticedOK
<1>5. Own(x) = 1
  BY <1>1 DEF Own
<1>6. CASE PacketStart(x) \/ Regenerate(x) \/ AccelPendingSet(x)
  <2>1. /\ ctx[x].pc \in {"packet", "regen", "accel"} /\ UNCHANGED nss
        /\ ctx'[x].pc \in {"regen", "accel", "build"} /\ ctx'[x].c = c
    BY <1>1, <1>2, <1>6 DEF PacketStart, Regenerate, AccelPendingSet, At, Goto, CtxType, Conn
  <2>2. ci'[c].refs = ci[c].refs /\ ci'[c].group = ci[c].group
    <3>1. CASE PacketStart(x)
      <4>1. PICK k : k = Noticed(ci[c])
        OBVIOUS
      <4>2. ci'[c] = [k EXCEPT !.regen_in_progress = TRUE] \/ ci'[c] = k
        BY <1>1, <1>2, <3>1, <4>1 DEF PacketStart
      <4> QED  BY <1>4, <4>1, <4>2 DEF CiType
    <3>2. CASE Regenerate(x)
      BY <1>1, <1>2, <3>2 DEF Regenerate, CiType
    <3>3. CASE AccelPendingSet(x)
      BY <3>3 DEF AccelPendingSet
    <3> QED  BY <1>6, <3>1, <3>2, <3>3
  <2>3. ctx[x].pc \in Single /\ ctx'[x].pc \in Single
    BY <2>1 DEF Single, Pcs
  <2> QED  BY <1>1, <1>2, <1>3, <2>1, <2>2, <2>3, GoesOn
<1>7. CASE PacketExpired(x) \/ AccelUnwanted(x) \/ AccelDenied(x) \/ BuildAborted(x)
  <2>1. /\ ctx[x].pc \in {"packet", "accel", "build"} /\ UNCHANGED nss /\ ctx'[x].pc = "idle"
    BY <1>1, <1>7, IdleType DEF PacketExpired, AccelUnwanted, AccelDenied, BuildAborted, At,
       Return, Leave
  <2>2. ci'[c] = Deref(ci[c], 1) \/ ci'[c] = Deref(Noticed(ci[c]), 1)
    BY <1>1, <1>2, <1>5, <1>7 DEF PacketExpired, AccelUnwanted, AccelDenied, BuildAborted, Return
  <2>3. ci'[c].refs = ci[c].refs - 1 /\ ci'[c].group = ci[c].group
    BY <1>4, <2>2, RefFields
  <2>4. ctx[x].pc \in Single
    BY <2>1 DEF Single, Pcs
  <2> QED  BY <1>1, <1>2, <1>3, <2>1, <2>3, <2>4, GivesBack
<1>8. CASE RuleBuilt(x)
  <2>1. /\ ctx[x].pc = "build" /\ UNCHANGED nss /\ ctx'[x].pc = "tx" /\ ctx'[x].c = c
        /\ ci'[c] = Ref(ci[c])
    BY <1>1, <1>2, <1>8 DEF RuleBuilt, At, Goto, CtxType, Conn
  <2>2. ci'[c].refs = ci[c].refs + 1 /\ ci'[c].group = ci[c].group /\ ci[c].refs \in Int
    BY <1>4, <2>1, RefFields
  <2>3. Hold(ctx[x]) = 1 /\ Hold(ctx'[x]) = 2
    BY <2>1, HoldOne DEF Single, Pcs
  <2>4. ci'[c].refs = ci[c].refs + Hold(ctx'[x]) - Hold(ctx[x])
    BY <2>2, <2>3
  <2> QED  BY <1>1, <1>2, <1>3, <2>1, <2>2, <2>4, QuietRefs DEF Conn
<1>9. CASE CreateSent(x)
  <2>1. PICK m : m = [type |-> "create", c |-> c, gen |-> ctx[x].gen]
    OBVIOUS
  <2>2. /\ ctx[x].pc = "tx" /\ cmds' = Append(cmds, m) /\ UNCHANGED host
        /\ ctx'[x].pc = "idle" /\ ci'[c] = Deref(ci[c], 1)
    BY <1>1, <1>2, <1>5, <1>9, <2>1, IdleType DEF CreateSent, At, Return, Leave
  <2>3. m \in CmdType /\ m.c = c
    BY <1>1, <2>1 DEF CmdType, CtxType
  <2>4. \A d \in Conns : Flight(d)' = Flight(d) + OneIf(c = d)
    BY <1>1, <2>2, <2>3, FlightSent
  <2>5. OneIf(c = c) = 1 /\ \A d \in Conns \ {c} : OneIf(c = d) = 0
    BY DEF OneIf
  <2>6. \A d \in Conns : Flight(d) \in Nat
    BY <1>1, UserTypes
  <2>7. Flight(c)' = Flight(c) + 1 /\ \A d \in Conns \ {c} : Flight(d)' = Flight(d)
    BY <2>4, <2>5, <2>6
  <2>8. HoldsOnly(x, c)
    BY <1>2, <1>3, <2>2, <2>7 DEF HoldsOnly, Conn
  <2>9. Hold(ctx[x]) = 2 /\ Hold(ctx'[x]) = 0
    BY <2>2, HoldOne
  <2>10. ci'[c].refs = ci[c].refs - 1 /\ ci'[c].group = ci[c].group /\ ci[c].refs \in Int
    BY <1>4, <2>2, RefFields
  <2>11. ci'[c].refs = ci[c].refs + Hold(ctx'[x]) - Hold(ctx[x]) + Flight(c)' - Flight(c)
    BY <2>6, <2>7, <2>9, <2>10
  <2> QED  BY <1>1, <2>2, <2>8, <2>10, <2>11, BalancedStep
<1> QED
  BY <1>6, <1>7, <1>8, <1>9, TimerSetRefs DEF Packet, CreateRefused

(* The steps of a deceleration and of a defunct.  Only the end of the      *)
(* timer's callback may leave a reference behind: when the connection is   *)
(* not to be released, its timer is not set again.                         *)
LEMMA LastRefs ==
  ASSUME IndInv, IndInv', RefInv, NEW x \in Contexts, LastRef(x)
  PROVE  RefInv'
<1>1. /\ TypeOK /\ TypeOK' /\ ctx \in [Contexts -> CtxType]
      /\ ci \in [Conns -> CiType] /\ Conn(x) \in Conns
  BY Known DEF IndInv, TypeOK, CtxType
<1>2. PICK c \in Conns : c = Conn(x)
  BY <1>1
<1>3. /\ ctx[x].pc = "last" /\ ctx'[x].pc = "idle" /\ UNCHANGED nss
      /\ ci' = [ci EXCEPT ![c] = [Deref(ci[c], Own(x) + TimerRef(x)) EXCEPT
               !.group = IF ctx[x].release /\ ctx[x].op = "make" THEN "MAX" ELSE ci[c].group]]
  BY <1>1, <1>2, IdleType DEF LastRef, At, Leave
<1>4. /\ \A y \in Contexts \ {x} : ctx'[y] = ctx[y]
      /\ \A d \in Conns \ {c} : ci'[d] = ci[d]
  BY <1>1, <1>3 DEF LastRef, Leave
<1>5. Own(x) + TimerRef(x) \in Int /\ ci[c] \in CiType /\ ci[c].refs \in Int
  BY <1>1 DEF Own, TimerRef, CiType
<1>6. /\ ci'[c].refs = ci[c].refs - (Own(x) + TimerRef(x))
      /\ ci'[c].group = IF ctx[x].release /\ ctx[x].op = "make" THEN "MAX" ELSE ci[c].group
  <2>1. PICK n \in Int : n = Own(x) + TimerRef(x)
    BY <1>5
  <2>2. PICK g : g = IF ctx[x].release /\ ctx[x].op = "make" THEN "MAX" ELSE ci[c].group
    OBVIOUS
  <2>3. ci'[c] = [Deref(ci[c], n) EXCEPT !.group = g]
    BY <1>1, <1>3, <2>1, <2>2
  <2>4. ci'[c].refs = ci[c].refs - n /\ ci'[c].group = g
    BY <1>5, <2>3 DEF Deref, CiType
  <2> QED  BY <2>1, <2>2, <2>4
<1>7. \A d \in Conns : Flight(d)' = Flight(d)
  BY <1>3, FlightKept DEF nss
<1>8. HoldsOnly(x, c)
  BY <1>2, <1>3, <1>4, <1>7 DEF HoldsOnly, Conn
<1>9. /\ Users(c)' = Users(c) + Hold(ctx'[x]) - Hold(ctx[x]) + Flight(c)' - Flight(c)
                      + OneIf(ci'[c].group # "MAX") - OneIf(ci[c].group # "MAX")
      /\ Adding(c)' = Adding(c) + OneIf(ctx'[x].pc = "add") - OneIf(ctx[x].pc = "add")
  BY <1>1, <1>8, UsersChange DEF HoldsOnly
<1>10. /\ Hold(ctx'[x]) = 0 /\ Hold(ctx[x]) = 1 /\ OneIf(ctx'[x].pc = "add") = 0
       /\ OneIf(ctx[x].pc = "add") = 0
  BY <1>3 DEF Hold, OneIf, Twice
<1>11. /\ Flight(c) \in Nat /\ Flight(c)' = Flight(c) /\ Users(c) \in Nat /\ Adding(c) \in Nat
       /\ \A b : OneIf(b) \in Int
  BY <1>1, <1>7, UserTypes DEF OneIf
<1>12. /\ Users(c)' = Users(c) - 1 + OneIf(ci'[c].group # "MAX") - OneIf(ci[c].group # "MAX")
       /\ Adding(c)' = Adding(c)
  BY <1>9, <1>10, <1>11
<1>13. RefOK(c) /\ ctx[x].release \in BOOLEAN
  BY <1>1 DEF RefInv, CtxType
<1>14. /\ ctx[x].op \in {"make", "expiry"} /\ (ctx[x].op = "expiry" <=> x = TimerCtx)
  BY <1>3 DEF IndInv, CtxInv, ReasonOK
<1>15. RefOK(c)'
  <2>1. CASE x = TimerCtx
    <3>1. TimerBusy(c) /\ ~TimerBusy(c)'
      BY <1>2, <1>3, <2>1 DEF TimerBusy, Conn
    <3>2. ci[c].group = "MAX" /\ ci'[c].group = "MAX" /\ ci[c].refs = Users(c) /\ Adding(c) = 0
      BY <1>6, <1>11, <1>13, <1>14, <2>1, <3>1 DEF RefOK
    <3>3. Users(c)' = Users(c) - 1
      BY <1>12, <3>2, <1>11 DEF OneIf
    <3>4. ci'[c].refs = ci[c].refs \/ ci'[c].refs = ci[c].refs - 1
      BY <1>5, <1>6, <2>1 DEF Own, TimerRef
    <3> QED  BY <1>11, <1>12, <3>1, <3>2, <3>3, <3>4 DEF RefOK
  <2>2. CASE x # TimerCtx
    <3>1. Own(x) = 1 /\ ctx[x].op = "make" /\ (TimerBusy(c)' <=> TimerBusy(c))
      BY <1>4, <1>14, <2>2, NotTimer DEF Own, TimerBusy
    <3>2. CASE ci[c].group = "MAX"
      <4>1. TimerRef(x) = 0 /\ ci'[c].group = "MAX"
        BY <1>2, <1>6, <3>1, <3>2 DEF TimerRef
      <4>2. ci'[c].refs = ci[c].refs - 1 /\ Users(c)' = Users(c) - 1
        BY <1>5, <1>6, <1>11, <1>12, <3>1, <3>2, <4>1
      <4> QED  BY <1>5, <1>11, <1>12, <1>13, <3>1, <3>2, <4>1, <4>2 DEF RefOK
    <3>3. CASE ci[c].group # "MAX" /\ ~ctx[x].release
      <4>1. TimerRef(x) = 0 /\ ci'[c].group = ci[c].group
        BY <1>6, <3>3 DEF TimerRef
      <4>2. ci'[c].refs = ci[c].refs - 1 /\ Users(c)' = Users(c) - 1
        BY <1>5, <1>6, <1>11, <1>12, <3>1, <4>1
      <4> QED  BY <1>5, <1>11, <1>12, <1>13, <3>1, <3>3, <4>1, <4>2 DEF RefOK
    <3>4. CASE ci[c].group # "MAX" /\ ctx[x].release
      <4>1. TimerRef(x) = 1 /\ ci'[c].group = "MAX"
        BY <1>2, <1>6, <3>1, <3>4 DEF TimerRef
      <4>2. OneIf(ci'[c].group # "MAX") = 0 /\ OneIf(ci[c].group # "MAX") = 1
        BY <3>4, <4>1 DEF OneIf
      <4>3. ci'[c].refs = ci[c].refs - 2 /\ Users(c)' = Users(c) - 2
        BY <1>5, <1>6, <1>11, <1>12, <3>1, <4>1, <4>2
      <4>4. ci[c].refs = Users(c) /\ Adding(c) = 0
        BY <1>11, <1>13, <3>4 DEF RefOK
      <4> QED  BY <1>5, <1>11, <1>12, <3>1, <4>1, <4>3, <4>4 DEF RefOK
    <3> QED  BY <1>13, <3>2, <3>3, <3>4
  <2> QED  BY <2>1, <2>2
<1> QED  BY <1>3, <1>8, <1>15, RefStep

(* A rule is withdrawn. *)
LEMMA DecelerationRefs ==
  ASSUME ~TxFails, IndInv, IndInv', RefInv, NEW x \in Contexts, Deceleration(x)
  PROVE  RefInv'
<1>1. /\ TypeOK /\ TypeOK' /\ ctx \in [Contexts -> CtxType] /\ ctx[x] \in CtxType
      /\ ci \in [Conns -> CiType] /\ Conn(x) \in Conns
  BY Known DEF IndInv, TypeOK, CtxType
<1>2. PICK c \in Conns : c = Conn(x)
  BY <1>1
<1>3. CASE LastRef(x)
  BY <1>3, LastRefs
<1>4. ~Rearm(x) /\ ~FailureHandled(x) /\ ~DestroyGivenUp(x) /\ ~DestroyRefused(x)
  BY DEF RefInv, Rearm, FailureHandled, DestroyGivenUp, DestroyRefused, At
<1>5. ctx[x].pc # "idle" => (ctx[x].op = "expiry" <=> x = TimerCtx)
  BY DEF IndInv, CtxInv, ReasonOK
<1>6. CASE Decelerate(x) \/ Defunct(x)
  <2>1. /\ ctx[x].pc = "decel" /\ UNCHANGED nss
        /\ \A y \in Contexts \ {x} : ctx'[y] = ctx[y]
        /\ \A d \in Conns \ {c} : ci'[d] = ci[d]
    BY <1>1, <1>2, <1>6 DEF Decelerate, Defunct, At, Goto, Return, Leave
  <2>2. \/ ctx'[x].pc \in {"send", "last"} /\ ctx'[x].c = c /\ ci' = ci
        \/ ctx[x].op = "decel" /\ ctx'[x].pc = "idle" /\ ci'[c] = Deref(ci[c], Own(x))
    BY <1>1, <1>2, <1>6, IdleType DEF Decelerate, Defunct, Goto, Return, Leave, CtxType, Conn
  <2>3. CASE ctx'[x].pc \in {"send", "last"} /\ ctx'[x].c = c /\ ci' = ci
    <3>1. ctx[x].pc \in Single /\ ctx'[x].pc \in Single
      BY <2>1, <2>3 DEF Single, Pcs
    <3> QED  BY <1>2, <2>1, <2>3, <3>1, GoesOn
  <2>4. CASE ctx[x].op = "decel" /\ ctx'[x].pc = "idle" /\ ci'[c] = Deref(ci[c], Own(x))
    <3>1. x # TimerCtx /\ Own(x) = 1 /\ ctx[x].pc \in Single
      BY <1>5, <2>1, <2>4 DEF Own, Single, Pcs
    <3>2. ci'[c].refs = ci[c].refs - 1 /\ ci'[c].group = ci[c].group
      BY <1>1, <2>4, <3>1, RefFields
    <3> QED  BY <1>2, <2>1, <2>4, <3>1, <3>2, GivesBack
  <2> QED  BY <2>2, <2>3, <2>4
<1>7. CASE DestroySent(x)
  <2>1. PICK m : m = [type |-> "destroy", c |-> c, gen |-> 0]
    OBVIOUS
  <2>2. /\ ctx[x].pc = "send" /\ cmds' = Append(cmds, m) /\ UNCHANGED host
        /\ \A y \in Contexts \ {x} : ctx'[y] = ctx[y]
        /\ \A d \in Conns \ {c} : ci'[d] = ci[d]
        /\ ci'[c] = Deref(Ref(ci[c]), OwnAfterSend(x))
    BY <1>1, <1>2, <1>7, <2>1 DEF DestroySent, At, SendReturns, Leave
  <2>3. \/ ctx[x].op = "decel" /\ ctx'[x].pc = "idle"
        \/ ctx[x].op # "decel" /\ ctx'[x].pc = "last" /\ ctx'[x].c = c
    BY <1>1, <1>2, <1>7, IdleType DEF DestroySent, SendReturns, Leave, CtxType, Conn
  <2>4. m \in CmdType /\ m.c = c
    BY <2>1, BoundAssumption DEF CmdType
  <2>5. \A d \in Conns : Flight(d)' = Flight(d) + OneIf(c = d)
    BY <1>1, <2>2, <2>4, FlightSent
  <2>6. OneIf(c = c) = 1 /\ \A d \in Conns \ {c} : OneIf(c = d) = 0
    BY DEF OneIf
  <2>7. \A d \in Conns : Flight(d) \in Nat
    BY <1>1, UserTypes
  <2>8. Flight(c)' = Flight(c) + 1 /\ \A d \in Conns \ {c} : Flight(d)' = Flight(d)
    BY <2>5, <2>6, <2>7
  <2>9. HoldsOnly(x, c)
    BY <1>2, <2>2, <2>3, <2>8 DEF HoldsOnly, Conn
  <2>10. ci[c] \in CiType /\ OwnAfterSend(x) \in Int
    BY <1>1 DEF OwnAfterSend, Own
  <2>11. /\ ci'[c].refs = ci[c].refs + 1 - OwnAfterSend(x) /\ ci'[c].group = ci[c].group
         /\ ci[c].refs \in Int
    <3>1. PICK k : k = Ref(ci[c])
      OBVIOUS
    <3>2. k \in CiType /\ k.refs = ci[c].refs + 1 /\ k.group = ci[c].group /\ ci[c].refs \in Int
      BY <2>10, <3>1 DEF Ref, CiType
    <3>3. PICK n \in Int : n = OwnAfterSend(x)
      BY <2>10
    <3>4. ci'[c] = Deref(k, n)
      BY <2>2, <3>1, <3>3
    <3>5. ci'[c].refs = k.refs - n /\ ci'[c].group = k.group
      BY <3>2, <3>4 DEF Deref, CiType
    <3> QED  BY <3>2, <3>3, <3>5
  <2>12. Hold(ctx[x]) = 1 /\ Hold(ctx'[x]) = 1 - OwnAfterSend(x)
    <3>1. CASE ctx[x].op = "decel" /\ ctx'[x].pc = "idle"
      <4>1. OwnAfterSend(x) = 1
        BY <1>5, <2>2, <3>1 DEF OwnAfterSend, Own
      <4> QED  BY <2>2, <3>1, <4>1, HoldOne DEF Single, Pcs
    <3>2. CASE ctx[x].op # "decel" /\ ctx'[x].pc = "last"
      <4>1. OwnAfterSend(x) = 0
        BY <3>2 DEF OwnAfterSend
      <4> QED  BY <2>2, <3>2, <4>1, HoldOne DEF Single, Pcs
    <3> QED  BY <2>3, <3>1, <3>2
  <2>13. ci'[c].refs = ci[c].refs + Hold(ctx'[x]) - Hold(ctx[x]) + Flight(c)' - Flight(c)
    BY <2>7, <2>8, <2>10, <2>11, <2>12
  <2>14. /\ ctx'[x].pc \notin {"add", "rearm", "unpend"} /\ ctx[x].pc # "add"
         /\ x = TimerCtx => ctx[x].pc # "idle" /\ ctx'[x].pc # "idle"
    BY <1>5, <2>2, <2>3
  <2> QED  BY <2>9, <2>11, <2>13, <2>14, BalancedStep
<1> QED  BY <1>3, <1>4, <1>6, <1>7 DEF Deceleration

(* A sync message after it was looked at *)
LEMMA SyncRefs ==
  ASSUME IndInv, IndInv', RefInv, NEW x \in NssCtx, Sync(x)
  PROVE  RefInv'
<1>1. /\ TypeOK /\ x \in Contexts /\ x # TimerCtx /\ ctx \in [Contexts -> CtxType]
      /\ ci \in [Conns -> CiType] /\ Conn(x) \in Conns /\ ctx[x] \in CtxType
  BY NotTimer, Known DEF IndInv, TypeOK, CtxType
<1>2. PICK c \in Conns : c = Conn(x)
  BY <1>1
<1>3. /\ \A y \in Contexts \ {x} : ctx'[y] = ctx[y]
      /\ \A d \in Conns \ {c} : ci'[d] = ci[d] /\ UNCHANGED nss
  BY <1>1, <1>2 DEF Sync, AccelCeased, AccelEnded, RegenPeek, Goto, Return, Leave
<1>4. UNCHANGED nss /\ ctx[x].pc \in {"sync", "ended", "peek"}
  BY DEF Sync, AccelCeased, AccelEnded, RegenPeek, At
<1>5. /\ ci[c] \in CiType /\ Noticed(ci[c]) \in CiType
      /\ Noticed(ci[c]).refs = ci[c].refs /\ Noticed(ci[c]).group = ci[c].group
  <2>1. ci[c] \in CiType /\ RegenOK(ci[c])
    BY DEF IndInv, TypeOK, ConnInv, Bounded
  <2> QED  BY <2>1, NoticedOK
<1>6. Own(x) = 1
  BY <1>1 DEF Own
<1>7. \/ /\ ctx'[x].pc \in {"peek", "ended", "decel"} /\ ctx'[x].c = c
         /\ ci'[c] = ci[c] \/ ci'[c] = Noticed(ci[c])
      \/ /\ ctx'[x].pc = "idle"
         /\ ci'[c] = Deref(ci[c], 1) \/ ci'[c] = Deref(Noticed(ci[c]), 1)
  <2>1. CASE AccelCeased(x)
    BY <1>1, <1>2, <2>1 DEF AccelCeased, Goto, CtxType, Conn
  <2>2. CASE AccelEnded(x)
    BY <1>1, <1>2, <1>6, <2>2, IdleType DEF AccelEnded, Goto, Return, Leave, CtxType, Conn
  <2>3. CASE RegenPeek(x)
    BY <1>1, <1>2, <2>3, IdleType DEF RegenPeek, Goto, Leave, CtxType, Conn
  <2> QED  BY <2>1, <2>2, <2>3 DEF Sync
<1>8. ctx[x].pc \in Single
  BY <1>4 DEF Single, Pcs
<1>9. CASE /\ ctx'[x].pc \in {"peek", "ended", "decel"} /\ ctx'[x].c = c
           /\ ci'[c] = ci[c] \/ ci'[c] = Noticed(ci[c])
  <2>1. ctx'[x].pc \in Single /\ ci'[c].refs = ci[c].refs /\ ci'[c].group = ci[c].group
    BY <1>5, <1>9 DEF Single, Pcs
  <2> QED  BY <1>1, <1>2, <1>3, <1>4, <1>8, <1>9, <2>1, GoesOn
<1>10. CASE /\ ctx'[x].pc = "idle"
            /\ ci'[c] = Deref(ci[c], 1) \/ ci'[c] = Deref(Noticed(ci[c]), 1)
  <2>1. ci'[c].refs = ci[c].refs - 1 /\ ci'[c].group = ci[c].group
    BY <1>5, <1>10, RefFields
  <2> QED  BY <1>1, <1>2, <1>3, <1>4, <1>8, <1>10, <2>1, GivesBack
<1> QED  BY <1>7, <1>9, <1>10

(* The handler of a response, which releases what the command held or      *)
(* works on with it, and of a sync message                                 *)
LEMMA HandledRefs ==
  ASSUME IndInv, IndInv', RefInv, NEW x \in NssCtx, NEW i \in DOMAIN host,
         NEW m, m = host[i], NEW c \in Conns, c = m.c,
         \A y \in Contexts \ {x} : ctx'[y] = ctx[y],
         \A d \in Conns \ {c} : ci'[d] = ci[d],
         UNCHANGED cmds, host' = RemoveAt(host, i), ctx[x].pc = "idle",
         ctx'[x].pc = "idle" \/ (ctx'[x].pc \in Single /\ ctx'[x].c = c),
         ci'[c].group = ci[c].group,
         ci'[c].refs = ci[c].refs - OneIf(~IsNote(m)) + OneIf(ctx'[x].pc # "idle")
  PROVE  RefInv'
<1>1. TypeOK /\ x \in Contexts /\ x # TimerCtx /\ ci[c].refs \in Int
  BY NotTimer DEF IndInv, TypeOK, CiType
<1>2. \A d \in Conns : Flight(d)' = Flight(d) - OneIf(c = d /\ ~IsNote(m))
  BY <1>1, FlightTaken
<1>3. \A d \in Conns : Flight(d) \in Nat
  BY <1>1, UserTypes
<1>4. /\ OneIf(c = c /\ ~IsNote(m)) = OneIf(~IsNote(m)) /\ OneIf(~IsNote(m)) \in Int
      /\ \A d \in Conns \ {c} : OneIf(c = d /\ ~IsNote(m)) = 0
  BY DEF OneIf
<1>5. /\ Flight(c)' = Flight(c) - OneIf(~IsNote(m))
      /\ \A d \in Conns \ {c} : Flight(d)' = Flight(d)
  BY <1>2, <1>3, <1>4
<1>6. HoldsOnly(x, c)
  BY <1>5 DEF HoldsOnly
<1>7. Hold(ctx[x]) = 0 /\ Hold(ctx'[x]) = OneIf(ctx'[x].pc # "idle") /\ Hold(ctx'[x]) \in Int
  BY DEF Hold, Single, OneIf, Twice
<1>8. ci'[c].refs = ci[c].refs + Hold(ctx'[x]) - Hold(ctx[x]) + Flight(c)' - Flight(c)
  BY <1>1, <1>3, <1>4, <1>5, <1>7
<1>9. ctx'[x].pc \notin {"add", "rearm", "unpend"}
  BY DEF Single
<1> QED  BY <1>1, <1>6, <1>8, <1>9, BalancedStep

(* A message from the NSS is handled. *)
LEMMA MessageRefs ==
  ASSUME IndInv, IndInv', RefInv, NEW x \in NssCtx, NEW i \in DOMAIN host,
         Response(x, i) \/ SyncSeen(x, i)
  PROVE  RefInv'
<1>1. PICK m : m = host[i]
  OBVIOUS
<1>2. PICK c : c = m.c
  OBVIOUS
<1>3. m \in HostType /\ c \in Conns
  BY <1>1, <1>2, Answers
<1>4. /\ ctx \in [Contexts -> CtxType] /\ ci \in [Conns -> CiType] /\ x \in Contexts
      /\ ci[c] \in CiType
  BY <1>3, NotTimer DEF IndInv, TypeOK, CtxType
<1>5. /\ UNCHANGED cmds /\ host' = RemoveAt(host, i) /\ ctx[x].pc = "idle"
  BY DEF Response, CreateNacked, CreateFlushed, CreateAcked, DestroyAnswered, SyncSeen, At
<1>6. /\ \A d \in Conns \ {c} : ci'[d] = ci[d]
      /\ \A y \in Contexts \ {x} : ctx'[y] = ctx[y]
  BY <1>1, <1>2, <1>4 DEF Response, CreateNacked, CreateFlushed, CreateAcked, DestroyAnswered,
     SyncSeen
<1>7. \/ ~IsNote(m) /\ UNCHANGED ctx /\ ci'[c] = Deref(ci[c], 1)
      \/ ~IsNote(m) /\ UNCHANGED ci /\ ctx'[x].pc \in {"decel", "ended"} /\ ctx'[x].c = c
      \/ IsNote(m) /\ UNCHANGED <<ctx, ci>>
      \/ IsNote(m) /\ ci'[c] = Ref(ci[c]) /\ ctx'[x].pc \in {"sync", "peek"} /\ ctx'[x].c = c
  <2>1. CASE CreateNacked(x, i) \/ CreateFlushed(x, i)
    BY <1>1, <1>2, <1>3, <1>4, <2>1 DEF CreateNacked, CreateFlushed, IsNote
  <2>2. CASE CreateAcked(x, i)
    <3>1. m.type = "create"
      BY <1>1, <2>2 DEF CreateAcked
    <3>2. \/ UNCHANGED ctx /\ ci' = [ci EXCEPT ![c] = Deref(@, 1)]
          \/ /\ UNCHANGED ci
             /\ \E op \in {"make", "decel"} :
                  ctx' = [ctx EXCEPT ![x] = [Idle EXCEPT !.pc = "decel", !.c = c, !.op = op]]
      BY <1>1, <1>2, <2>2 DEF CreateAcked
    <3>3. CASE /\ UNCHANGED ci
               /\ \E op \in {"make", "decel"} :
                    ctx' = [ctx EXCEPT ![x] = [Idle EXCEPT !.pc = "decel", !.c = c, !.op = op]]
      <4>1. PICK op \in {"make", "decel"} :
              ctx' = [ctx EXCEPT ![x] = [Idle EXCEPT !.pc = "decel", !.c = c, !.op = op]]
        BY <3>3
      <4>2. PICK e : e = [Idle EXCEPT !.pc = "decel", !.c = c, !.op = op]
        OBVIOUS
      <4>4. e.pc = "decel" /\ e.c = c
        BY <1>3, <4>2, IdleType DEF CtxType
      <4>5. ctx'[x] = e
        BY <1>4, <4>1, <4>2
      <4> QED  BY <3>1, <3>3, <4>4, <4>5 DEF IsNote
    <3>4. CASE UNCHANGED ctx /\ ci' = [ci EXCEPT ![c] = Deref(@, 1)]
      BY <1>3, <1>4, <3>1, <3>4 DEF IsNote
    <3> QED  BY <3>2, <3>3, <3>4
  <2>3. CASE DestroyAnswered(x, i)
    <3>1. m.type = "destroy"
      BY <1>1, <2>3 DEF DestroyAnswered
    <3>2. \/ UNCHANGED ctx /\ ci' = [ci EXCEPT ![c] = Deref(@, 1)]
          \/ /\ UNCHANGED ci
             /\ ctx' = [ctx EXCEPT ![x] = [Idle EXCEPT !.pc = "ended", !.c = c]]
      BY <1>1, <1>2, <2>3 DEF DestroyAnswered
    <3>3. PICK e : e = [Idle EXCEPT !.pc = "ended", !.c = c]
      OBVIOUS
    <3>4. e.pc = "ended" /\ e.c = c
      BY <1>3, <3>3, BeginsType DEF Pcs
    <3>5. \/ UNCHANGED ctx /\ ci'[c] = Deref(ci[c], 1)
          \/ UNCHANGED ci /\ ctx'[x] = e
      <4>1. CASE UNCHANGED ctx /\ ci' = [ci EXCEPT ![c] = Deref(@, 1)]
        BY <1>3, <1>4, <4>1
      <4>2. CASE /\ UNCHANGED ci
                 /\ ctx' = [ctx EXCEPT ![x] = [Idle EXCEPT !.pc = "ended", !.c = c]]
        BY <1>4, <3>3, <4>2
      <4> QED  BY <3>2, <4>1, <4>2
    <3> QED  BY <3>1, <3>4, <3>5 DEF IsNote
  <2>4. CASE SyncSeen(x, i)
    <3>1. IsNote(m)
      BY <1>1, <2>4 DEF SyncSeen
    <3>2. \/ UNCHANGED <<ctx, ci>>
          \/ /\ ci' = [ci EXCEPT ![c] = Ref(@)]
             /\ \E pc \in {"sync", "peek"} :
                  ctx' = [ctx EXCEPT ![x] = [Idle EXCEPT !.pc = pc, !.c = c, !.op = "decel"]]
      BY <1>1, <1>2, <2>4 DEF SyncSeen
    <3>3. CASE /\ ci' = [ci EXCEPT ![c] = Ref(@)]
               /\ \E pc \in {"sync", "peek"} :
                    ctx' = [ctx EXCEPT ![x] = [Idle EXCEPT !.pc = pc, !.c = c, !.op = "decel"]]
      <4>1. PICK pc \in {"sync", "peek"} :
              ctx' = [ctx EXCEPT ![x] = [Idle EXCEPT !.pc = pc, !.c = c, !.op = "decel"]]
        BY <3>3
      <4>2. PICK e : e = [Idle EXCEPT !.pc = pc, !.c = c, !.op = "decel"]
        OBVIOUS
      <4>4. e.pc = pc /\ e.c = c
        BY <1>3, <4>2, IdleType DEF CtxType
      <4>5. ctx'[x] = e /\ ci'[c] = Ref(ci[c])
        BY <1>3, <1>4, <3>3, <4>1, <4>2
      <4> QED  BY <3>1, <4>4, <4>5
    <3> QED  BY <3>1, <3>2, <3>3
  <2> QED  BY <2>1, <2>2, <2>3, <2>4 DEF Response
<1>8. /\ ctx'[x].pc = "idle" \/ (ctx'[x].pc \in Single /\ ctx'[x].c = c)
      /\ ci'[c].group = ci[c].group
  BY <1>4, <1>5, <1>7, RefFields DEF Single, Pcs
<1>9. ci'[c].refs = ci[c].refs - OneIf(~IsNote(m)) + OneIf(ctx'[x].pc # "idle")
  <2>1. ci[c].refs \in Int /\ Deref(ci[c], 1).refs = ci[c].refs - 1 /\ Ref(ci[c]).refs = ci[c].refs + 1
    BY <1>4, RefFields
  <2>2. CASE ~IsNote(m) /\ UNCHANGED ctx /\ ci'[c] = Deref(ci[c], 1)
    <3>1. OneIf(~IsNote(m)) = 1 /\ OneIf(ctx'[x].pc # "idle") = 0
      BY <1>5, <2>2 DEF OneIf
    <3> QED  BY <2>1, <2>2, <3>1
  <2>3. CASE ~IsNote(m) /\ UNCHANGED ci /\ ctx'[x].pc \in {"decel", "ended"}
    <3>1. OneIf(~IsNote(m)) = 1 /\ OneIf(ctx'[x].pc # "idle") = 1
      BY <2>3 DEF OneIf
    <3> QED  BY <2>1, <2>3, <3>1
  <2>4. CASE IsNote(m) /\ UNCHANGED <<ctx, ci>>
    <3>1. OneIf(~IsNote(m)) = 0 /\ OneIf(ctx'[x].pc # "idle") = 0
      BY <1>5, <2>4 DEF OneIf
    <3> QED  BY <2>1, <2>4, <3>1
  <2>5. CASE IsNote(m) /\ ci'[c] = Ref(ci[c]) /\ ctx'[x].pc \in {"sync", "peek"}
    <3>1. OneIf(~IsNote(m)) = 0 /\ OneIf(ctx'[x].pc # "idle") = 1
      BY <2>5 DEF OneIf
    <3> QED  BY <2>1, <2>5, <3>1
  <2> QED  BY <1>7, <2>2, <2>3, <2>4, <2>5
<1> QED
  BY ONLY IndInv, IndInv', RefInv, x \in NssCtx, i \in DOMAIN host, <1>1, <1>2, <1>3, <1>5, <1>6,
          <1>8, <1>9, HandledRefs

(* Steps in which no context takes part *)
LEMMA IdleRefs ==
  ASSUME IndInv, RefInv, UNCHANGED ctx, \A d \in Conns : Flight(d)' = Flight(d),
         \A d \in Conns : ci'[d].refs = ci[d].refs /\ ci'[d].group = ci[d].group
  PROVE  RefInv'
<1>1. ASSUME NEW d \in Conns  PROVE RefOK(d)'
  <2>1. /\ Working(d)' = Working(d) /\ Adding(d)' = Adding(d)
        /\ Cardinality(Busy(d, Twice))' = Cardinality(Busy(d, Twice))
        /\ (TimerBusy(d)' <=> TimerBusy(d))
    BY DEF Working, Adding, Busy, TimerBusy, Twice
  <2>2. Users(d)' = Users(d)
    BY <2>1 DEF Users
  <2>3. RefOK(d)
    BY DEF RefInv
  <2> QED  BY <2>1, <2>2, <2>3 DEF RefOK
<1> QED  BY <1>1 DEF RefInv

(* RefInv is preserved by every step, *)
LEMMA NextRefs == ~TxFails /\ IndInv /\ IndInv' /\ RefInv /\ [Next]_vars => RefInv'
<1> SUFFICES ASSUME ~TxFails, IndInv, IndInv', RefInv, [Next]_vars  PROVE RefInv'
  OBVIOUS
<1>1. ci \in [Conns -> CiType] /\ TypeOK
  BY DEF IndInv, TypeOK
<1>2. CASE UNCHANGED vars
  <2>1. UNCHANGED <<ctx, ci>> /\ UNCHANGED <<cmds, host>>
    BY <1>2 DEF vars
  <2> QED  BY <2>1, FlightKept, IdleRefs
<1>3. CASE \E x \in PacketCtx, c \in Conns : ConnectionAdd(x, c) \/ PacketSeen(x, c)
  BY <1>3, AddRefs, LookRefs
<1>4. CASE \E x \in PacketCtx : Packet(x)
  BY <1>4, PacketRefs
<1>5. CASE \E x \in UserCtx, c \in Conns, op \in {"decel", "make"} : ForceDecel(x, c, op)
  BY <1>5, LookRefs
<1>6. CASE \E c \in Conns : TimerExpires(c)
  BY <1>6, ExpiryRefs
<1>7. CASE \E x \in Contexts : Deceleration(x)
  BY <1>7, DecelerationRefs
<1>8. CASE \E x \in NssCtx, i \in DOMAIN host : Response(x, i) \/ SyncSeen(x, i)
  BY <1>8, MessageRefs
<1>9. CASE \E x \in NssCtx : Sync(x)
  BY <1>9, SyncRefs
<1>10. CASE AllRegenNeeded \/ \E c \in Conns : RegenNeeded(c)
  <2>1. UNCHANGED ctx /\ UNCHANGED <<cmds, host>>
    BY <1>10 DEF AllRegenNeeded, RegenNeeded, nss
  <2>2. \A d \in Conns : ci'[d].refs = ci[d].refs /\ ci'[d].group = ci[d].group
    <3>1. CASE AllRegenNeeded
      BY <1>1, <3>1 DEF AllRegenNeeded, CiType
    <3>2. ASSUME NEW c \in Conns, RegenNeeded(c)
          PROVE  \A d \in Conns : ci'[d].refs = ci[d].refs /\ ci'[d].group = ci[d].group
      BY <1>1, <3>2 DEF RegenNeeded, CiType
    <3> QED  BY <1>10, <3>1, <3>2
  <2> QED  BY <2>1, <2>2, FlightKept, IdleRefs
<1>11. CASE \/ NssCreate(TRUE) \/ NssCreate(FALSE) \/ NssDestroy
            \/ \E c \in Conns : NssSync(c) \/ NssFlush(c)
  <2>1. UNCHANGED <<ctx, ci>>
    BY <1>11 DEF NssCreate, NssDestroy, NssSync, NssFlush
  <2>2. \A d \in Conns : Flight(d)' = Flight(d)
    BY <1>1, <1>11, FlightNss
  <2> QED  BY <2>1, <2>2, IdleRefs
<1> QED
  BY <1>2, <1>3, <1>4, <1>5, <1>6, <1>7, <1>8, <1>9, <1>10, <1>11 DEF Next

(* ... and holds at the start. *)
LEMMA InitRefs == Init => RefInv
<1> SUFFICES ASSUME Init  PROVE RefInv
  OBVIOUS
<1>1. /\ \A x \in Contexts : ctx[x].pc = "idle"
      /\ cmds = <<>> /\ host = <<>>
      /\ \A c \in Conns : ci[c].refs = 0 /\ ci[c].group = "MAX"
  BY IdleType DEF Init
<1>2. ASSUME NEW c \in Conns  PROVE RefOK(c)
  <2>1. Flight(c) = 0
    BY <1>1, InEmpty DEF Flight, CreateCmds, DestroyCmds, Creates, Destroys
  <2>2. /\ Busy(c, Pcs \ {"idle"}) = {} /\ Busy(c, {"add"}) = {} /\ Busy(c, Twice) = {}
    BY <1>1 DEF Busy, Twice
  <2>3. Working(c) = 0 /\ Adding(c) = 0 /\ Cardinality(Busy(c, Twice)) = 0
    BY <2>2, FS_EmptySet DEF Working, Adding
  <2>4. Users(c) = 0 /\ ~TimerBusy(c)
    BY <1>1, <2>1, <2>3, NotTimer DEF Users, TimerBusy, OneIf
  <2> QED  BY <1>1, <2>3, <2>4 DEF RefOK
<1> QED  BY <1>1, <1>2 DEF RefInv

-----------------------------------------------------------------------------
(* The theorems *)

(* While the driver takes every message, the references of a connection    *)
(* are those of its users, up to one that an expired timer left behind.    *)
THEOREM RefInvariance == ~TxFails => (Spec => [](IndInv /\ RefInv))
<1> SUFFICES ASSUME ~TxFails  PROVE Spec => [](IndInv /\ RefInv)
  OBVIOUS
<1>1. Init => RefInv
  BY InitRefs
<1>2. IndInv /\ IndInv' /\ RefInv /\ [Next]_vars => RefInv'
  BY NextRefs
<1> QED  BY <1>1, <1>2, Invariance, PTL DEF Spec

(* In the terms of EcmAccel: the timer's reference is its callback's while *)
(* that runs.                                                              *)
LEMMA HoldersUsers ==
  ASSUME IndInv, RefInv, NEW c \in Conns
  PROVE  Holders(c) = Users(c)
<1>1. TypeOK /\ RefOK(c)
  BY DEF IndInv, RefInv
<1> DEFINE B == Busy(c, Pcs \ {"idle"})
<1>2. InFlight(c, "create") + InFlight(c, "destroy") = Flight(c)
  BY <1>1, InFlightIn, CountTypes DEF Flight
<1>3. IsFiniteSet(B) /\ (TimerCtx \in B <=> TimerBusy(c))
  <2>1. B \subseteq Contexts
    BY DEF Busy
  <2>2. IsFiniteSet(B)
    BY <2>1, FiniteAssumption, FS_Subset
  <2> QED  BY <1>1, <2>2, NotTimer DEF TypeOK, Busy, TimerBusy
<1>4. /\ Cardinality(B) \in Nat
      /\ Cardinality(B \ {TimerCtx}) = IF TimerCtx \in B THEN Cardinality(B) - 1 ELSE Cardinality(B)
  BY <1>3, FS_CardinalityType, FS_RemoveElement
<1>5. /\ Working(c) = Cardinality(B) /\ Flight(c) \in Nat /\ Cardinality(Busy(c, Twice)) \in Nat
  BY <1>1, UserTypes DEF Working
<1>6. B \cap {TimerCtx} # {} <=> TimerCtx \in B
  OBVIOUS
<1>7. Holders(c) = Cardinality(B \ {TimerCtx}) + Cardinality(Busy(c, Twice)) + Flight(c)
                    + OneIf(ci[c].group # "MAX" \/ TimerCtx \in B)
  <2>1. InFlight(c, "create") \in Nat /\ InFlight(c, "destroy") \in Nat
    BY <1>1, InFlightIn, CountTypes
  <2>2. OneIf(ci[c].group # "MAX" \/ B \cap {TimerCtx} # {})
          = OneIf(ci[c].group # "MAX" \/ TimerCtx \in B)
    BY <1>6 DEF OneIf
  <2>3. Cardinality(B \ {TimerCtx}) \in Int
    BY <1>4
  <2> QED  BY <1>2, <1>5, <2>1, <2>2, <2>3 DEF Holders, Twice
<1> HIDE DEF B
<1>8. CASE TimerBusy(c)
  <2>1. ci[c].group = "MAX" /\ TimerCtx \in B
    BY <1>1, <1>3, <1>8 DEF RefOK
  <2>2. OneIf(ci[c].group # "MAX" \/ TimerCtx \in B) = 1 /\ OneIf(ci[c].group # "MAX") = 0
    BY <2>1 DEF OneIf
  <2> QED  BY <1>4, <1>5, <1>7, <2>1, <2>2 DEF Users
<1>9. CASE ~TimerBusy(c)
  <2>1. TimerCtx \notin B
    BY <1>3, <1>9
  <2>2. /\ OneIf(ci[c].group # "MAX" \/ TimerCtx \in B) = OneIf(ci[c].group # "MAX")
        /\ OneIf(ci[c].group # "MAX") \in Int
    BY <2>1 DEF OneIf
  <2> QED  BY <1>4, <1>5, <1>7, <2>1, <2>2 DEF Users
<1> QED  BY <1>8, <1>9

(* Contexts, commands, responses and the timer that use a connection each  *)
(* hold a reference to it, and nothing else does: a response finds its     *)
(* connection by serial, and no reference is dropped twice.                *)
THEOREM ReferencesAccounted == ~TxFails => (Spec => []RefsAccounted)
<1>1. IndInv /\ RefInv => RefsAccounted
  <2> SUFFICES ASSUME IndInv, RefInv, NEW c \in Conns
               PROVE  \/ ci[c].refs = Holders(c)
                      \/ ci[c].refs = Holders(c) + 1 /\ ci[c].group = "MAX"
    BY DEF RefsAccounted
  <2>1. RefOK(c)
    BY DEF RefInv
  <2> QED  BY <2>1, HoldersUsers DEF RefOK
<1> QED  BY <1>1, RefInvariance, PTL

(* A connection that nobody holds any longer has no timer that could call  *)
(* back into it.                                                           *)
THEOREM FreedDetached == ~TxFails => (Spec => []TimerDetached)
<1>1. IndInv /\ RefInv => TimerDetached
  <2> SUFFICES ASSUME IndInv, RefInv, NEW c \in Conns, ci[c].refs <= 0
               PROVE  ci[c].group = "MAX"
    BY DEF TimerDetached
  <2>1. RefOK(c) /\ TypeOK
    BY DEF RefInv, IndInv
  <2>2. /\ Flight(c) \in Nat /\ Working(c) \in Nat /\ Cardinality(Busy(c, Twice)) \in Nat
    BY <2>1, UserTypes
  <2>3. ci[c].group # "MAX" => Users(c) > 0
    BY <2>2 DEF Users, OneIf
  <2>4. Users(c) \in Nat
    BY <2>1, UserTypes
  <2> QED  BY <2>1, <2>3, <2>4 DEF RefOK
<1> QED  BY <1>1, RefInvariance, PTL
=============================================================================
