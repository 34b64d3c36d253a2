----------------------------- MODULE LacpProofs -----------------------------
(***************************************************************************)
(* What Lacp guarantees for any number of ports, systems and links.        *)
(***************************************************************************)
EXTENDS Lacp, Counting

-----------------------------------------------------------------------------
(* What a run works on *)

RunType == [port: [Ports -> PortType], agg: [Ids -> AggType], sent: Seq(PduType),
            at: (0..5) \X (0..5)]

(* The states of the machines as sets. *)
LEMMA StateSets ==
  /\ Range(ReceiveStates) = {"INITIALIZE", "PORT_DISABLED", "EXPIRED", "DEFAULTED", "CURRENT"}
  /\ Range(PeriodicStates) = {"NO_PERIODIC", "FAST_PERIODIC", "SLOW_PERIODIC", "PERIODIC_TX"}
  /\ Range(SelectStates) = {"UNSELECTED", "SELECTED"}
  /\ Range(MuxStates) = {"DETACHED", "WAITING", "ATTACHED", "COLLECTING_DISTRIBUTING"}
  /\ Range(TransmitStates) = {"NO_TX", "TX", "DISABLED"}
<1>1. Range(ReceiveStates) = {"INITIALIZE", "PORT_DISABLED", "EXPIRED", "DEFAULTED", "CURRENT"}
  BY DEF Range, ReceiveStates
<1>2. Range(PeriodicStates) = {"NO_PERIODIC", "FAST_PERIODIC", "SLOW_PERIODIC", "PERIODIC_TX"}
  BY DEF Range, PeriodicStates
<1>3. Range(SelectStates) = {"UNSELECTED", "SELECTED"}
  BY DEF Range, SelectStates
<1>4. Range(MuxStates) = {"DETACHED", "WAITING", "ATTACHED", "COLLECTING_DISTRIBUTING"}
  BY DEF Range, MuxStates
<1>5. Range(TransmitStates) = {"NO_TX", "TX", "DISABLED"}
  BY DEF Range, TransmitStates
<1> QED  BY <1>1, <1>2, <1>3, <1>4, <1>5

(* What is known of a partner that is not there, and of oneself. *)
LEMMA InfoTypes ==
  /\ AdminPartner \in InfoType
  /\ \A p \in Ports, t \in PortType : Actor(p, t) \in InfoType
<1>1. AdminPartner \in InfoType
  <2>1. 0 \in 0..MaxNumber
    BY NumberAssumption
  <2> QED  BY <2>1 DEF AdminPartner, InfoType
<1>2. ASSUME NEW p \in Ports, NEW t \in PortType  PROVE Actor(p, t) \in InfoType
  <2>1. SystemOf[p] \in Systems /\ (p \in Short) \in BOOLEAN
    BY TopologyAssumption
  <2>2. /\ t.number \in 0..MaxNumber /\ t.key \in Keys \cup {0}
        /\ t.aggregation \in BOOLEAN /\ t.synchronization \in BOOLEAN
    BY DEF PortType
  <2> QED  BY <2>1, <2>2 DEF Actor, InfoType
<1> QED  BY <1>1, <1>2

PutPort(s, p, u) == [s EXCEPT !.port[p] = u]

(* Only the port that runs, and only its record, is replaced. *)
LEMMA PortSet ==
  ASSUME NEW s \in RunType, NEW p \in Ports, NEW u \in PortType
  PROVE  LET r == PutPort(s, p, u) IN
         /\ r \in RunType /\ r.port[p] = u /\ r.agg = s.agg /\ r.sent = s.sent /\ r.at = s.at
         /\ \A o \in Ports \ {p} : r.port[o] = s.port[o]
  BY DEF RunType, PutPort

-----------------------------------------------------------------------------
(* The inductive invariant: what holds of a port at any time, ...          *)

PortInv(t) ==
  /\ t.id # NoId => t.select = "SELECTED"
  /\ t.selected => t.id # NoId
  /\ t.mux = "DETACHED" => ~t.ready_N
  /\ t.distributing <=> t.mux = "COLLECTING_DISTRIBUTING"
  /\ t.slave # NoId <=> t.mux = "COLLECTING_DISTRIBUTING"
  /\ t.slave # NoId /\ t.id # NoId => t.slave = t.id
  /\ t.partner.synchronization => t.recv = "CURRENT"
  /\ ~t.present => t.id = NoId /\ t.slave = NoId /\ ~t.initialized

(* ... of a port and the aggregator it has selected, ... *)
Match(t, a) ==
  /\ t.key = a.key /\ t.partner.system = a.partner_system /\ t.partner.key = a.partner_key
  /\ a.individual \/ (t.aggregation /\ t.partner.aggregation)

Agree(s) == \A o \in Ports, a \in Ids : o \in s.agg[a].ports <=> s.port[o].id = a
Exact(s) ==
  \A a \in Ids : s.agg[a].ready = (s.agg[a].ports # {} /\ \A o \in s.agg[a].ports : s.port[o].ready_N)
Alone(s) == \A a \in Ids : s.agg[a].individual => \A o, u \in s.agg[a].ports : o = u
Matched(s) ==
  \A o \in Ports : s.port[o].initialized /\ s.port[o].selected =>
                     Match(s.port[o], s.agg[s.port[o].id])

Good(s) ==
  /\ s \in RunType /\ \A o \in Ports : PortInv(s.port[o])
  /\ Agree(s) /\ Exact(s) /\ Alone(s) /\ Matched(s)

(* ... of a port between runs, ... *)
Rest(t) ==
  /\ t.select = "SELECTED" => t.selected
  /\ t.mux = "COLLECTING_DISTRIBUTING" => t.selected /\ t.partner.synchronization

(* ... and of the aggregators that there are. *)
Listed(s) ==
  \A o \in Ports : s.port[o].id # NoId => Contains(list[SystemOf[o]], s.port[o].id)
Counted(s) ==
  \A y \in Systems :
    Len(list[y]) = Cardinality({o \in Ports : s.port[o].present /\ SystemOf[o] = y})
Distinct ==
  \A y, z \in Systems : \A i \in DOMAIN list[y], j \in DOMAIN list[z] :
    list[y][i] = list[z][j] => y = z /\ i = j
Stocked(s) == list \in [Systems -> Seq(Ids)] /\ Distinct /\ Counted(s) /\ Listed(s)

Used == {a \in Ids : \E y \in Systems : Contains(list[y], a)}
Present == {o \in Ports : port[o].present}

IInv ==
  /\ Good(Now) /\ (\A o \in Ports : Rest(port[o])) /\ Stocked(Now)
  /\ Cardinality(Used) = Cardinality(Present) /\ faults \in 0..MaxFaults

(* The frames on their way and the number of the next port, which the      *)
(* steps of a port do not depend on otherwise.                             *)
Framed == /\ next_port_agg_id \in [Systems -> Nat \ {0}]
          /\ wire \in [Ports -> Seq(PduType)]

-----------------------------------------------------------------------------
(* Within a run: the machines that no longer move, ... *)
StuckReceive(t) == \A q \in Range(ReceiveStates) : ~ReceiveCond(q, t)
StuckPeriodic(t) == \A q \in Range(PeriodicStates) : ~PeriodicCond(q, t)
StuckSelect(t) == \A q \in Range(SelectStates) : ~SelectCond(q, t)
StuckMux(p, s) == \A q \in Range(MuxStates) : ~MuxCond(q, p, s)

(* ... when only transmitting, selecting and waiting are left, ... *)
Late(p, s) ==
  LET t == s.port[p] IN
  /\ StuckReceive(t) /\ StuckPeriodic(t)
  /\ t.select = "SELECTED" => t.selected
  /\ \/ t.mux = "DETACHED"
     \/ t.mux # "DETACHED" /\ t.selected /\ StuckMux(p, s)

Phase(p, s) ==
  LET t == s.port[p] IN
  /\ s.at[1] \in 1..5
  /\ s.at[1] # 1 => StuckReceive(t)
  /\ s.at[1] \notin {1, 2} => StuckPeriodic(t)
  /\ s.at[1] = 4 => (t.select = "SELECTED" => t.selected)
  /\ s.at[1] = 5 => Late(p, s)
  /\ s.sent # <<>> => Late(p, s) /\ ~t.ntt /\ Len(s.sent) = 1

(* ... and how many states are entered at most. *)
RankReceive(t) ==
  (IF t.message # NoPdu THEN 1 ELSE 0)
  + (IF t.recv \in {"EXPIRED", "CURRENT"} /\ ~t.current_while THEN 1 ELSE 0)
  + (IF t.recv = "INITIALIZE" THEN 2
     ELSE IF t.recv = "PORT_DISABLED" THEN IF t.port_enabled THEN 1 ELSE 0
     ELSE IF t.port_enabled THEN 0 ELSE 1)
RankPeriodic(t) ==
  (IF t.periodic = "NO_PERIODIC" THEN IF t.port_enabled THEN 2 ELSE 0
   ELSE IF t.periodic = "PERIODIC_TX" THEN 1
   ELSE IF ~t.periodic_timer THEN 2
   ELSE IF t.periodic = "FAST_PERIODIC" THEN IF t.partner.timeout THEN 0 ELSE 1
   ELSE IF t.partner.timeout THEN 2 ELSE 0)
  + (IF t.periodic # "NO_PERIODIC" /\ ~t.port_enabled THEN 1 ELSE 0)
RankMux(t) ==
  IF t.selected
  THEN IF t.mux = "DETACHED" THEN 3 ELSE IF t.mux = "WAITING" THEN 2
       ELSE IF t.mux = "ATTACHED" THEN IF t.partner.synchronization THEN 1 ELSE 0
       ELSE IF t.partner.synchronization THEN 0 ELSE 1
  ELSE (IF t.select = "SELECTED" THEN 1 ELSE 0)
       + (IF t.mux = "DETACHED" THEN 4 ELSE IF t.mux = "COLLECTING_DISTRIBUTING" THEN 6 ELSE 5)
RankTransmit(t) ==
  IF t.periodic # "NO_PERIODIC"
  THEN (IF t.transmit # "NO_TX" THEN 1 ELSE 0) + (IF t.ntt THEN 2 ELSE 0)
  ELSE IF t.transmit = "DISABLED" THEN 0 ELSE IF t.transmit = "NO_TX" THEN 1 ELSE 2
Rank(p, s) ==
  LET t == s.port[p] IN
  IF s.at[1] = 1 THEN 15 + RankReceive(t)
  ELSE RankPeriodic(t) + RankMux(t) + (IF Late(p, s) THEN RankTransmit(t) ELSE 4)

-----------------------------------------------------------------------------
(* Which parts of a port a state leaves alone *)

SameBase(t, u) == /\ u.present = t.present /\ u.number = t.number
                  /\ u.port_enabled = t.port_enabled
                  /\ u.initialized = t.initialized
                  /\ u.key = t.key /\ u.aggregation = t.aggregation
SameRecv(t, u) == /\ u.recv = t.recv /\ u.partner = t.partner
                  /\ u.current_while = t.current_while /\ u.message = t.message
SamePeriodic(t, u) == u.periodic = t.periodic /\ u.periodic_timer = t.periodic_timer
SameSelect(t, u) == u.select = t.select /\ u.id = t.id /\ u.selected = t.selected
SameMux(t, u) == /\ u.mux = t.mux /\ u.slave = t.slave /\ u.distributing = t.distributing
                 /\ u.ready_N = t.ready_N
SameTransmit(t, u) == u.transmit = t.transmit /\ u.pkt_sent = t.pkt_sent

(* The fields of a port. *)
LEMMA PortFields ==
  ASSUME NEW t \in PortType
  PROVE  /\ t.present \in BOOLEAN /\ t.number \in 0..MaxNumber
         /\ t.port_enabled \in BOOLEAN /\ t.initialized \in BOOLEAN
         /\ t.recv \in Range(ReceiveStates) /\ t.periodic \in Range(PeriodicStates)
         /\ t.select \in Range(SelectStates) /\ t.mux \in Range(MuxStates)
         /\ t.transmit \in Range(TransmitStates) /\ t.key \in Keys \cup {0}
         /\ t.aggregation \in BOOLEAN /\ t.synchronization \in BOOLEAN
         /\ t.distributing \in BOOLEAN /\ t.partner \in InfoType /\ t.selected \in BOOLEAN
         /\ t.id \in Ids \cup {NoId} /\ t.ready_N \in BOOLEAN /\ t.ntt \in BOOLEAN
         /\ t.message \in PduType \cup {NoPdu} /\ t.slave \in Ids \cup {NoId}
         /\ t.current_while \in BOOLEAN /\ t.periodic_timer \in BOOLEAN
         /\ t.wait_while \in BOOLEAN /\ t.pkt_sent \in 0..RateLimit
  BY DEF PortType

(* What entering a state of the receive machine does to a port. *)
Received(q, t, u) ==
  /\ SameBase(t, u) /\ SamePeriodic(t, u) /\ SameMux(t, u) /\ SameTransmit(t, u)
  /\ u.select = t.select /\ u.id = t.id /\ u.recv = q
  /\ u.selected => t.selected /\ SameIdentity(u.partner, t.partner)
  /\ q = "INITIALIZE" => ~u.selected
  /\ u.partner.synchronization => q = "CURRENT"
  /\ u.message = IF q = "CURRENT" THEN NoPdu ELSE t.message
  /\ IF q \in {"EXPIRED", "CURRENT"} THEN u.current_while ELSE u.current_while = t.current_while

(* The fields that the receive machine sets. *)
ReceiveField(t, q, b, n, i, c, m) ==
  [t EXCEPT !.recv = q, !.selected = b, !.ntt = n, !.partner = i, !.current_while = c,
            !.message = m]

(* They keep the others, and the type. *)
LEMMA ReceiveSet ==
  ASSUME NEW t \in PortType, NEW q \in Range(ReceiveStates), NEW b \in BOOLEAN, NEW n \in BOOLEAN,
         NEW i \in InfoType, NEW c \in BOOLEAN, NEW m \in PduType \cup {NoPdu}
  PROVE  LET u == ReceiveField(t, q, b, n, i, c, m) IN
         /\ u \in PortType
         /\ u.recv = q /\ u.selected = b /\ u.ntt = n /\ u.partner = i /\ u.current_while = c /\ u.message = m
         /\ SameBase(t, u) /\ SamePeriodic(t, u) /\ SameMux(t, u) /\ SameTransmit(t, u)
         /\ u.select = t.select /\ u.id = t.id
<1>0. PICK u : u = ReceiveField(t, q, b, n, i, c, m)
  OBVIOUS
<1>1. u = [present |-> t.present, number |-> t.number, port_enabled |-> t.port_enabled,
          initialized |-> t.initialized, recv |-> q, periodic |-> t.periodic,
          select |-> t.select, mux |-> t.mux, transmit |-> t.transmit, key |-> t.key,
          aggregation |-> t.aggregation, synchronization |-> t.synchronization,
          distributing |-> t.distributing, partner |-> i, selected |-> b, id |-> t.id,
          ready_N |-> t.ready_N, ntt |-> n, message |-> m, slave |-> t.slave,
          current_while |-> c, periodic_timer |-> t.periodic_timer,
          wait_while |-> t.wait_while, pkt_sent |-> t.pkt_sent]
  BY <1>0 DEF PortType, ReceiveField
<1>2. u \in PortType
  BY <1>1, PortFields DEF PortType
<1> QED  BY <1>0, <1>1, <1>2 DEF SameBase, SameRecv, SamePeriodic, SameSelect, SameMux, SameTransmit

(* The fields that the periodic machine sets. *)
PeriodicField(t, q, b, n) ==
  [t EXCEPT !.periodic = q, !.periodic_timer = b, !.ntt = n]

(* They keep the others, and the type. *)
LEMMA PeriodicSet ==
  ASSUME NEW t \in PortType, NEW q \in Range(PeriodicStates), NEW b \in BOOLEAN, NEW n \in BOOLEAN
  PROVE  LET u == PeriodicField(t, q, b, n) IN
         /\ u \in PortType
         /\ u.periodic = q /\ u.periodic_timer = b /\ u.ntt = n
         /\ SameBase(t, u) /\ SameRecv(t, u) /\ SameSelect(t, u) /\ SameMux(t, u) /\ SameTransmit(t, u)
<1>0. PICK u : u = PeriodicField(t, q, b, n)
  OBVIOUS
<1>1. u = [present |-> t.present, number |-> t.number, port_enabled |-> t.port_enabled,
          initialized |-> t.initialized, recv |-> t.recv, periodic |-> q,
          select |-> t.select, mux |-> t.mux, transmit |-> t.transmit, key |-> t.key,
          aggregation |-> t.aggregation, synchronization |-> t.synchronization,
          distributing |-> t.distributing, partner |-> t.partner,
          selected |-> t.selected, id |-> t.id, ready_N |-> t.ready_N, ntt |-> n,
          message |-> t.message, slave |-> t.slave, current_while |-> t.current_while,
          periodic_timer |-> b, wait_while |-> t.wait_while, pkt_sent |-> t.pkt_sent]
  BY <1>0 DEF PortType, PeriodicField
<1>2. u \in PortType
  BY <1>1, PortFields DEF PortType
<1> QED  BY <1>0, <1>1, <1>2 DEF SameBase, SameRecv, SamePeriodic, SameSelect, SameMux, SameTransmit

(* The fields that the selection logic sets. *)
SelectField(t, q, a, b) ==
  [t EXCEPT !.select = q, !.id = a, !.selected = b]

(* The fields that the mux machine sets. *)
MuxField(t, q, a, y, d, n, b, w) ==
  [t EXCEPT !.mux = q, !.slave = a, !.synchronization = y, !.distributing = d,
            !.ntt = n, !.ready_N = b, !.wait_while = w]

(* The fields that the transmit machine sets. *)
TransmitField(t, q, k, n) ==
  [t EXCEPT !.transmit = q, !.pkt_sent = k, !.ntt = n]

(* They keep the others, and the type. *)
LEMMA TransmitSet ==
  ASSUME NEW t \in PortType, NEW q \in Range(TransmitStates), NEW k \in 0..RateLimit, NEW n \in BOOLEAN
  PROVE  LET u == TransmitField(t, q, k, n) IN
         /\ u \in PortType
         /\ u.transmit = q /\ u.pkt_sent = k /\ u.ntt = n
         /\ SameBase(t, u) /\ SameRecv(t, u) /\ SamePeriodic(t, u) /\ SameSelect(t, u) /\ SameMux(t, u)
<1>0. PICK u : u = TransmitField(t, q, k, n)
  OBVIOUS
<1>1. u = [present |-> t.present, number |-> t.number, port_enabled |-> t.port_enabled,
          initialized |-> t.initialized, recv |-> t.recv, periodic |-> t.periodic,
          select |-> t.select, mux |-> t.mux, transmit |-> q, key |-> t.key,
          aggregation |-> t.aggregation, synchronization |-> t.synchronization,
          distributing |-> t.distributing, partner |-> t.partner,
          selected |-> t.selected, id |-> t.id, ready_N |-> t.ready_N, ntt |-> n,
          message |-> t.message, slave |-> t.slave, current_while |-> t.current_while,
          periodic_timer |-> t.periodic_timer, wait_while |-> t.wait_while,
          pkt_sent |-> k]
  BY <1>0 DEF PortType, TransmitField
<1>2. u \in PortType
  BY <1>1, PortFields DEF PortType
<1> QED  BY <1>0, <1>1, <1>2 DEF SameBase, SameRecv, SamePeriodic, SameSelect, SameMux, SameTransmit


-----------------------------------------------------------------------------
(* What entering a state does *)

(* The receive machine: it may take the choice of an aggregator back, and  *)
(* if it does not, the partner is the same as before.                      *)
LEMMA ReceiveEffect ==
  ASSUME NEW s \in RunType, NEW p \in Ports, NEW q \in Range(ReceiveStates),
         q = "CURRENT" => s.port[p].message \in PduType
  PROVE  \E u \in PortType : /\ EnterReceive(q, p, s) = PutPort(s, p, u)
                             /\ Received(q, s.port[p], u)
<1>1. PICK t \in PortType : t = s.port[p]
  BY DEF RunType
<1>2. PICK v : v = [t EXCEPT !.recv = q]
  OBVIOUS
<1>3. v.selected = t.selected /\ v.partner = t.partner /\ v.ntt = t.ntt /\ v.message = t.message
  BY <1>2 DEF PortType
<1> DEFINE Set(b, n, i, c, m) == ReceiveField(t, q, b, n, i, c, m)
<1>4. t.partner \in InfoType /\ t.ntt \in BOOLEAN /\ t.selected \in BOOLEAN
      /\ t.current_while \in BOOLEAN /\ t.message \in PduType \cup {NoPdu}
  BY PortFields
<1>5. AdminPartner \in InfoType /\ ~AdminPartner.synchronization
  BY InfoTypes DEF AdminPartner
<1>0. ASSUME NEW b \in BOOLEAN, NEW n \in BOOLEAN, NEW i \in InfoType, NEW c \in BOOLEAN,
             NEW m \in PduType \cup {NoPdu}, NEW u, u = Set(b, n, i, c, m),
             b => t.selected /\ SameIdentity(i, t.partner),
             q = "INITIALIZE" => ~b, i.synchronization => q = "CURRENT",
             m = IF q = "CURRENT" THEN NoPdu ELSE t.message,
             IF q \in {"EXPIRED", "CURRENT"} THEN c ELSE c = t.current_while
      PROVE  u \in PortType /\ Received(q, t, u)
  <2>1. /\ u \in PortType
        /\ u.recv = q /\ u.selected = b /\ u.ntt = n /\ u.partner = i
        /\ u.current_while = c /\ u.message = m
        /\ SameBase(t, u) /\ SamePeriodic(t, u) /\ SameMux(t, u) /\ SameTransmit(t, u)
        /\ u.select = t.select /\ u.id = t.id
    BY <1>0, ReceiveSet
  <2> QED  BY <1>0, <2>1 DEF Received
<1>6. CASE q = "INITIALIZE"
  <2>1. PICK u : u = Set(FALSE, t.ntt, AdminPartner, t.current_while, t.message)
    OBVIOUS
  <2>2. u = [v EXCEPT !.selected = FALSE, !.partner = AdminPartner]
    BY <1>2, <2>1 DEF PortType, ReceiveField
  <2>3. EnterReceive(q, p, s) = PutPort(s, p, u)
    BY <1>1, <1>2, <1>6, <2>2 DEF EnterReceive, PutPort
  <2>4. u \in PortType /\ Received(q, t, u)
    BY <1>4, <1>5, <1>6, <2>1, <1>0
  <2> QED  BY <1>1, <2>3, <2>4
<1>7. CASE q = "PORT_DISABLED"
  <2>1. PICK i : i = [t.partner EXCEPT !.synchronization = FALSE]
    OBVIOUS
  <2>2. i \in InfoType /\ SameIdentity(i, t.partner) /\ ~i.synchronization
    BY <1>4, <2>1 DEF InfoType, SameIdentity, Identity
  <2>3. PICK u : u = Set(t.selected, t.ntt, i, t.current_while, t.message)
    OBVIOUS
  <2>4. u = [v EXCEPT !.partner.synchronization = FALSE]
    BY <1>2, <2>1, <2>3 DEF PortType, ReceiveField
  <2>5. EnterReceive(q, p, s) = PutPort(s, p, u)
    BY <1>1, <1>2, <1>7, <2>4 DEF EnterReceive, PutPort
  <2>6. u \in PortType /\ Received(q, t, u)
    BY <1>4, <1>7, <2>2, <2>3, <1>0
  <2> QED  BY <1>1, <2>5, <2>6
<1>8. CASE q = "EXPIRED"
  <2>1. PICK i : i = [t.partner EXCEPT !.synchronization = FALSE, !.timeout = TRUE]
    OBVIOUS
  <2>2. i \in InfoType /\ SameIdentity(i, t.partner) /\ ~i.synchronization
    BY <1>4, <2>1 DEF InfoType, SameIdentity, Identity
  <2>3. PICK u : u = Set(t.selected, t.ntt, i, TRUE, t.message)
    OBVIOUS
  <2>4. u = [v EXCEPT !.partner.synchronization = FALSE, !.partner.timeout = TRUE,
                      !.current_while = TRUE]
    BY <1>2, <2>1, <2>3 DEF PortType, ReceiveField
  <2>5. EnterReceive(q, p, s) = PutPort(s, p, u)
    BY <1>1, <1>2, <1>8, <2>4 DEF EnterReceive, PutPort
  <2>6. u \in PortType /\ Received(q, t, u)
    BY <1>4, <1>8, <2>2, <2>3, <1>0
  <2> QED  BY <1>1, <2>5, <2>6
<1>9. CASE q = "DEFAULTED"
  <2>1. PICK b \in BOOLEAN : b = (t.selected /\ SameIdentity(t.partner, AdminPartner))
    BY <1>4
  <2>2. PICK u : u = Set(b, t.ntt, AdminPartner, t.current_while, t.message)
    OBVIOUS
  <2>3. u = [v EXCEPT !.selected = v.selected /\ SameIdentity(v.partner, AdminPartner),
                      !.partner = AdminPartner]
    BY <1>2, <1>3, <2>1, <2>2 DEF PortType, ReceiveField
  <2>4. EnterReceive(q, p, s) = PutPort(s, p, u)
    BY <1>1, <1>2, <1>9, <2>3 DEF EnterReceive, PutPort
  <2>5. b => t.selected /\ SameIdentity(AdminPartner, t.partner)
    BY <2>1 DEF SameIdentity
  <2>6. u \in PortType /\ Received(q, t, u)
    BY <1>4, <1>5, <1>9, <2>2, <2>5, <1>0
  <2> QED  BY <1>1, <2>4, <2>6
<1>10. CASE q = "CURRENT"
  <2>1. PICK m \in PduType : m = t.message
    BY <1>1, <1>10
  <2>2. m.actor \in InfoType
    BY DEF PduType
  <2>3. PICK b \in BOOLEAN : b = (t.selected /\ SameIdentity(m.actor, t.partner))
    BY <1>4
  <2>4. PICK n \in BOOLEAN : n = (t.ntt \/ m.partner # Actor(p, v))
    BY <1>4
  <2>5. PICK y \in BOOLEAN : y = PartnerInSync(p, v, m)
    BY DEF PartnerInSync
  <2>6. PICK i : i = [m.actor EXCEPT !.synchronization = y]
    OBVIOUS
  <2>7. i \in InfoType /\ SameIdentity(i, m.actor)
    BY <2>2, <2>5, <2>6 DEF InfoType, SameIdentity, Identity
  <2>8. PICK u : u = Set(b, n, i, TRUE, NoPdu)
    OBVIOUS
  <2>9. u = RecordPDU(p, v, m)
    BY <1>2, <1>3, <2>3, <2>4, <2>5, <2>6, <2>8 DEF PortType, ReceiveField, RecordPDU
  <2>10. EnterReceive(q, p, s) = PutPort(s, p, u)
    BY <1>1, <1>2, <1>3, <1>10, <2>1, <2>9 DEF EnterReceive, PutPort
  <2>11. b => t.selected /\ SameIdentity(i, t.partner)
    BY <2>3, <2>7 DEF SameIdentity
  <2>12. u \in PortType /\ Received(q, t, u)
    BY <1>4, <1>10, <2>7, <2>8, <2>11, <1>0
  <2> QED  BY <1>1, <2>10, <2>12
<1> QED  BY <1>6, <1>7, <1>8, <1>9, <1>10, StateSets

(* The periodic machine. *)
Paced(q, t, u) ==
  /\ SameBase(t, u) /\ SameRecv(t, u) /\ SameSelect(t, u) /\ SameMux(t, u) /\ SameTransmit(t, u)
  /\ u.periodic = q
  /\ u.ntt = (q = "PERIODIC_TX" \/ t.ntt)
  /\ u.periodic_timer = IF q = "PERIODIC_TX" THEN t.periodic_timer ELSE q # "NO_PERIODIC"

(* It asks for a frame or starts its timer. *)
LEMMA PeriodicEffect ==
  ASSUME NEW s \in RunType, NEW p \in Ports, NEW q \in Range(PeriodicStates)
  PROVE  \E u \in PortType : /\ EnterPeriodic(q, p, s) = PutPort(s, p, u)
                             /\ Paced(q, s.port[p], u)
<1>1. PICK t \in PortType : t = s.port[p]
  BY DEF RunType
<1>2. PICK v : v = [t EXCEPT !.periodic = q]
  OBVIOUS
<1>3. t.ntt \in BOOLEAN /\ t.periodic_timer \in BOOLEAN
  BY PortFields
<1>4. PICK n \in BOOLEAN : n = (q = "PERIODIC_TX" \/ t.ntt)
  BY <1>3
<1>5. PICK b \in BOOLEAN : b = IF q = "PERIODIC_TX" THEN t.periodic_timer ELSE q # "NO_PERIODIC"
  BY <1>3
<1>6. PICK u : u = PeriodicField(t, q, b, n)
  OBVIOUS
<1>7. u = IF q = "PERIODIC_TX" THEN [v EXCEPT !.ntt = TRUE]
          ELSE [v EXCEPT !.periodic_timer = q # "NO_PERIODIC"]
  <2>1. CASE q = "PERIODIC_TX"
    BY <1>2, <1>4, <1>5, <1>6, <2>1 DEF PortType, PeriodicField
  <2>2. CASE q # "PERIODIC_TX"
    <3>1. n = t.ntt /\ b = (q # "NO_PERIODIC")
      BY <1>4, <1>5, <1>3, <2>2
    <3> QED  BY <1>2, <1>6, <2>2, <3>1 DEF PortType, PeriodicField
  <2> QED  BY <2>1, <2>2
<1>8. EnterPeriodic(q, p, s) = PutPort(s, p, u)
  BY <1>1, <1>2, <1>7 DEF EnterPeriodic, PutPort
<1>9. /\ u \in PortType
      /\ u.periodic = q /\ u.periodic_timer = b /\ u.ntt = n
      /\ SameBase(t, u) /\ SameRecv(t, u) /\ SameSelect(t, u) /\ SameMux(t, u) /\ SameTransmit(t, u)
  BY <1>6, PeriodicSet
<1>10. Paced(q, t, u)
  BY <1>4, <1>5, <1>9 DEF Paced
<1> QED  BY <1>1, <1>8, <1>9, <1>10

(* The mux machine, and the device that it takes. *)
MuxHas(q, t, u, a, d, n, b) ==
  /\ SameBase(t, u) /\ SameRecv(t, u) /\ SamePeriodic(t, u) /\ SameSelect(t, u) /\ SameTransmit(t, u)
  /\ u.mux = q /\ u.slave = a /\ u.distributing = d /\ u.ntt = n /\ u.ready_N = b
Taken(t) == IF t.id = NoId THEN t.slave ELSE t.id
Muxed(q, t, u) ==
  /\ SameBase(t, u) /\ SameRecv(t, u) /\ SamePeriodic(t, u) /\ SameSelect(t, u) /\ SameTransmit(t, u)
  /\ u.mux = q
  /\ q = "DETACHED" => ~u.ready_N
  /\ q # "DETACHED" => u.ready_N = t.ready_N
  /\ q \in {"DETACHED", "ATTACHED"} => u.slave = NoId /\ ~u.distributing
  /\ q = "WAITING" => u.slave = t.slave /\ u.distributing = t.distributing /\ u.ntt = t.ntt
  /\ q = "COLLECTING_DISTRIBUTING" =>
       u.slave = Taken(t) /\ u.distributing

(* It attaches the device to that of the aggregator and detaches it. *)
LEMMA MuxEffect ==
  ASSUME NEW s \in RunType, NEW p \in Ports, NEW q \in Range(MuxStates)
  PROVE  \E u \in PortType : /\ EnterMux(q, p, s) = PutPort(s, p, u)
                             /\ Muxed(q, s.port[p], u)
<1>1. PICK t \in PortType : t = s.port[p]
  BY DEF RunType
<1>2. PICK v : v = [t EXCEPT !.mux = q]
  OBVIOUS
<1>3. /\ t.slave \in Ids \cup {NoId} /\ t.id \in Ids \cup {NoId} /\ t.synchronization \in BOOLEAN
      /\ t.distributing \in BOOLEAN /\ t.ntt \in BOOLEAN /\ t.ready_N \in BOOLEAN
      /\ t.wait_while \in BOOLEAN
  BY PortFields
<1>4. v.id = t.id /\ v.slave = t.slave
  BY <1>2 DEF PortType
<1>5. ASSUME NEW a \in Ids \cup {NoId}, NEW y \in BOOLEAN, NEW d \in BOOLEAN, NEW n \in BOOLEAN,
             NEW b \in BOOLEAN, NEW w \in BOOLEAN, NEW u, u = MuxField(t, q, a, y, d, n, b, w)
      PROVE  u \in PortType /\ MuxHas(q, t, u, a, d, n, b)
  <2>1. u = [present |-> t.present, number |-> t.number, port_enabled |-> t.port_enabled,
              initialized |-> t.initialized, recv |-> t.recv, periodic |-> t.periodic,
              select |-> t.select, mux |-> q, transmit |-> t.transmit, key |-> t.key,
              aggregation |-> t.aggregation, synchronization |-> y, distributing |-> d,
              partner |-> t.partner, selected |-> t.selected, id |-> t.id, ready_N |-> b,
              ntt |-> n, message |-> t.message, slave |-> a,
              current_while |-> t.current_while, periodic_timer |-> t.periodic_timer,
              wait_while |-> w, pkt_sent |-> t.pkt_sent]
    BY <1>5 DEF PortType, MuxField
  <2>2. u \in PortType
    BY <2>1, PortFields DEF PortType
  <2>3. MuxHas(q, t, u, a, d, n, b)
    BY <2>1 DEF MuxHas, SameBase, SameRecv, SamePeriodic, SameSelect, SameTransmit
  <2> QED  BY <2>2, <2>3
<1>6. CASE q = "DETACHED"
  <2>1. PICK u : u = MuxField(t, q, NoId, FALSE, FALSE, TRUE, FALSE, FALSE)
    OBVIOUS
  <2>2. u = [v EXCEPT !.slave = NoId, !.synchronization = FALSE, !.distributing = FALSE,
                      !.ntt = TRUE, !.ready_N = FALSE, !.wait_while = FALSE]
    BY <1>2, <2>1 DEF PortType, MuxField
  <2>3. EnterMux(q, p, s) = PutPort(s, p, u)
    BY <1>1, <1>2, <1>6, <2>2 DEF EnterMux, PutPort
  <2>4. u \in PortType /\ MuxHas(q, t, u, NoId, FALSE, TRUE, FALSE)
    BY <1>5, <2>1
  <2>5. Muxed(q, t, u)
    BY <1>6, <2>4 DEF Muxed, MuxHas
  <2> QED  BY <1>1, <2>3, <2>4, <2>5
<1>7. CASE q = "WAITING"
  <2>0. PICK a, y, d, n, b, w : /\ a = t.slave /\ y = t.synchronization /\ d = t.distributing
                                /\ n = t.ntt /\ b = t.ready_N /\ w = TRUE
    OBVIOUS
  <2>1. PICK u : u = MuxField(t, q, a, y, d, n, b, w)
    OBVIOUS
  <2>2. u = [v EXCEPT !.wait_while = TRUE]
    BY <1>2, <2>0, <2>1 DEF PortType, MuxField
  <2>3. EnterMux(q, p, s) = PutPort(s, p, u)
    BY <1>1, <1>2, <1>7, <2>2 DEF EnterMux, PutPort
  <2>4. u \in PortType /\ Muxed(q, t, u)
    <3>1. /\ a \in Ids \cup {NoId} /\ y \in BOOLEAN /\ d \in BOOLEAN /\ n \in BOOLEAN
          /\ b \in BOOLEAN /\ w \in BOOLEAN
      BY <1>3, <2>0
    <3>2. u \in PortType /\ MuxHas(q, t, u, a, d, n, b)
      BY ONLY <1>5, <2>1, <3>1
    <3>3. MuxHas(q, t, u, t.slave, t.distributing, t.ntt, t.ready_N)
      BY ONLY <2>0, <3>2
    <3>4. Muxed(q, t, u)
      BY <1>7, <3>3 DEF Muxed, MuxHas
    <3> QED  BY <3>2, <3>4
  <2> QED  BY <1>1, <2>3, <2>4
<1>8. CASE q = "ATTACHED"
  <2>0. PICK b \in BOOLEAN, w \in BOOLEAN : b = t.ready_N /\ w = t.wait_while
    BY <1>3
  <2>1. PICK u : u = MuxField(t, q, NoId, TRUE, FALSE, TRUE, b, w)
    OBVIOUS
  <2>2. u = [v EXCEPT !.slave = NoId, !.synchronization = TRUE, !.distributing = FALSE, !.ntt = TRUE]
    BY <1>2, <2>0, <2>1 DEF PortType, MuxField
  <2>3. EnterMux(q, p, s) = PutPort(s, p, u)
    BY <1>1, <1>2, <1>8, <2>2 DEF EnterMux, PutPort
  <2>4. u \in PortType /\ MuxHas(q, t, u, NoId, FALSE, TRUE, b)
    BY ONLY <1>5, <2>1
  <2>5. Muxed(q, t, u)
    BY <1>8, <2>0, <2>4 DEF Muxed, MuxHas
  <2> QED  BY <1>1, <2>3, <2>4, <2>5
<1>9. CASE q = "COLLECTING_DISTRIBUTING"
  <2>1. PICK a \in Ids \cup {NoId} : a = Taken(t)
    BY <1>3 DEF Taken
  <2>0. PICK y, d, n, b, w : /\ y = t.synchronization /\ d = TRUE /\ n = TRUE
                             /\ b = t.ready_N /\ w = t.wait_while
    OBVIOUS
  <2>2. PICK u : u = MuxField(t, q, a, y, d, n, b, w)
    OBVIOUS
  <2>3. u = [v EXCEPT !.slave = a, !.distributing = TRUE, !.ntt = TRUE]
    BY <1>2, <2>0, <2>2 DEF PortType, MuxField
  <2>4. u = [v EXCEPT !.slave = IF v.id = NoId THEN v.slave ELSE v.id, !.distributing = TRUE,
                      !.ntt = TRUE]
    BY <1>4, <2>1, <2>3 DEF Taken
  <2>5. EnterMux(q, p, s) = PutPort(s, p, u)
    BY <1>1, <1>2, <1>9, <2>4 DEF EnterMux, PutPort
  <2>6. u \in PortType /\ Muxed(q, t, u)
    <3>1. /\ a \in Ids \cup {NoId} /\ y \in BOOLEAN /\ d \in BOOLEAN /\ n \in BOOLEAN
          /\ b \in BOOLEAN /\ w \in BOOLEAN
      BY <1>3, <2>0
    <3>2. u \in PortType /\ MuxHas(q, t, u, a, d, n, b)
      BY ONLY <1>5, <2>2, <3>1
    <3>3. Muxed(q, t, u)
      BY ONLY <1>9, <2>0, <2>1, <3>2 DEF Muxed, MuxHas
    <3> QED  BY <3>2, <3>3
  <2> QED  BY <1>1, <2>5, <2>6
<1> QED  BY <1>6, <1>7, <1>8, <1>9, StateSets

PutSent(s, p, u, z) == [s EXCEPT !.port[p] = u, !.sent = z]

(* The transmit machine. *)
Spoke(q, t, u) ==
  /\ SameBase(t, u) /\ SameRecv(t, u) /\ SamePeriodic(t, u) /\ SameSelect(t, u) /\ SameMux(t, u)
  /\ u.transmit = q
  /\ q # "NO_TX" => ~u.ntt
  /\ q = "NO_TX" => u.ntt = t.ntt

(* It sends one frame at most, and then none is asked for. *)
LEMMA TransmitEffect ==
  ASSUME NEW s \in RunType, NEW p \in Ports, NEW q \in Range(TransmitStates),
         q = "TX" => s.port[p].pkt_sent < RateLimit
  PROVE  \E u \in PortType, z \in Seq(PduType) :
           /\ EnterTransmit(q, p, s) = PutSent(s, p, u, z)
           /\ Spoke(q, s.port[p], u)
           /\ Len(z) = Len(s.sent) + (IF q = "TX" THEN 1 ELSE 0)
<1>1. PICK t \in PortType : t = s.port[p]
  BY DEF RunType
<1>2. PICK v : v = [t EXCEPT !.transmit = q]
  OBVIOUS
<1>3. t.ntt \in BOOLEAN /\ t.pkt_sent \in 0..RateLimit /\ t.partner \in InfoType /\ RateLimit \in Nat
  BY PortFields, NumberAssumption
<1>4. v \in PortType /\ v.partner = t.partner /\ v.pkt_sent = t.pkt_sent
  BY <1>2 DEF PortType
<1>5. s.sent \in Seq(PduType) /\ s = [s EXCEPT !.sent = s.sent]
  BY DEF RunType
<1>6. ASSUME NEW k \in 0..RateLimit, NEW n \in BOOLEAN, NEW u, u = TransmitField(t, q, k, n),
             q # "NO_TX" => ~n, q = "NO_TX" => n = t.ntt
      PROVE  u \in PortType /\ Spoke(q, t, u)
  <2>1. /\ u \in PortType /\ u.transmit = q /\ u.ntt = n
        /\ SameBase(t, u) /\ SameRecv(t, u) /\ SamePeriodic(t, u) /\ SameSelect(t, u)
        /\ SameMux(t, u)
    BY <1>6, TransmitSet
  <2> QED  BY <1>6, <2>1 DEF Spoke
<1>7. CASE q = "NO_TX"
  <2>1. PICK u : u = TransmitField(t, q, t.pkt_sent, t.ntt)
    OBVIOUS
  <2>2. u = v
    BY <1>2, <2>1 DEF PortType, TransmitField
  <2>3. EnterTransmit(q, p, s) = PutSent(s, p, u, s.sent)
    BY <1>1, <1>2, <1>7, <2>2 DEF EnterTransmit, RunType, PutSent
  <2>4. u \in PortType /\ Spoke(q, t, u)
    BY <1>3, <1>6, <1>7, <2>1
  <2>5. Len(s.sent) = Len(s.sent) + 0
    BY <1>5
  <2> QED  BY <1>1, <1>5, <1>7, <2>3, <2>4, <2>5
<1>8. CASE q = "TX"
  <2>1. PICK u : u = TransmitField(t, q, t.pkt_sent + 1, FALSE)
    OBVIOUS
  <2>2. u = [v EXCEPT !.pkt_sent = v.pkt_sent + 1, !.ntt = FALSE]
    BY <1>2, <1>4, <2>1 DEF PortType, TransmitField
  <2>3. PICK m : m = [actor |-> Actor(p, v), partner |-> v.partner]
    OBVIOUS
  <2>4. m \in PduType
    BY <1>3, <1>4, <2>3, InfoTypes DEF PduType
  <2>5. PICK z : z = Append(s.sent, m)
    OBVIOUS
  <2>6. z \in Seq(PduType) /\ Len(z) = Len(s.sent) + 1
    BY <1>5, <2>4, <2>5
  <2>7. EnterTransmit(q, p, s) = PutSent(s, p, u, z)
    BY <1>1, <1>2, <1>8, <2>2, <2>3, <2>5 DEF EnterTransmit, RunType, PutSent
  <2>8. t.pkt_sent + 1 \in 0..RateLimit
    BY <1>1, <1>3, <1>8
  <2>9. u \in PortType /\ Spoke(q, t, u)
    BY <1>6, <1>8, <2>1, <2>8
  <2> QED  BY <1>1, <1>8, <2>6, <2>7, <2>9
<1>9. CASE q = "DISABLED"
  <2>1. PICK u : u = TransmitField(t, q, t.pkt_sent, FALSE)
    OBVIOUS
  <2>2. u = [v EXCEPT !.ntt = FALSE]
    BY <1>2, <2>1 DEF PortType, TransmitField
  <2>3. EnterTransmit(q, p, s) = PutSent(s, p, u, s.sent)
    BY <1>1, <1>2, <1>9, <2>2 DEF EnterTransmit, RunType, PutSent
  <2>4. u \in PortType /\ Spoke(q, t, u)
    BY <1>3, <1>6, <1>9, <2>1
  <2>5. Len(s.sent) = Len(s.sent) + 0
    BY <1>5
  <2> QED  BY <1>1, <1>5, <1>9, <2>3, <2>4, <2>5
<1> QED  BY <1>7, <1>8, <1>9, StateSets

-----------------------------------------------------------------------------
(* The list of aggregators of an instance *)

(* A set of numbers that is not empty has a least one. *)
LEMMA LeastExists ==
  ASSUME NEW S \in SUBSET Nat, S # {}
  PROVE  \E x \in S : \A y \in S : x <= y
<1> DEFINE R == OpToRel(<, Nat)
<1>1. IsWellFoundedOn(R, Nat)
  BY NatLessThanWellFounded
<1>2. \A x, y \in Nat : <<y, x>> \in R <=> y < x
  BY DEF OpToRel
<1> HIDE DEF R
<1>3. PICK x \in S : \A y \in S : ~(<<y, x>> \in R)
  BY <1>1, WFMin
<1>4. ASSUME NEW y \in S  PROVE x <= y
  <2>1. x \in Nat /\ y \in Nat
    OBVIOUS
  <2>2. ~(y < x)
    BY <1>2, <1>3, <2>1
  <2> QED  BY <2>1, <2>2
<1> QED  BY <1>4

(* First() is the place of an aggregator that passes, or zero if none does. *)
LEMMA FirstPassing ==
  ASSUME NEW y \in Systems, NEW P, list[y] \in Seq(Ids)
  PROVE  \/ First(y, P) = 0 /\ \A i \in DOMAIN list[y] : list[y][i] \notin P
         \/ First(y, P) \in DOMAIN list[y] /\ list[y][First(y, P)] \in P /\ First(y, P) # 0
<1>1. PICK at : at = {i \in DOMAIN list[y] : list[y][i] \in P}
  OBVIOUS
<1>2. at \in SUBSET Nat /\ 0 \notin at
  BY <1>1
<1>3. First(y, P) = IF at = {} THEN 0 ELSE Min(at)
  BY <1>1 DEF First
<1>4. CASE at = {}
  BY <1>1, <1>3, <1>4
<1>5. CASE at # {}
  <2>1. \E x \in at : \A z \in at : x <= z
    BY <1>2, <1>5, LeastExists
  <2>2. Min(at) \in at
    BY <2>1 DEF Min
  <2> QED  BY <1>1, <1>2, <1>3, <1>5, <2>2
<1> QED  BY <1>4, <1>5

(* So lacpd_aggregator_lookup() finds one exactly if there is one. *)
LEMMA LookupPassing ==
  ASSUME NEW y \in Systems, NEW P, list[y] \in Seq(Ids)
  PROVE  \/ Lookup(y, P) = NoId /\ \A i \in DOMAIN list[y] : list[y][i] \notin P
         \/ Lookup(y, P) \in Ids \cap P /\ Contains(list[y], Lookup(y, P)) /\ Lookup(y, P) # NoId
<1>1. CASE First(y, P) = 0
  BY <1>1, FirstPassing DEF Lookup
<1>2. CASE First(y, P) # 0
  <2>1. First(y, P) \in DOMAIN list[y] /\ list[y][First(y, P)] \in P
    BY <1>2, FirstPassing
  <2>2. Lookup(y, P) = list[y][First(y, P)]
    BY <1>2 DEF Lookup
  <2>3. DOMAIN list[y] = 1..Len(list[y])
    OBVIOUS
  <2>4. Lookup(y, P) \in Ids \cap P /\ Contains(list[y], Lookup(y, P))
    BY <2>1, <2>2, <2>3 DEF Contains
  <2> QED  BY <2>4, IdAssumption
<1> QED  BY <1>1, <1>2

-----------------------------------------------------------------------------
(* The selection logic *)

(* lacpd_aggregator_update_ready(), after the aggregator a was changed to x. *)
LEMMA UpdateReadyEffect ==
  ASSUME NEW s \in RunType, NEW a \in Ids, NEW x \in AggType, NEW w, w = [s EXCEPT !.agg[a] = x]
  PROVE  LET r == UpdateReady(w, a) IN
         /\ r \in RunType /\ r.port = s.port /\ r.sent = s.sent /\ r.at = s.at
         /\ \A c \in Ids \ {a} : r.agg[c] = s.agg[c]
         /\ r.agg[a].ports = x.ports /\ r.agg[a].individual = x.individual
         /\ r.agg[a].key = x.key /\ r.agg[a].partner_system = x.partner_system
         /\ r.agg[a].partner_key = x.partner_key
         /\ r.agg[a].ready = (x.ports # {} /\ \A o \in x.ports : s.port[o].ready_N)
<1>1. /\ w \in RunType /\ w.port = s.port /\ w.sent = s.sent /\ w.at = s.at /\ w.agg[a] = x
      /\ \A c \in Ids \ {a} : w.agg[c] = s.agg[c]
  BY DEF RunType
<1>2. PICK b \in BOOLEAN : b = (x.ports # {} /\ \A o \in x.ports : s.port[o].ready_N)
  OBVIOUS
<1>3. UpdateReady(w, a) = [w EXCEPT !.agg[a].ready = b]
  BY <1>1, <1>2 DEF UpdateReady
<1>4. PICK z : z = [x EXCEPT !.ready = b]
  OBVIOUS
<1>5. /\ z \in AggType /\ z.ports = x.ports /\ z.individual = x.individual /\ z.key = x.key
      /\ z.partner_system = x.partner_system /\ z.partner_key = x.partner_key /\ z.ready = b
  BY <1>4 DEF AggType
<1>6. PICK r : r = UpdateReady(w, a)
  OBVIOUS
<1>7. r = [w EXCEPT !.agg[a] = z]
  BY <1>1, <1>3, <1>4, <1>6 DEF RunType
<1>8. /\ r \in RunType /\ r.port = w.port /\ r.sent = w.sent /\ r.at = w.at /\ r.agg[a] = z
      /\ \A c \in Ids \ {a} : r.agg[c] = w.agg[c]
  BY <1>1, <1>5, <1>7 DEF RunType
<1> QED  BY <1>1, <1>2, <1>5, <1>6, <1>8

(* What the selection logic leaves alone in the port. *)
Chose(t, u) ==
  /\ SameBase(t, u) /\ SameRecv(t, u) /\ SamePeriodic(t, u) /\ SameMux(t, u) /\ SameTransmit(t, u)
  /\ u.ntt = t.ntt

(* Only the port that runs is changed, and nothing is sent. *)
Frame(p, s, r) ==
  /\ r \in RunType /\ r.sent = s.sent /\ r.at = s.at
  /\ \A o \in Ports \ {p} : r.port[o] = s.port[o]

SameTerms(a, b) == /\ b.individual = a.individual /\ b.key = a.key
                   /\ b.partner_system = a.partner_system /\ b.partner_key = a.partner_key
ReadyOf(a, s) == a.ready = (a.ports # {} /\ \A o \in a.ports : s.port[o].ready_N)

(* A port that leaves its aggregator. *)
LEMMA LeaveEffect ==
  ASSUME NEW s, s \in RunType, Agree(s), Exact(s), NEW p \in Ports, NEW r,
         r = RemoveFromAggregator(s, p)
  PROVE  /\ Frame(p, s, r) /\ Chose(s.port[p], r.port[p])
         /\ r.port[p].select = s.port[p].select /\ r.port[p].selected = s.port[p].selected
         /\ r.port[p].id = NoId
         /\ \A a \in Ids : /\ r.agg[a].ports = s.agg[a].ports \ {p}
                           /\ r.agg[a].ports # {} => SameTerms(s.agg[a], r.agg[a])
                           /\ ReadyOf(r.agg[a], s)
<1>1. PICK t \in PortType : t = s.port[p]
  BY DEF RunType
<1>2. t.id \in Ids \cup {NoId} /\ t.selected \in BOOLEAN /\ t.select \in Range(SelectStates)
  BY PortFields
<1>3. \A a \in Ids : p \in s.agg[a].ports <=> t.id = a
  BY <1>1 DEF Agree
<1>4. \A a \in Ids : ReadyOf(s.agg[a], s)
  BY DEF Exact, ReadyOf
<1>5. CASE t.id = NoId
  <2>1. r = s
    BY <1>1, <1>5 DEF RemoveFromAggregator
  <2>2. \A a \in Ids : s.agg[a].ports \ {p} = s.agg[a].ports
    BY <1>3, <1>5, IdAssumption
  <2>3. Chose(t, t)
    BY DEF Chose, SameBase, SameRecv, SamePeriodic, SameMux, SameTransmit
  <2> QED  BY <1>1, <1>4, <1>5, <2>1, <2>2, <2>3 DEF Frame, SameTerms
<1>6. CASE t.id # NoId
  <2>1. PICK a \in Ids : a = t.id
    BY <1>2, <1>6
  <2>2. PICK rest : rest = s.agg[a].ports \ {p}
    OBVIOUS
  <2>3. PICK x : x = IF rest = {} THEN FreeAgg ELSE [s.agg[a] EXCEPT !.ports = rest]
    OBVIOUS
  <2>4. s.agg[a] \in AggType /\ s.agg[a].ports \in SUBSET Ports
    BY DEF RunType, AggType
  <2>5. /\ x \in AggType /\ x.ports = rest
        /\ rest # {} => SameTerms(s.agg[a], x)
    <3>1. CASE rest = {}
      BY <2>3, <3>1 DEF FreeAgg, AggType
    <3>2. CASE rest # {}
      BY <2>2, <2>3, <2>4, <3>2 DEF AggType, SameTerms
    <3> QED  BY <3>1, <3>2
  <2>6. PICK w : w = UpdateReady([s EXCEPT !.agg[a] = x], a)
    OBVIOUS
  <2>7. DelPort(s, a, p) = w
    BY <2>2, <2>3, <2>6 DEF DelPort
  <2>8. /\ w \in RunType /\ w.port = s.port /\ w.sent = s.sent /\ w.at = s.at
        /\ \A c \in Ids \ {a} : w.agg[c] = s.agg[c]
        /\ w.agg[a].ports = x.ports /\ SameTerms(x, w.agg[a]) /\ ReadyOf(w.agg[a], s)
    BY <2>5, <2>6, UpdateReadyEffect DEF SameTerms, ReadyOf
  <2>9. r = [w EXCEPT !.port[p].id = NoId]
    BY <1>1, <1>6, <2>1, <2>7 DEF RemoveFromAggregator
  <2>10. PICK u : u = [t EXCEPT !.id = NoId]
    OBVIOUS
  <2>11. u \in PortType /\ Chose(t, u) /\ u.select = t.select /\ u.selected = t.selected /\ u.id = NoId
    BY <2>10 DEF PortType, Chose, SameBase, SameRecv, SamePeriodic, SameMux, SameTransmit
  <2>12. u = [w.port[p] EXCEPT !.id = NoId]
    BY <1>1, <2>8, <2>10
  <2>13. r = PutPort(w, p, u)
    BY <2>8, <2>9, <2>12 DEF RunType, PutPort
  <2>14. /\ r \in RunType /\ r.port[p] = u /\ r.agg = w.agg /\ r.sent = w.sent /\ r.at = w.at
         /\ \A o \in Ports \ {p} : r.port[o] = w.port[o]
    <3>1. w \in RunType /\ u \in PortType
      BY <2>8, <2>11
    <3> QED  BY ONLY p \in Ports, <2>13, <3>1, PortSet
  <2>15. Frame(p, s, r)
    BY <2>8, <2>14 DEF Frame
  <2>16. ASSUME NEW c \in Ids
         PROVE  /\ r.agg[c].ports = s.agg[c].ports \ {p}
                /\ r.agg[c].ports # {} => SameTerms(s.agg[c], r.agg[c])
                /\ ReadyOf(r.agg[c], s)
    <3>1. CASE c = a
      BY <2>2, <2>5, <2>8, <2>14, <3>1 DEF SameTerms
    <3>2. CASE c # a
      <4>1. r.agg[c] = s.agg[c] /\ p \notin s.agg[c].ports
        BY <1>3, <2>1, <2>8, <2>14, <3>2
      <4> QED  BY <1>4, <4>1 DEF SameTerms
    <3> QED  BY <3>1, <3>2
  <2> QED  BY <1>1, <2>11, <2>14, <2>15, <2>16
<1> QED  BY <1>5, <1>6

(* A port that joins an aggregator: if there is a free one it always does, *)
(* and it matches the one it joins.                                        *)
LEMMA JoinEffect ==
  ASSUME NEW s, s \in RunType, NEW p \in Ports, NEW r, r = AddToAggregator(s, p),
         list[SystemOf[p]] \in Seq(Ids),
         \E i \in DOMAIN list[SystemOf[p]] : IsFree(s.agg[list[SystemOf[p]][i]])
  PROVE  /\ Frame(p, s, r) /\ Chose(s.port[p], r.port[p])
         /\ r.port[p].select = s.port[p].select /\ r.port[p].selected
         /\ \E f \in Ids :
              /\ r.port[p].id = f /\ Contains(list[SystemOf[p]], f)
              /\ \A a \in Ids \ {f} : r.agg[a] = s.agg[a]
              /\ r.agg[f].ports = s.agg[f].ports \cup {p}
              /\ s.agg[f].ports # {} => SameTerms(s.agg[f], r.agg[f]) /\ ~s.agg[f].individual
              /\ ReadyOf(r.agg[f], s) /\ Match(s.port[p], r.agg[f])
<1>1. PICK t \in PortType : t = s.port[p]
  BY DEF RunType
<1>2. /\ t.id \in Ids \cup {NoId} /\ t.selected \in BOOLEAN /\ t.select \in Range(SelectStates)
      /\ t.aggregation \in BOOLEAN /\ t.key \in Keys \cup {0} /\ t.partner \in InfoType
  BY PortFields
<1>3. /\ t.partner.system \in Systems \cup {NoSystem} /\ t.partner.key \in Keys \cup {0}
      /\ t.partner.aggregation \in BOOLEAN
  BY <1>2 DEF InfoType
<1>4. SystemOf[p] \in Systems
  BY TopologyAssumption
<1>5. PICK f \in Ids :
        /\ r = [AddPort(s, f, p) EXCEPT !.port[p].id = f, !.port[p].selected = TRUE]
        /\ Contains(list[SystemOf[p]], f)
        /\ IsFree(s.agg[f]) \/ (FitsPort(s.agg[f], t) /\ t.aggregation /\ t.partner.aggregation)
  <2>1. PICK A : A = Lookup(SystemOf[p], {a \in Ids : FitsPort(s.agg[a], t)})
    OBVIOUS
  <2>2. PICK B : B = Lookup(SystemOf[p], {a \in Ids : IsFree(s.agg[a])})
    OBVIOUS
  <2>3. A # NoId => A \in Ids /\ FitsPort(s.agg[A], t) /\ Contains(list[SystemOf[p]], A)
    <3>1. PICK P : P = {a \in Ids : FitsPort(s.agg[a], t)}
      OBVIOUS
    <3>2. A # NoId => A \in Ids \cap P /\ Contains(list[SystemOf[p]], A)
      BY <1>4, <2>1, <3>1, LookupPassing
    <3> QED  BY <3>1, <3>2
  <2>4. B \in Ids /\ IsFree(s.agg[B]) /\ Contains(list[SystemOf[p]], B)
    <3>1. PICK i \in DOMAIN list[SystemOf[p]] : IsFree(s.agg[list[SystemOf[p]][i]])
      OBVIOUS
    <3>2. list[SystemOf[p]][i] \in {a \in Ids : IsFree(s.agg[a])}
      BY <3>1
    <3> QED  BY <1>4, <2>2, <3>2, LookupPassing
  <2>5. PICK fits : fits = IF t.aggregation /\ t.partner.system # NoSystem /\ t.partner.aggregation
                           THEN A ELSE NoId
    OBVIOUS
  <2>6. PICK found : found = IF fits # NoId THEN fits ELSE B
    OBVIOUS
  <2>7. /\ found \in Ids /\ Contains(list[SystemOf[p]], found)
        /\ \/ IsFree(s.agg[found])
           \/ FitsPort(s.agg[found], t) /\ t.aggregation /\ t.partner.aggregation
    BY <2>3, <2>4, <2>5, <2>6
  <2>8. found # NoId
    <3>1. found \in Ids
      BY <2>7
    <3> QED  BY ONLY <3>1, IdAssumption
  <2>9. r = [AddPort(s, found, p) EXCEPT !.port[p].id = found, !.port[p].selected = TRUE]
    BY <1>1, <2>1, <2>2, <2>5, <2>6, <2>8 DEF AddToAggregator
  <2> QED  BY <2>7, <2>9
<1>6. s.agg[f] \in AggType /\ s.agg[f].ports \in SUBSET Ports
  BY DEF RunType, AggType
<1>7. PICK first : first = IF IsFree(s.agg[f]) THEN InitByPort(s.agg[f], t) ELSE s.agg[f]
  OBVIOUS
<1>8. PICK x : x = [first EXCEPT !.ports = s.agg[f].ports \cup {p}]
  OBVIOUS
<1>9. PICK w : w = UpdateReady([s EXCEPT !.agg[f] = x], f)
  OBVIOUS
<1>10. /\ x \in AggType /\ x.ports = s.agg[f].ports \cup {p}
       /\ s.agg[f].ports # {} => SameTerms(s.agg[f], x) /\ ~s.agg[f].individual
       /\ Match(t, x)
  <2>1. CASE IsFree(s.agg[f])
    <3>1. PICK b \in BOOLEAN : b = (~t.aggregation \/ t.partner.system = NoSystem \/ ~t.partner.aggregation)
      OBVIOUS
    <3>2. x = [ports |-> s.agg[f].ports \cup {p}, individual |-> b, key |-> t.key,
               partner_system |-> t.partner.system, partner_key |-> t.partner.key,
               ready |-> s.agg[f].ready]
      BY <1>6, <1>7, <1>8, <2>1, <3>1 DEF InitByPort, AggType
    <3>3. s.agg[f].ready \in BOOLEAN
      BY <1>6 DEF AggType
    <3>4. x \in AggType /\ x.ports = s.agg[f].ports \cup {p}
      BY <1>2, <1>3, <1>6, <3>2, <3>3 DEF AggType
    <3>5. Match(t, x)
      BY <3>1, <3>2, <1>2, <1>3 DEF Match
    <3> QED  BY <2>1, <3>4, <3>5 DEF IsFree
  <2>2. CASE ~IsFree(s.agg[f])
    <3>1. /\ ~s.agg[f].individual /\ s.agg[f].key = t.key
          /\ s.agg[f].partner_system = t.partner.system /\ s.agg[f].partner_key = t.partner.key
          /\ t.aggregation /\ t.partner.aggregation
      BY <1>5, <2>2 DEF FitsPort
    <3>2. x \in AggType /\ x.ports = s.agg[f].ports \cup {p} /\ SameTerms(s.agg[f], x)
      BY <1>6, <1>7, <1>8, <2>2 DEF AggType, SameTerms
    <3>3. Match(t, x)
      BY <3>1, <3>2 DEF Match, SameTerms
    <3> QED  BY <3>1, <3>2, <3>3
  <2> QED  BY <2>1, <2>2
<1>11. first.ports = s.agg[f].ports
  BY <1>6, <1>7 DEF InitByPort, AggType
<1>12. AddPort(s, f, p) = w
  BY <1>1, <1>7, <1>8, <1>9, <1>11 DEF AddPort
<1>13. /\ w \in RunType /\ w.port = s.port /\ w.sent = s.sent /\ w.at = s.at
       /\ \A c \in Ids \ {f} : w.agg[c] = s.agg[c]
       /\ w.agg[f].ports = x.ports /\ SameTerms(x, w.agg[f]) /\ ReadyOf(w.agg[f], s)
  BY <1>9, <1>10, UpdateReadyEffect, SMTT(40) DEF SameTerms, ReadyOf
<1>14. PICK u : u = SelectField(t, t.select, f, TRUE)
  OBVIOUS
<1>15. u \in PortType /\ u.select = t.select /\ u.id = f /\ u.selected /\ Chose(t, u)
  <2>1. u = [present |-> t.present, number |-> t.number, port_enabled |-> t.port_enabled,
              initialized |-> t.initialized, recv |-> t.recv, periodic |-> t.periodic,
              select |-> t.select, mux |-> t.mux, transmit |-> t.transmit, key |-> t.key,
              aggregation |-> t.aggregation, synchronization |-> t.synchronization,
              distributing |-> t.distributing, partner |-> t.partner, selected |-> TRUE,
              id |-> f, ready_N |-> t.ready_N, ntt |-> t.ntt, message |-> t.message,
              slave |-> t.slave, current_while |-> t.current_while,
              periodic_timer |-> t.periodic_timer, wait_while |-> t.wait_while,
              pkt_sent |-> t.pkt_sent]
    BY <1>14 DEF PortType, SelectField
  <2>2. u \in PortType
    BY <2>1, PortFields DEF PortType
  <2> QED  BY <2>1, <2>2 DEF Chose, SameBase, SameRecv, SamePeriodic, SameMux, SameTransmit
<1>16. u = [w.port[p] EXCEPT !.id = f, !.selected = TRUE]
  BY <1>1, <1>13, <1>14 DEF SelectField, PortType
<1>17. r = PutPort(w, p, u)
  <2>1. r = [w EXCEPT !.port[p].id = f, !.port[p].selected = TRUE]
    BY <1>5, <1>12
  <2>2. w.port \in [Ports -> PortType] /\ w \in RunType
    BY <1>13 DEF RunType
  <2>3. r = [w EXCEPT !.port[p] = [w.port[p] EXCEPT !.id = f, !.selected = TRUE]]
    BY <2>1, <2>2 DEF RunType
  <2> QED  BY <1>16, <2>3 DEF PutPort
<1>18. /\ r \in RunType /\ r.port[p] = u /\ r.agg = w.agg /\ r.sent = w.sent /\ r.at = w.at
       /\ \A o \in Ports \ {p} : r.port[o] = w.port[o]
  <2>1. w \in RunType /\ u \in PortType
    BY <1>13, <1>15
  <2> QED  BY ONLY p \in Ports, <1>17, <2>1, PortSet
<1>19. Frame(p, s, r)
  BY <1>13, <1>18 DEF Frame
<1>20. /\ \A a \in Ids \ {f} : r.agg[a] = s.agg[a]
       /\ r.agg[f].ports = s.agg[f].ports \cup {p}
       /\ s.agg[f].ports # {} => SameTerms(s.agg[f], r.agg[f]) /\ ~s.agg[f].individual
       /\ ReadyOf(r.agg[f], s) /\ Match(t, r.agg[f])
  BY <1>10, <1>13, <1>18 DEF SameTerms, Match
<1> QED  BY <1>1, <1>5, <1>15, <1>18, <1>19, <1>20

-----------------------------------------------------------------------------
(* What entering a state preserves *)

(* A step that changes one port and leaves the aggregators alone. *)
LEMMA GoodKept ==
  ASSUME NEW s, Good(s), NEW p \in Ports, NEW r \in RunType, r.agg = s.agg,
         \A o \in Ports \ {p} : r.port[o] = s.port[o],
         NEW t, t = s.port[p], NEW u, u = r.port[p],
         PortInv(u), u.id = t.id, t.id = NoId \/ u.ready_N = t.ready_N,
         u.initialized /\ u.selected =>
           /\ t.initialized /\ t.selected /\ u.key = t.key /\ u.aggregation = t.aggregation
           /\ SameIdentity(u.partner, t.partner)
  PROVE  Good(r)
<1>1. \A o \in Ports : PortInv(r.port[o])
  BY DEF Good
<1>2. \A o \in Ports : r.port[o].id = s.port[o].id
  OBVIOUS
<1>3. Agree(s) /\ Exact(s) /\ Alone(s) /\ Matched(s) /\ s \in RunType
  BY DEF Good
<1>4. Agree(r)
  BY <1>2, <1>3 DEF Agree
<1>5. Alone(r)
  BY <1>3 DEF Alone
<1>6. Exact(r)
  <2> SUFFICES ASSUME NEW a \in Ids
               PROVE  r.agg[a].ready = (r.agg[a].ports # {} /\ \A o \in r.agg[a].ports : r.port[o].ready_N)
    BY DEF Exact
  <2>1. \A o \in s.agg[a].ports : o \in Ports
    BY <1>3 DEF RunType, AggType
  <2>2. ASSUME NEW o \in s.agg[a].ports  PROVE r.port[o].ready_N = s.port[o].ready_N
    <3>1. s.port[o].id = a /\ a # NoId
      BY <1>3, <2>1, IdAssumption DEF Agree
    <3> QED  BY <2>1, <3>1
  <2>3. s.agg[a].ready = (s.agg[a].ports # {} /\ \A o \in s.agg[a].ports : s.port[o].ready_N)
    BY <1>3 DEF Exact
  <2> QED  BY <2>2, <2>3
<1>7. Matched(r)
  <2> SUFFICES ASSUME NEW o \in Ports, r.port[o].initialized, r.port[o].selected
               PROVE  Match(r.port[o], r.agg[r.port[o].id])
    BY DEF Matched
  <2>1. CASE o # p
    BY <1>3, <2>1 DEF Matched
  <2>2. CASE o = p
    <3>1. Match(t, s.agg[t.id])
      BY <1>3, <2>2 DEF Matched
    <3>2. /\ u.key = t.key /\ u.aggregation = t.aggregation /\ u.partner.system = t.partner.system
          /\ u.partner.key = t.partner.key /\ u.partner.aggregation = t.partner.aggregation
      BY <2>2 DEF SameIdentity, Identity
    <3> QED  BY <2>2, <3>1, <3>2 DEF Match
  <2> QED  BY <2>1, <2>2
<1> QED  BY <1>1, <1>4, <1>5, <1>6, <1>7 DEF Good

(* Beginning to enter a state of the selection logic. *)
LEMMA EnteredEffect ==
  ASSUME NEW s \in RunType, NEW p \in Ports, NEW q \in Range(SelectStates), NEW w,
         w = [s EXCEPT !.port[p].select = q]
  PROVE  /\ w.agg = s.agg /\ Frame(p, s, w) /\ Chose(s.port[p], w.port[p])
         /\ w.port[p].select = q /\ w.port[p].selected = s.port[p].selected
         /\ w.port[p].id = s.port[p].id
<1>1. PICK t \in PortType : t = s.port[p]
  BY DEF RunType
<1>2. PICK u : u = [t EXCEPT !.select = q]
  OBVIOUS
<1>3. u \in PortType /\ Chose(t, u) /\ u.select = q /\ u.selected = t.selected /\ u.id = t.id
  BY <1>2 DEF PortType, Chose, SameBase, SameRecv, SamePeriodic, SameMux, SameTransmit
<1>4. w = PutPort(s, p, u)
  BY <1>1, <1>2 DEF RunType, PutPort
<1>5. /\ w \in RunType /\ w.port[p] = u /\ w.agg = s.agg /\ w.sent = s.sent /\ w.at = s.at
      /\ \A o \in Ports \ {p} : w.port[o] = s.port[o]
  BY ONLY <1>3, <1>4, PortSet
<1> QED  BY <1>1, <1>3, <1>5 DEF Frame

(* What a port keeps when it chooses, it keeps when it chooses in two steps. *)
LEMMA ChoseTwice ==
  ASSUME NEW t, NEW u, NEW v, Chose(t, u), Chose(u, v)
  PROVE  Chose(t, v)
  BY DEF Chose, SameBase, SameRecv, SamePeriodic, SameMux, SameTransmit

(* A port that leaves its aggregator leaves the others in order. *)
LEMMA LeaveRest ==
  ASSUME NEW s, Good(s), NEW p \in Ports, NEW w \in RunType, w.agg = s.agg,
         \A o \in Ports \ {p} : w.port[o] = s.port[o],
         w.port[p].id = s.port[p].id, w.port[p].ready_N = s.port[p].ready_N,
         NEW r, r = RemoveFromAggregator(w, p)
  PROVE  /\ Frame(p, w, r) /\ Chose(w.port[p], r.port[p])
         /\ r.port[p].select = w.port[p].select /\ r.port[p].selected = w.port[p].selected
         /\ r.port[p].id = NoId
         /\ Agree(r) /\ Exact(r) /\ Alone(r)
         /\ \A o \in Ports \ {p} : r.port[o].initialized /\ r.port[o].selected =>
                                     Match(r.port[o], r.agg[r.port[o].id])
<1>1. Agree(s) /\ Exact(s) /\ Alone(s) /\ Matched(s) /\ s \in RunType /\ \A o \in Ports : PortInv(s.port[o])
  BY DEF Good
<1>5. /\ \A o \in Ports : w.port[o].id = s.port[o].id
      /\ \A o \in Ports : w.port[o].ready_N = s.port[o].ready_N
  OBVIOUS
<1>6. \A a \in Ids : s.agg[a].ports \in SUBSET Ports
  BY <1>1 DEF RunType, AggType
<1>7. Agree(w) /\ Exact(w)
  BY <1>1, <1>5, <1>6 DEF Agree, Exact
<1>8. /\ Frame(p, w, r) /\ Chose(w.port[p], r.port[p])
      /\ r.port[p].select = w.port[p].select /\ r.port[p].selected = w.port[p].selected
      /\ r.port[p].id = NoId
  BY <1>7, LeaveEffect
<1>9. \A a \in Ids : /\ r.agg[a].ports = w.agg[a].ports \ {p}
                     /\ r.agg[a].ports # {} => SameTerms(w.agg[a], r.agg[a])
                     /\ ReadyOf(r.agg[a], w)
  BY <1>7, LeaveEffect
<1>11. r \in RunType /\ \A o \in Ports \ {p} : r.port[o] = s.port[o]
  BY <1>8 DEF Frame
<1>13. Agree(r)
  BY <1>1, <1>8, <1>9, <1>11, IdAssumption DEF Agree
<1>14. Exact(r)
  <2> SUFFICES ASSUME NEW a \in Ids
               PROVE  r.agg[a].ready = (r.agg[a].ports # {} /\ \A o \in r.agg[a].ports : r.port[o].ready_N)
    BY DEF Exact
  <2>1. \A o \in r.agg[a].ports : o \in Ports /\ r.port[o].ready_N = w.port[o].ready_N
    BY <1>5, <1>6, <1>9, <1>11
  <2> QED  BY <1>9, <2>1 DEF ReadyOf
<1>15. Alone(r)
  BY <1>1, <1>9 DEF Alone, SameTerms
<1>16. ASSUME NEW o \in Ports \ {p}, r.port[o].initialized, r.port[o].selected
       PROVE  Match(r.port[o], r.agg[r.port[o].id])
  <2>2. PICK a : a = s.port[o].id
    OBVIOUS
  <2>3. r.port[o] = s.port[o] /\ Match(s.port[o], s.agg[a])
    BY <1>1, <1>11, <1>16, <2>2 DEF Matched
  <2>4. a # NoId /\ s.port[o].id \in Ids \cup {NoId}
    BY <1>1, <1>16, <2>2, <2>3, PortFields DEF PortInv, RunType
  <2>5. o \in r.agg[a].ports /\ a \in Ids
    BY <1>1, <1>9, <2>2, <2>4 DEF Agree
  <2>6. r.port[o].id = a /\ SameTerms(s.agg[a], r.agg[a])
    BY <1>9, <2>2, <2>3, <2>5
  <2> QED  BY <2>3, <2>6 DEF Match, SameTerms
<1> QED  BY <1>8, <1>13, <1>14, <1>15, <1>16

(* Whatever a port is without an aggregator, the others stay in order. *)
LEMMA GoodLeft ==
  ASSUME NEW p \in Ports, NEW r, Agree(r), Exact(r), Alone(r), r.port[p].id = NoId,
         \A o \in Ports \ {p} : r.port[o].initialized /\ r.port[o].selected =>
                                  Match(r.port[o], r.agg[r.port[o].id]),
         NEW n \in RunType, n.agg = r.agg, \A o \in Ports \ {p} : n.port[o] = r.port[o],
         n.port[p].id = NoId, ~n.port[p].selected, \A o \in Ports : PortInv(n.port[o])
  PROVE  Good(n)
<1>1. Agree(n)
  BY DEF Agree
<1>2. \A a \in Ids : n.agg[a].ports \in SUBSET Ports /\ p \notin n.agg[a].ports
  BY <1>1, IdAssumption DEF RunType, AggType, Agree
<1>3. Exact(n)
  <2> SUFFICES ASSUME NEW a \in Ids
               PROVE  n.agg[a].ready = (n.agg[a].ports # {} /\ \A o \in n.agg[a].ports : n.port[o].ready_N)
    BY DEF Exact
  <2>1. \A o \in n.agg[a].ports : n.port[o] = r.port[o]
    BY <1>2
  <2>2. r.agg[a].ready = (r.agg[a].ports # {} /\ \A o \in r.agg[a].ports : r.port[o].ready_N)
    BY DEF Exact
  <2> QED  BY <2>1, <2>2
<1>4. Alone(n) /\ Matched(n)
  BY DEF Alone, Matched
<1> QED  BY <1>1, <1>3, <1>4 DEF Good

(* Entering UNSELECTED: the port gives up its aggregator. *)
LEMMA LeaveGood ==
  ASSUME NEW s, Good(s), NEW p \in Ports, NEW r, r = EnterSelect("UNSELECTED", p, s),
         ~s.port[p].selected
  PROVE  /\ Good(r) /\ Frame(p, s, r) /\ Chose(s.port[p], r.port[p])
         /\ r.port[p].select = "UNSELECTED" /\ ~r.port[p].selected /\ r.port[p].id = NoId
<1>1. s \in RunType /\ \A o \in Ports : PortInv(s.port[o])
  BY DEF Good
<1>2. PICK w : w = [s EXCEPT !.port[p].select = "UNSELECTED"]
  OBVIOUS
<1>3. /\ w.agg = s.agg /\ Frame(p, s, w) /\ Chose(s.port[p], w.port[p])
      /\ w.port[p].select = "UNSELECTED" /\ w.port[p].selected = s.port[p].selected
      /\ w.port[p].id = s.port[p].id
  BY <1>1, <1>2, StateSets, EnteredEffect
<1>4. r = RemoveFromAggregator(w, p)
  BY <1>2 DEF EnterSelect
<1>5. /\ w \in RunType /\ \A o \in Ports \ {p} : w.port[o] = s.port[o]
      /\ w.port[p].ready_N = s.port[p].ready_N
  BY <1>3 DEF Frame, Chose, SameMux
<1>6. /\ Frame(p, w, r) /\ Chose(w.port[p], r.port[p])
      /\ r.port[p].select = w.port[p].select /\ r.port[p].selected = w.port[p].selected
      /\ r.port[p].id = NoId
      /\ Agree(r) /\ Exact(r) /\ Alone(r)
      /\ \A o \in Ports \ {p} : r.port[o].initialized /\ r.port[o].selected =>
                                  Match(r.port[o], r.agg[r.port[o].id])
  BY ONLY Good(s), <1>3, <1>4, <1>5, LeaveRest
<1>7. Frame(p, s, r) /\ Chose(s.port[p], r.port[p])
  BY <1>3, <1>6, ChoseTwice DEF Frame
<1>8. r \in RunType /\ \A o \in Ports \ {p} : r.port[o] = s.port[o]
  BY <1>7 DEF Frame
<1>9. PortInv(r.port[p])
  <2>1. PICK t, u : t = s.port[p] /\ u = r.port[p]
    OBVIOUS
  <2>2. PortInv(t) /\ ~u.selected /\ u.id = NoId
    BY <1>1, <1>3, <1>6, <2>1
  <2>3. SameBase(t, u) /\ SameRecv(t, u) /\ SameMux(t, u)
    BY <1>7, <2>1 DEF Chose
  <2>4. PortInv(u)
    BY ONLY <2>2, <2>3 DEF PortInv, SameBase, SameRecv, SameMux
  <2> QED  BY <2>1, <2>4
<1>10. ~r.port[p].selected /\ \A o \in Ports : PortInv(r.port[o])
  BY <1>1, <1>3, <1>6, <1>8, <1>9
<1>11. Good(r)
  BY <1>6, <1>8, <1>10, GoodLeft
<1> QED  BY <1>3, <1>6, <1>7, <1>10, <1>11

(* Entering SELECTED: the port, which had none, has an aggregator. *)
LEMMA JoinGood ==
  ASSUME NEW s, Good(s), NEW p \in Ports, NEW r, r = EnterSelect("SELECTED", p, s),
         s.port[p].select = "UNSELECTED", s.port[p].mux = "DETACHED",
         list[SystemOf[p]] \in Seq(Ids), s.port[p].present,
         \E i \in DOMAIN list[SystemOf[p]] : IsFree(s.agg[list[SystemOf[p]][i]])
  PROVE  /\ Good(r) /\ Frame(p, s, r) /\ Chose(s.port[p], r.port[p])
         /\ r.port[p].select = "SELECTED" /\ r.port[p].selected
         /\ r.port[p].id # NoId /\ Contains(list[SystemOf[p]], r.port[p].id)
<1>1. Agree(s) /\ Exact(s) /\ Alone(s) /\ Matched(s) /\ s \in RunType /\ \A o \in Ports : PortInv(s.port[o])
  BY DEF Good
<1>2. PICK w : w = [s EXCEPT !.port[p].select = "SELECTED"]
  OBVIOUS
<1>3. /\ w.agg = s.agg /\ Frame(p, s, w) /\ Chose(s.port[p], w.port[p])
      /\ w.port[p].select = "SELECTED"
  BY <1>1, <1>2, StateSets, EnteredEffect
<1>4. r = AddToAggregator(w, p)
  BY <1>2 DEF EnterSelect
<1>5. w \in RunType /\ \A o \in Ports : w.port[o].ready_N = s.port[o].ready_N
  BY <1>3 DEF Frame, Chose, SameMux
<1>6. \A a \in Ids : s.agg[a].ports \in SUBSET Ports
  BY <1>1 DEF RunType, AggType
<1>7. s.port[p].id = NoId
  BY <1>1 DEF PortInv
<1>8. \E i \in DOMAIN list[SystemOf[p]] : IsFree(w.agg[list[SystemOf[p]][i]])
  BY <1>3
<1>9. /\ Frame(p, w, r) /\ Chose(w.port[p], r.port[p])
      /\ r.port[p].select = w.port[p].select /\ r.port[p].selected
  BY <1>4, <1>5, <1>8, JoinEffect
<1>10. PICK f \in Ids :
         /\ r.port[p].id = f /\ Contains(list[SystemOf[p]], f)
         /\ \A a \in Ids \ {f} : r.agg[a] = w.agg[a]
         /\ r.agg[f].ports = w.agg[f].ports \cup {p}
         /\ w.agg[f].ports # {} => SameTerms(w.agg[f], r.agg[f]) /\ ~w.agg[f].individual
         /\ ReadyOf(r.agg[f], w) /\ Match(w.port[p], r.agg[f])
  BY <1>4, <1>5, <1>8, JoinEffect
<1>11. Frame(p, s, r) /\ Chose(s.port[p], r.port[p])
  BY <1>3, <1>9, ChoseTwice DEF Frame
<1>12. r \in RunType /\ \A o \in Ports \ {p} : r.port[o] = s.port[o]
  BY <1>11 DEF Frame
<1>13. f # NoId
  BY IdAssumption
<1>14. PortInv(r.port[p])
  <2>1. PICK t, u : t = s.port[p] /\ u = r.port[p]
    OBVIOUS
  <2>2. /\ PortInv(t) /\ t.slave = NoId /\ t.mux = "DETACHED" /\ t.present
    BY <1>1, <2>1 DEF PortInv
  <2>3. u.select = "SELECTED" /\ u.selected /\ u.id # NoId
    BY <1>3, <1>9, <1>10, <1>13, <2>1
  <2>4. SameBase(t, u) /\ SameRecv(t, u) /\ SameMux(t, u)
    BY <1>11, <2>1 DEF Chose
  <2>5. PortInv(u)
    BY ONLY <2>2, <2>3, <2>4 DEF PortInv, SameBase, SameRecv, SameMux
  <2> QED  BY <2>1, <2>5
<1>15. Agree(r)
  <2> SUFFICES ASSUME NEW o \in Ports, NEW a \in Ids
               PROVE  o \in r.agg[a].ports <=> r.port[o].id = a
    BY DEF Agree
  <2>1. o \in s.agg[a].ports <=> s.port[o].id = a
    BY <1>1 DEF Agree
  <2>2. CASE o = p
    <3>1. o \notin s.agg[a].ports
      BY <1>7, <2>1, <2>2, IdAssumption
    <3> QED  BY <1>3, <1>10, <2>2, <3>1
  <2>3. CASE o # p
    BY <1>3, <1>10, <1>12, <2>1, <2>3
  <2> QED  BY <2>2, <2>3
<1>16. Exact(r)
  <2> SUFFICES ASSUME NEW a \in Ids
               PROVE  r.agg[a].ready = (r.agg[a].ports # {} /\ \A o \in r.agg[a].ports : r.port[o].ready_N)
    BY DEF Exact
  <2>1. \A o \in Ports : r.port[o].ready_N = w.port[o].ready_N /\ r.port[o].ready_N = s.port[o].ready_N
    BY <1>5, <1>9, <1>11, <1>12 DEF Chose, SameMux
  <2>2. r.agg[a].ports \in SUBSET Ports
    BY <1>12 DEF RunType, AggType
  <2>3. CASE a = f
    BY <1>10, <2>1, <2>2, <2>3 DEF ReadyOf
  <2>4. CASE a # f
    <3>1. r.agg[a] = s.agg[a]
      BY <1>3, <1>10, <2>4
    <3> QED  BY <1>1, <2>1, <2>2, <3>1 DEF Exact
  <2> QED  BY <2>3, <2>4
<1>17. Alone(r)
  <2> SUFFICES ASSUME NEW a \in Ids, r.agg[a].individual, NEW o \in r.agg[a].ports, NEW v \in r.agg[a].ports
               PROVE  o = v
    BY DEF Alone
  <2>1. CASE a = f
    <3>1. s.agg[f].ports = {}
      BY <1>3, <1>10, <2>1 DEF SameTerms
    <3> QED  BY <1>3, <1>10, <2>1, <3>1
  <2>2. CASE a # f
    BY <1>1, <1>3, <1>10, <2>2 DEF Alone
  <2> QED  BY <2>1, <2>2
<1>18. Matched(r)
  <2> SUFFICES ASSUME NEW o \in Ports, r.port[o].initialized, r.port[o].selected
               PROVE  Match(r.port[o], r.agg[r.port[o].id])
    BY DEF Matched
  <2>1. CASE o = p
    <3>1. /\ r.port[p].key = w.port[p].key /\ r.port[p].aggregation = w.port[p].aggregation
          /\ r.port[p].partner = w.port[p].partner
      BY <1>9 DEF Chose, SameBase, SameRecv
    <3> QED  BY <1>10, <2>1, <3>1 DEF Match
  <2>2. CASE o # p
    <3>1. PICK a : a = s.port[o].id
      OBVIOUS
    <3>2. r.port[o] = s.port[o] /\ Match(s.port[o], s.agg[a])
      BY <1>1, <1>12, <2>2, <3>1 DEF Matched
    <3>3. a # NoId /\ s.port[o].id \in Ids \cup {NoId}
      BY <1>1, <3>1, <3>2, PortFields DEF PortInv, RunType
    <3>4. o \in s.agg[a].ports /\ a \in Ids
      BY <1>1, <3>1, <3>3 DEF Agree
    <3>5. SameTerms(s.agg[a], r.agg[a])
      <4>1. CASE a = f
        BY <1>3, <1>10, <3>4, <4>1
      <4>2. CASE a # f
        BY <1>3, <1>10, <3>4, <4>2 DEF SameTerms
      <4> QED  BY <4>1, <4>2
    <3>6. r.port[o].id = a
      BY <3>1, <3>2
    <3> QED  BY <3>2, <3>5, <3>6 DEF Match, SameTerms
  <2> QED  BY <2>1, <2>2
<1>19. \A o \in Ports : PortInv(r.port[o])
  BY <1>1, <1>12, <1>14
<1>20. Good(r)
  BY <1>12, <1>15, <1>16, <1>17, <1>18, <1>19 DEF Good
<1> QED  BY <1>3, <1>9, <1>10, <1>11, <1>13, <1>20

(* Entering a state of the receive machine. *)
LEMMA ReceiveGood ==
  ASSUME NEW s, Good(s), NEW p \in Ports, NEW q \in Range(ReceiveStates),
         q = "CURRENT" => s.port[p].message \in PduType, NEW r, r = EnterReceive(q, p, s)
  PROVE  Good(r) /\ Frame(p, s, r) /\ r.agg = s.agg /\ Received(q, s.port[p], r.port[p])
<1>1. s \in RunType /\ PortInv(s.port[p])
  BY DEF Good
<1>2. PICK u \in PortType : r = PutPort(s, p, u) /\ Received(q, s.port[p], u)
  BY <1>1, ReceiveEffect
<1>3. /\ r \in RunType /\ r.port[p] = u /\ r.agg = s.agg /\ r.sent = s.sent /\ r.at = s.at
      /\ \A o \in Ports \ {p} : r.port[o] = s.port[o]
  BY ONLY <1>1, <1>2, PortSet
<1>4. PICK t : t = s.port[p]
  OBVIOUS
<1>5. PortInv(u)
  BY <1>1, <1>2, <1>4 DEF PortInv, Received, SameBase, SameMux
<1>6. /\ u.id = t.id /\ u.ready_N = t.ready_N
      /\ u.initialized /\ u.selected =>
           /\ t.initialized /\ t.selected /\ u.key = t.key /\ u.aggregation = t.aggregation
           /\ SameIdentity(u.partner, t.partner)
  BY <1>2, <1>4 DEF Received, SameBase, SameMux
<1>7. Good(r)
  BY <1>3, <1>4, <1>5, <1>6, GoodKept
<1> QED  BY <1>2, <1>3, <1>7 DEF Frame

(* Entering a state of the periodic machine. *)
LEMMA PeriodicGood ==
  ASSUME NEW s, Good(s), NEW p \in Ports, NEW q \in Range(PeriodicStates),
         NEW r, r = EnterPeriodic(q, p, s)
  PROVE  Good(r) /\ Frame(p, s, r) /\ r.agg = s.agg /\ Paced(q, s.port[p], r.port[p])
<1>1. s \in RunType /\ PortInv(s.port[p])
  BY DEF Good
<1>2. PICK u \in PortType : r = PutPort(s, p, u) /\ Paced(q, s.port[p], u)
  BY <1>1, PeriodicEffect
<1>3. /\ r \in RunType /\ r.port[p] = u /\ r.agg = s.agg /\ r.sent = s.sent /\ r.at = s.at
      /\ \A o \in Ports \ {p} : r.port[o] = s.port[o]
  BY ONLY <1>1, <1>2, PortSet
<1>4. PICK t : t = s.port[p]
  OBVIOUS
<1>5. PortInv(u)
  BY <1>1, <1>2, <1>4 DEF PortInv, Paced, SameBase, SameRecv, SameSelect, SameMux
<1>6. /\ u.id = t.id /\ u.ready_N = t.ready_N
      /\ u.initialized /\ u.selected =>
           /\ t.initialized /\ t.selected /\ u.key = t.key /\ u.aggregation = t.aggregation
           /\ SameIdentity(u.partner, t.partner)
  BY <1>2, <1>4 DEF Paced, SameBase, SameRecv, SameSelect, SameMux, SameIdentity
<1>7. Good(r)
  BY <1>3, <1>4, <1>5, <1>6, GoodKept
<1> QED  BY <1>2, <1>3, <1>7 DEF Frame

(* Entering a state of the mux machine; a port that is detached has given  *)
(* up its aggregator, which otherwise would count it as ready.             *)
LEMMA MuxGood ==
  ASSUME NEW s, Good(s), NEW p \in Ports, NEW q \in Range(MuxStates),
         NEW r, r = EnterMux(q, p, s),
         q = "DETACHED" => s.port[p].id = NoId,
         q = "WAITING" => s.port[p].mux = "DETACHED",
         q = "COLLECTING_DISTRIBUTING" => s.port[p].id # NoId
  PROVE  Good(r) /\ Frame(p, s, r) /\ r.agg = s.agg /\ Muxed(q, s.port[p], r.port[p])
<1>1. s \in RunType /\ PortInv(s.port[p])
  BY DEF Good
<1>2. PICK u \in PortType : r = PutPort(s, p, u) /\ Muxed(q, s.port[p], u)
  BY <1>1, MuxEffect
<1>3. /\ r \in RunType /\ r.port[p] = u /\ r.agg = s.agg /\ r.sent = s.sent /\ r.at = s.at
      /\ \A o \in Ports \ {p} : r.port[o] = s.port[o]
  BY ONLY <1>1, <1>2, PortSet
<1>4. PICK t : t = s.port[p]
  OBVIOUS
<1>5. PortInv(u)
  BY <1>1, <1>2, <1>4, StateSets DEF PortInv, Muxed, Taken, SameBase, SameRecv, SameSelect
<1>6. /\ u.id = t.id /\ (t.id = NoId \/ u.ready_N = t.ready_N)
      /\ u.initialized /\ u.selected =>
           /\ t.initialized /\ t.selected /\ u.key = t.key /\ u.aggregation = t.aggregation
           /\ SameIdentity(u.partner, t.partner)
  BY <1>2, <1>4 DEF Muxed, SameBase, SameRecv, SameSelect, SameIdentity
<1>7. Good(r)
  BY <1>3, <1>4, <1>5, <1>6, GoodKept
<1> QED  BY <1>2, <1>3, <1>7 DEF Frame

(* Entering a state of the transmit machine. *)
LEMMA TransmitGood ==
  ASSUME NEW s, Good(s), NEW p \in Ports, NEW q \in Range(TransmitStates),
         q = "TX" => s.port[p].pkt_sent < RateLimit
  PROVE  LET r == EnterTransmit(q, p, s) IN
         /\ Good(r) /\ r.at = s.at /\ r.agg = s.agg /\ \A o \in Ports \ {p} : r.port[o] = s.port[o]
         /\ Spoke(q, s.port[p], r.port[p])
         /\ Len(r.sent) = Len(s.sent) + (IF q = "TX" THEN 1 ELSE 0)
<1>0. PICK r : r = EnterTransmit(q, p, s)
  OBVIOUS
<1>1. s \in RunType /\ PortInv(s.port[p])
  BY DEF Good
<1>2. PICK u \in PortType, z \in Seq(PduType) :
        /\ r = PutSent(s, p, u, z) /\ Spoke(q, s.port[p], u)
        /\ Len(z) = Len(s.sent) + (IF q = "TX" THEN 1 ELSE 0)
  BY <1>0, <1>1, TransmitEffect
<1>3. /\ r \in RunType /\ r.port[p] = u /\ r.agg = s.agg /\ r.sent = z /\ r.at = s.at
      /\ \A o \in Ports \ {p} : r.port[o] = s.port[o]
  <2>1. s.port \in [Ports -> PortType] /\ s.agg \in [Ids -> AggType] /\ s.at \in (0..5) \X (0..5)
    BY <1>1 DEF RunType
  <2>2. r = [port |-> [s.port EXCEPT ![p] = u], agg |-> s.agg, sent |-> z, at |-> s.at]
    BY ONLY <1>1, <1>2 DEF RunType, PutSent
  <2>3. r \in RunType
    BY <2>1, <2>2 DEF RunType
  <2> QED  BY <2>1, <2>2, <2>3
<1>4. PICK t : t = s.port[p]
  OBVIOUS
<1>5. PortInv(u)
  BY <1>1, <1>2, <1>4 DEF PortInv, Spoke, SameBase, SameRecv, SameSelect, SameMux
<1>6. /\ u.id = t.id /\ u.ready_N = t.ready_N
      /\ u.initialized /\ u.selected =>
           /\ t.initialized /\ t.selected /\ u.key = t.key /\ u.aggregation = t.aggregation
           /\ SameIdentity(u.partner, t.partner)
  BY <1>2, <1>4 DEF Spoke, SameBase, SameRecv, SameSelect, SameMux, SameIdentity
<1>7. Good(r)
  BY <1>3, <1>4, <1>5, <1>6, GoodKept
<1> QED  BY <1>0, <1>2, <1>3, <1>7

(* Every port brings an aggregator along, so a port that has none selected *)
(* finds a free one among those of its instance.                           *)
LEMMA FreeExists ==
  ASSUME NEW s \in RunType, Agree(s), Stocked(s),
         \A o \in Ports : s.port[o].id # NoId => s.port[o].present,
         NEW p \in Ports, s.port[p].present, s.port[p].id = NoId
  PROVE  \E i \in DOMAIN list[SystemOf[p]] : IsFree(s.agg[list[SystemOf[p]][i]])
<1> SUFFICES ASSUME \A i \in DOMAIN list[SystemOf[p]] : ~IsFree(s.agg[list[SystemOf[p]][i]])
             PROVE  FALSE
  OBVIOUS
<1>1. PICK y \in Systems : y = SystemOf[p]
  BY TopologyAssumption
<1>2. PICK l \in Seq(Ids) : l = list[y]
  BY DEF Stocked
<1>3. DOMAIN l = 1..Len(l) /\ Len(l) \in Nat
  OBVIOUS
<1> DEFINE S == {o \in Ports : s.port[o].present /\ SystemOf[o] = y}
           T == S \ {p}
           f == [i \in DOMAIN l |-> CHOOSE o \in T : s.port[o].id = l[i]]
<1>4. ASSUME NEW i \in DOMAIN l  PROVE \E o \in T : s.port[o].id = l[i]
  <2>1. l[i] \in Ids /\ s.agg[l[i]].ports # {} /\ s.agg[l[i]].ports \in SUBSET Ports
    BY <1>1, <1>2 DEF IsFree, RunType, AggType
  <2>2. PICK o \in Ports : o \in s.agg[l[i]].ports
    BY <2>1
  <2>3. s.port[o].id = l[i] /\ l[i] # NoId
    BY <2>1, <2>2, IdAssumption DEF Agree
  <2>4. Contains(list[SystemOf[o]], l[i]) /\ SystemOf[o] \in Systems
    BY <2>3, TopologyAssumption DEF Stocked, Listed
  <2>5. PICK j \in DOMAIN list[SystemOf[o]] : list[SystemOf[o]][j] = l[i]
    BY <2>4 DEF Contains, Stocked
  <2>6. SystemOf[o] = y
    BY <1>2, <2>4, <2>5 DEF Stocked, Distinct
  <2> QED  BY <2>3, <2>6
<1>5. IsFiniteSet(S) /\ IsFiniteSet(T) /\ Cardinality(T) = Cardinality(S) - 1 /\ Cardinality(S) \in Nat
  <2>1. IsFiniteSet(S) /\ p \in S
    BY <1>1, TopologyAssumption, FS_Subset
  <2> HIDE DEF S
  <2> QED  BY <2>1, FS_RemoveElement, FS_CardinalityType
<1>6. Len(l) = Cardinality(S)
  BY <1>2 DEF Stocked, Counted
<1>7. f \in Injection(DOMAIN l, T)
  <2>1. ASSUME NEW i \in DOMAIN l  PROVE f[i] \in T /\ s.port[f[i]].id = l[i]
    BY <1>4, <2>1
  <2>2. f \in [DOMAIN l -> T]
    BY <2>1
  <2>3. ASSUME NEW i \in DOMAIN l, NEW j \in DOMAIN l, f[i] = f[j]  PROVE i = j
    <3>1. l[i] = l[j]
      BY <2>1, <2>3
    <3> QED  BY <1>2, <3>1 DEF Stocked, Distinct
  <2> HIDE DEF f, T
  <2>4. IsInjective(f)
    BY <2>2, <2>3 DEF IsInjective
  <2> QED  BY <2>2, <2>4 DEF Injection
<1> HIDE DEF f, S, T
<1>8. Cardinality(1..Len(l)) <= Cardinality(T) /\ Cardinality(1..Len(l)) = Len(l)
  <2>1. Cardinality(DOMAIN l) <= Cardinality(T)
    BY <1>5, <1>7, FS_Injection
  <2>2. Cardinality(1..Len(l)) = Len(l)
    <3>1. PICK n : n = Len(l)
      OBVIOUS
    <3>2. 1 \in Int /\ n \in Int /\ n >= 0
      BY <1>3, <3>1
    <3>3. Cardinality(1..n) = IF 1 > n THEN 0 ELSE n - 1 + 1
      BY <3>2, FS_Interval
    <3> QED  BY <3>1, <3>2, <3>3
  <2> QED  BY <1>3, <2>1, <2>2
<1> QED  BY <1>3, <1>5, <1>6, <1>8

-----------------------------------------------------------------------------
(* Which state is entered next *)

(* The states of the machines, with the place of each in the order. *)
LEMMA StatesOf ==
  ASSUME NEW e \in AllStates
  PROVE  /\ e[1] \in 1..5 /\ e[2] \in 1..5
         /\ e[1] = 1 => e[3] = "receive" /\ e[4] \in Range(ReceiveStates)
         /\ e[1] = 2 => e[3] = "periodic" /\ e[4] \in Range(PeriodicStates)
         /\ e[1] = 3 => e[3] = "select" /\ e[4] \in Range(SelectStates)
         /\ e[1] = 4 => e[3] = "mux" /\ e[4] \in Range(MuxStates)
         /\ e[1] = 5 => e[3] = "transmit" /\ e[4] \in Range(TransmitStates)
<1>1. DOMAIN Machines = 1..5
  BY DEF Machines
<1>0. PICK m \in 1..5 : \E i \in DOMAIN States(m) : e = <<m, i, Machines[m], States(m)[i]>>
  BY <1>1 DEF AllStates
<1>2. PICK i \in DOMAIN States(m) : e = <<m, i, Machines[m], States(m)[i]>>
  BY <1>0
<1>3. e[1] = m /\ e[2] = i /\ e[3] = Machines[m] /\ e[4] = States(m)[i]
  BY <1>2
<1>4. CASE m = 1
  BY <1>2, <1>3, <1>4 DEF States, Machines, ReceiveStates, Range
<1>5. CASE m = 2
  BY <1>2, <1>3, <1>5 DEF States, Machines, PeriodicStates, Range
<1>6. CASE m = 3
  BY <1>2, <1>3, <1>6 DEF States, Machines, SelectStates, Range
<1>7. CASE m = 4
  BY <1>2, <1>3, <1>7 DEF States, Machines, MuxStates, Range
<1>8. CASE m = 5
  BY <1>2, <1>3, <1>8 DEF States, Machines, TransmitStates, Range
<1> QED  BY <1>4, <1>5, <1>6, <1>7, <1>8

(* Each state of each machine is among them. *)
LEMMA StateAt ==
  /\ \A q \in Range(ReceiveStates) : \E e \in AllStates : e[1] = 1 /\ e[3] = "receive" /\ e[4] = q
  /\ \A q \in Range(PeriodicStates) : \E e \in AllStates : e[1] = 2 /\ e[3] = "periodic" /\ e[4] = q
  /\ \A q \in Range(SelectStates) : \E e \in AllStates : e[1] = 3 /\ e[3] = "select" /\ e[4] = q
  /\ \A q \in Range(MuxStates) : \E e \in AllStates : e[1] = 4 /\ e[3] = "mux" /\ e[4] = q
  /\ \A q \in Range(TransmitStates) : \E e \in AllStates : e[1] = 5 /\ e[3] = "transmit" /\ e[4] = q
<1>1. ASSUME NEW m \in 1..5, NEW q \in Range(States(m))
      PROVE  \E e \in AllStates : e[1] = m /\ e[3] = Machines[m] /\ e[4] = q
  <2>1. PICK i \in DOMAIN States(m) : q = States(m)[i]
    BY DEF Range
  <2>2. PICK e : e = <<m, i, Machines[m], States(m)[i]>>
    OBVIOUS
  <2>3. m \in DOMAIN Machines
    BY DEF Machines
  <2>4. e \in AllStates
    BY <2>2, <2>3 DEF AllStates
  <2> QED  BY <2>1, <2>2, <2>4
<1>2. /\ States(1) = ReceiveStates /\ States(2) = PeriodicStates /\ States(3) = SelectStates
      /\ States(4) = MuxStates /\ States(5) = TransmitStates
  BY DEF States
<1>3. /\ Machines[1] = "receive" /\ Machines[2] = "periodic" /\ Machines[3] = "select"
      /\ Machines[4] = "mux" /\ Machines[5] = "transmit"
  BY DEF Machines
<1> QED  BY <1>1, <1>2, <1>3

(* The distances are numbers, and a machine that lies on the way is not    *)
(* passed over if it can move.                                             *)
LEMMA OnTheWay ==
  ASSUME NEW s, s.at \in (0..5) \X (0..5), s.at[1] \in 1..5
  PROVE  /\ \A e \in AllStates : Distance(e, s) \in Nat
         /\ \A e, y \in AllStates :
              s.at[1] <= y[1] /\ y[1] < e[1] => ~(Distance(e, s) <= Distance(y, s))
<1>1. PICK a, b : a = s.at[1] /\ b = s.at[2]
  OBVIOUS
<1>2. a \in 1..5 /\ b \in 0..5
  BY <1>1
<1>3. ASSUME NEW e \in AllStates
      PROVE  /\ Distance(e, s) \in Nat
             /\ e[1] = a => Distance(e, s) <= 9
             /\ a < e[1] => Distance(e, s) = 10 * (e[1] - a) + e[2]
  <2>1. PICK m, i : m = e[1] /\ i = e[2]
    OBVIOUS
  <2>2. m \in 1..5 /\ i \in 1..5
    BY <2>1, StatesOf
  <2>3. (i - b - 1) % 10 \in 0..9 /\ (m - a) % 5 \in 0..4
    BY <1>2, <2>2
  <2>4. a < m => (m - a) % 5 = m - a
    BY <1>2, <2>2
  <2>5. PICK n, d : n = (i - b - 1) % 10 /\ d = (m - a) % 5
    OBVIOUS
  <2>6. Distance(e, s) = IF m = a THEN n ELSE 10 * d + i
    BY <1>1, <2>1, <2>5 DEF Distance
  <2>7. n \in 0..9 /\ d \in 0..4 /\ (a < m => d = m - a)
    BY <2>3, <2>4, <2>5
  <2>8. 10 * d + i \in Nat /\ n \in Nat /\ n <= 9
    BY <2>2, <2>7
  <2>9. Distance(e, s) \in Nat /\ (m = a => Distance(e, s) <= 9)
    BY <2>6, <2>8
  <2>10. a < m => Distance(e, s) = 10 * (m - a) + i
    BY <1>2, <2>2, <2>6, <2>7
  <2> QED  BY <2>1, <2>9, <2>10
<1>4. ASSUME NEW e \in AllStates, NEW y \in AllStates, a <= y[1], y[1] < e[1]
      PROVE  ~(Distance(e, s) <= Distance(y, s))
  <2>1. PICK m, i, k, j : m = e[1] /\ i = e[2] /\ k = y[1] /\ j = y[2]
    OBVIOUS
  <2>2. m \in 1..5 /\ i \in 1..5 /\ k \in 1..5 /\ j \in 1..5
    BY <2>1, StatesOf
  <2>3. Distance(e, s) = 10 * (m - a) + i /\ Distance(y, s) \in Nat
    BY <1>2, <1>3, <1>4, <2>1, <2>2
  <2>4. CASE k = a
    <3>1. Distance(y, s) <= 9
      BY <1>3, <2>1, <2>4
    <3> QED  BY <1>2, <1>4, <2>1, <2>2, <2>3, <2>4, <3>1
  <2>5. CASE k # a
    <3>1. Distance(y, s) = 10 * (k - a) + j
      BY <1>2, <1>3, <1>4, <2>1, <2>2, <2>5
    <3> QED  BY <1>2, <1>4, <2>1, <2>2, <2>3, <2>5, <3>1
  <2> QED  BY <2>4, <2>5
<1> QED  BY <1>1, <1>3, <1>4

(* fsm_change_to_state() enters a state that can be entered, and leaves no *)
(* machine behind that lies on the way to it.                              *)
LEMMA NextEntered ==
  ASSUME NEW s, s.at \in (0..5) \X (0..5), s.at[1] \in 1..5, NEW p, Entries(p, s) # {}
  PROVE  \E e \in AllStates :
           /\ Cond(e[3], e[4], p, s)
           /\ ChangeToState(p, s) = [Enter(e[3], e[4], p, s) EXCEPT !.at = <<e[1], e[2]>>]
           /\ \A y \in AllStates : s.at[1] <= y[1] /\ y[1] < e[1] => ~Cond(y[3], y[4], p, s)
<1>1. PICK E : E = Entries(p, s)
  OBVIOUS
<1>2. \A e : e \in E <=> e \in AllStates /\ Cond(e[3], e[4], p, s)
  BY <1>1 DEF Entries
<1>3. PICK D : D = {Distance(x, s) : x \in E}
  OBVIOUS
<1>4. D \in SUBSET Nat /\ D # {}
  BY <1>1, <1>2, <1>3, OnTheWay
<1>5. PICK d \in D : \A n \in D : d <= n
  BY <1>4, LeastExists
<1>6. PICK z \in E : d = Distance(z, s)
  BY <1>3
<1>7. \A y \in E : Distance(z, s) <= Distance(y, s)
  BY <1>3, <1>5, <1>6
<1>8. PICK e : e = CHOOSE x \in E : \A y \in E : Distance(x, s) <= Distance(y, s)
  OBVIOUS
<1>9. e \in E /\ \A y \in E : Distance(e, s) <= Distance(y, s)
  BY <1>7, <1>8
<1>10. ChangeToState(p, s) = [Enter(e[3], e[4], p, s) EXCEPT !.at = <<e[1], e[2]>>]
  BY <1>1, <1>8 DEF ChangeToState
<1>11. \A y \in AllStates : s.at[1] <= y[1] /\ y[1] < e[1] => ~Cond(y[3], y[4], p, s)
  BY <1>2, <1>9, OnTheWay
<1> QED  BY <1>2, <1>9, <1>10, <1>11

-----------------------------------------------------------------------------
(* Each machine comes to rest *)

(* The ranks are small numbers. *)
LEMMA RankBounds ==
  ASSUME NEW t \in PortType
  PROVE  /\ RankReceive(t) \in 0..3 /\ RankPeriodic(t) \in 0..3 /\ RankMux(t) \in 0..7
         /\ RankTransmit(t) \in 0..3
<1>1. t.recv = "INITIALIZE" => ~(t.recv \in {"EXPIRED", "CURRENT"})
  OBVIOUS
<1>2. t.recv = "PORT_DISABLED" => ~(t.recv \in {"EXPIRED", "CURRENT"})
  OBVIOUS
<1>3. RankReceive(t) \in 0..3
  BY <1>1, <1>2 DEF RankReceive
<1>4. RankPeriodic(t) \in 0..3
  BY DEF RankPeriodic
<1>5. RankMux(t) \in 0..7
  BY DEF RankMux
<1>6. RankTransmit(t) \in 0..3
  BY DEF RankTransmit
<1> QED  BY <1>3, <1>4, <1>5, <1>6

(* The receive machine uses up its message and its timer. *)
LEMMA ReceiveDown ==
  ASSUME NEW t \in PortType, NEW u \in PortType, NEW q, ReceiveCond(q, t), Received(q, t, u)
  PROVE  RankReceive(u) < RankReceive(t)
<1>1. /\ u.port_enabled = t.port_enabled /\ u.recv = q
      /\ u.message = IF q = "CURRENT" THEN NoPdu ELSE t.message
      /\ IF q \in {"EXPIRED", "CURRENT"} THEN u.current_while ELSE u.current_while = t.current_while
  BY DEF Received, SameBase
<1>2. CASE q = "PORT_DISABLED"
  BY <1>1, <1>2 DEF ReceiveCond, RankReceive
<1>3. CASE q = "EXPIRED"
  BY <1>1, <1>3 DEF ReceiveCond, RankReceive
<1>4. CASE q = "DEFAULTED"
  BY <1>1, <1>4 DEF ReceiveCond, RankReceive
<1>5. CASE q = "CURRENT"
  BY <1>1, <1>5 DEF ReceiveCond, RankReceive
<1> QED  BY <1>2, <1>3, <1>4, <1>5 DEF ReceiveCond

(* The periodic machine sets its timer. *)
LEMMA PeriodicDown ==
  ASSUME NEW t \in PortType, NEW u \in PortType, NEW q, PeriodicCond(q, t), Paced(q, t, u)
  PROVE  RankPeriodic(u) < RankPeriodic(t)
<1>1. /\ u.port_enabled = t.port_enabled /\ u.partner = t.partner /\ u.periodic = q
      /\ u.periodic_timer = IF q = "PERIODIC_TX" THEN t.periodic_timer ELSE q # "NO_PERIODIC"
  BY DEF Paced, SameBase, SameRecv
<1>2. CASE q = "NO_PERIODIC"
  BY <1>1, <1>2 DEF PeriodicCond, RankPeriodic
<1>3. CASE q = "FAST_PERIODIC"
  <2>1. u.periodic_timer = TRUE
    BY <1>1, <1>3
  <2> QED  BY <1>1, <1>3, <2>1 DEF PeriodicCond, RankPeriodic
<1>4. CASE q = "SLOW_PERIODIC"
  <2>1. u.periodic_timer = TRUE
    BY <1>1, <1>4
  <2> QED  BY <1>1, <1>4, <2>1 DEF PeriodicCond, RankPeriodic
<1>5. CASE q = "PERIODIC_TX"
  BY <1>1, <1>5 DEF PeriodicCond, RankPeriodic
<1> QED  BY <1>2, <1>3, <1>4, <1>5 DEF PeriodicCond

(* The mux machine ends where the choice of the port and its partner put it. *)
LEMMA MuxDown ==
  ASSUME NEW s, NEW p, NEW t \in PortType, t = s.port[p], NEW u \in PortType, NEW q, MuxCond(q, p, s),
         Muxed(q, t, u)
  PROVE  RankMux(u) < RankMux(t)
<1>1. u.partner = t.partner /\ u.mux = q /\ u.selected = t.selected /\ u.select = t.select
  BY DEF Muxed, SameRecv, SameSelect
<1>2. CASE q = "DETACHED"
  BY <1>1, <1>2 DEF MuxCond, RankMux
<1>3. CASE q = "WAITING"
  BY <1>1, <1>3 DEF MuxCond, RankMux
<1>4. CASE q = "ATTACHED"
  BY <1>1, <1>4 DEF MuxCond, RankMux
<1>5. CASE q = "COLLECTING_DISTRIBUTING"
  BY <1>1, <1>5 DEF MuxCond, RankMux
<1> QED  BY <1>2, <1>3, <1>4, <1>5 DEF MuxCond

(* The transmit machine sends what it was asked to. *)
LEMMA TransmitDown ==
  ASSUME NEW t \in PortType, NEW u \in PortType, NEW q, TransmitCond(q, t), Spoke(q, t, u)
  PROVE  RankTransmit(u) < RankTransmit(t)
<1>1. /\ u.periodic = t.periodic /\ u.transmit = q /\ (q # "NO_TX" => ~u.ntt)
      /\ (q = "NO_TX" => u.ntt = t.ntt)
  BY DEF Spoke, SamePeriodic
<1>2. CASE q = "NO_TX"
  BY <1>1, <1>2 DEF TransmitCond, RankTransmit
<1>3. CASE q = "TX"
  BY <1>1, <1>3 DEF TransmitCond, RankTransmit
<1>4. CASE q = "DISABLED"
  BY <1>1, <1>4, StateSets, PortFields DEF TransmitCond, RankTransmit
<1> QED  BY <1>2, <1>3, <1>4 DEF TransmitCond

(* What the selection logic does to the rank of the mux machine. *)
LEMMA SelectDown ==
  ASSUME NEW t \in PortType, NEW u \in PortType, Chose(t, u), ~t.selected,
         \/ t.select = "SELECTED" /\ u.select = "UNSELECTED" /\ ~u.selected
         \/ t.select = "UNSELECTED" /\ t.mux = "DETACHED" /\ u.selected
  PROVE  RankMux(u) < RankMux(t)
<1>1. u.partner = t.partner /\ u.mux = t.mux
  BY DEF Chose, SameRecv, SameMux
<1> QED  BY <1>1 DEF RankMux

(* The ranks and the conditions depend on the machine's own fields. *)
LEMMA SameRanks ==
  ASSUME NEW t, NEW u, SameBase(t, u)
  PROVE  /\ SameRecv(t, u) => (StuckReceive(t) => StuckReceive(u))
         /\ SameRecv(t, u) /\ SamePeriodic(t, u) => (StuckPeriodic(t) => StuckPeriodic(u))
         /\ SameRecv(t, u) /\ SamePeriodic(t, u) => RankPeriodic(u) = RankPeriodic(t)
         /\ SameRecv(t, u) /\ SameSelect(t, u) /\ SameMux(t, u) => RankMux(u) = RankMux(t)
         /\ SamePeriodic(t, u) /\ SameTransmit(t, u) /\ u.ntt = t.ntt =>
              RankTransmit(u) = RankTransmit(t)
<1>1. SameRecv(t, u) => (StuckReceive(t) => StuckReceive(u))
  BY DEF SameBase, SameRecv, StuckReceive, ReceiveCond
<1>2. SameRecv(t, u) /\ SamePeriodic(t, u) => (StuckPeriodic(t) => StuckPeriodic(u))
  BY DEF SameBase, SameRecv, SamePeriodic, StuckPeriodic, PeriodicCond
<1>3. SameRecv(t, u) /\ SamePeriodic(t, u) => RankPeriodic(u) = RankPeriodic(t)
  BY DEF SameBase, SameRecv, SamePeriodic, RankPeriodic
<1>4. SameRecv(t, u) /\ SameSelect(t, u) /\ SameMux(t, u) => RankMux(u) = RankMux(t)
  BY DEF SameRecv, SameSelect, SameMux, RankMux
<1>5. SamePeriodic(t, u) /\ SameTransmit(t, u) /\ u.ntt = t.ntt => RankTransmit(u) = RankTransmit(t)
  BY DEF SamePeriodic, SameTransmit, RankTransmit
<1> QED  BY <1>1, <1>2, <1>3, <1>4, <1>5

-----------------------------------------------------------------------------
(* A step of a run *)

Running(p, s) == Good(s) /\ Stocked(s) /\ Phase(p, s) /\ s.port[p].present

(* A port that carries traffic for aggregator b, if for any: it can join    *)
(* another aggregator, but has not waited since.                           *)
Bound(t, b) ==
  /\ t.slave \in {b, NoId}
  /\ t.id \in {b, NoId} \/ (~t.ready_N /\ t.mux \in {"DETACHED", "WAITING"})

StaysBound(t, u) == \A b \in Ids : Bound(t, b) => Bound(u, b)

(* A run does not touch other ports, nor what is configured, and moves its  *)
(* device to no other bond.                                                *)
OnlyRuns(p, s, r) ==
  /\ SameBase(s.port[p], r.port[p]) /\ StaysBound(s.port[p], r.port[p])
  /\ \A o \in Ports \ {p} : r.port[o] = s.port[o]

(* The machines that leave the aggregator and the device alone. *)
LEMMA BoundSame ==
  ASSUME NEW t, NEW u, u.id = t.id, SameMux(t, u)
  PROVE  StaysBound(t, u)
  BY DEF StaysBound, Bound, SameMux

(* The selection logic: a port that is detached has not waited. *)
LEMMA BoundChosen ==
  ASSUME NEW t, NEW u, PortInv(t), Chose(t, u), u.id = NoId \/ t.mux = "DETACHED"
  PROVE  StaysBound(t, u)
  BY DEF StaysBound, Bound, Chose, SameMux, PortInv

(* The mux machine attaches for one aggregator only, since a port that     *)
(* waits for another is not ready.                                         *)
LEMMA BoundMuxed ==
  ASSUME NEW q \in Range(MuxStates), NEW t, NEW u, PortInv(t), Muxed(q, t, u),
         q = "WAITING" => t.mux = "DETACHED",
         q = "ATTACHED" => t.ready_N \/ t.mux = "COLLECTING_DISTRIBUTING",
         q = "COLLECTING_DISTRIBUTING" => t.mux = "ATTACHED"
  PROVE  StaysBound(t, u)
<1> SUFFICES ASSUME NEW b \in Ids, Bound(t, b)  PROVE Bound(u, b)
  BY DEF StaysBound
<1>1. u.id = t.id /\ u.mux = q
  BY DEF Muxed, SameSelect
<1>2. CASE q = "DETACHED"
  BY <1>1, <1>2 DEF Bound, Muxed
<1>3. CASE q = "WAITING"
  BY <1>1, <1>3 DEF Bound, Muxed, PortInv
<1>4. CASE q = "ATTACHED"
  BY <1>1, <1>4 DEF Bound, Muxed
<1>5. CASE q = "COLLECTING_DISTRIBUTING"
  BY <1>1, <1>5 DEF Bound, Muxed, Taken
<1> QED  BY <1>2, <1>3, <1>4, <1>5, StateSets

(* Noting which state was entered changes nothing else. *)
LEMMA AtSet ==
  ASSUME NEW w, Good(w), NEW m \in 0..5, NEW n \in 0..5, NEW r, r = [w EXCEPT !.at = <<m, n>>]
  PROVE  /\ Good(r) /\ r.port = w.port /\ r.agg = w.agg /\ r.sent = w.sent /\ r.at[1] = m
         /\ r.at = <<m, n>>
<1>1. w \in RunType
  BY DEF Good
<1>2. <<m, n>> \in (0..5) \X (0..5)
  OBVIOUS
<1>3. r \in RunType /\ r.port = w.port /\ r.agg = w.agg /\ r.sent = w.sent /\ r.at = <<m, n>>
  BY <1>1, <1>2 DEF RunType
<1>4. Agree(r) /\ Exact(r) /\ Alone(r) /\ Matched(r)
  BY <1>3 DEF Good, Agree, Exact, Alone, Matched
<1>5. \A o \in Ports : PortInv(r.port[o])
  BY <1>3 DEF Good
<1>6. r.at[1] = m
  BY <1>3
<1> QED  BY <1>3, <1>4, <1>5, <1>6 DEF Good

(* The list of aggregators covers the ports as long as one that joins takes *)
(* an aggregator from it.                                                   *)
LEMMA StockedKept ==
  ASSUME NEW s, Stocked(s), NEW p \in Ports, NEW r,
         \A o \in Ports \ {p} : r.port[o] = s.port[o],
         r.port[p].present = s.port[p].present,
         \/ r.port[p].id = s.port[p].id \/ r.port[p].id = NoId
         \/ Contains(list[SystemOf[p]], r.port[p].id)
  PROVE  Stocked(r)
<1>1. \A o \in Ports : r.port[o].present = s.port[o].present
  OBVIOUS
<1>2. ASSUME NEW y \in Systems
      PROVE  {o \in Ports : r.port[o].present /\ SystemOf[o] = y}
               = {o \in Ports : s.port[o].present /\ SystemOf[o] = y}
  BY <1>1
<1>3. Counted(r)
  BY <1>2 DEF Stocked, Counted
<1>4. Listed(r)
  BY DEF Stocked, Listed
<1> QED  BY <1>3, <1>4 DEF Stocked

(* The receive machine runs first, and nothing is sent before it rests. *)
LEMMA StepReceive ==
  ASSUME NEW p \in Ports, NEW s, Running(p, s), NEW q \in Range(ReceiveStates),
         ReceiveCond(q, s.port[p]), NEW n \in 1..5, NEW r,
         r = [EnterReceive(q, p, s) EXCEPT !.at = <<1, n>>]
  PROVE  Running(p, r) /\ Rank(p, r) < Rank(p, s) /\ OnlyRuns(p, s, r)
<1>1. PICK t \in PortType : t = s.port[p]
  BY DEF Running, Good, RunType
<1>2. q = "CURRENT" => t.message \in PduType
  BY <1>1, PortFields DEF ReceiveCond
<1>3. PICK w : w = EnterReceive(q, p, s)
  OBVIOUS
<1>4. Good(w) /\ Frame(p, s, w) /\ w.agg = s.agg /\ Received(q, t, w.port[p])
  BY <1>1, <1>2, <1>3, ReceiveGood DEF Running
<1>5. Good(r) /\ r.port = w.port /\ r.agg = w.agg /\ r.sent = w.sent /\ r.at[1] = 1
  BY <1>3, <1>4, AtSet
<1>6. PICK u \in PortType : u = r.port[p]
  BY <1>5 DEF Good, RunType
<1>7. ~StuckReceive(t)
  BY <1>1 DEF StuckReceive
<1>8. s.at[1] = 1 /\ s.sent = <<>>
  BY <1>1, <1>7 DEF Running, Phase, Late
<1>9. OnlyRuns(p, s, r)
  <2>1. StaysBound(t, r.port[p])
    BY <1>4, <1>5, BoundSame DEF Received
  <2> QED  BY <1>1, <1>4, <1>5, <2>1 DEF OnlyRuns, Frame, Received
<1>10. Stocked(r)
  <2>1. r.port[p].present = s.port[p].present /\ r.port[p].id = s.port[p].id
    BY <1>1, <1>4, <1>5 DEF Received, SameBase
  <2>2. Stocked(s) /\ \A o \in Ports \ {p} : r.port[o] = s.port[o]
    BY <1>9 DEF Running, OnlyRuns
  <2> QED  BY ONLY <2>1, <2>2, StockedKept
<1>11. r.sent = <<>>
  BY <1>4, <1>5, <1>8 DEF Frame
<1>12. Phase(p, r)
  BY <1>5, <1>11 DEF Phase
<1>13. RankReceive(u) < RankReceive(t)
  BY <1>1, <1>4, <1>5, <1>6, ReceiveDown
<1>14. RankReceive(t) \in Nat /\ RankReceive(u) \in Nat
  BY RankBounds
<1>15. Rank(p, r) = 15 + RankReceive(u) /\ Rank(p, s) = 15 + RankReceive(t)
  BY <1>1, <1>5, <1>6, <1>8 DEF Rank
<1>16. Running(p, r)
  BY <1>5, <1>9, <1>10, <1>12 DEF Running, OnlyRuns, SameBase
<1> QED  BY <1>9, <1>13, <1>14, <1>15, <1>16

(* How the rank falls once the receive machine rests. *)
LEMMA RankFalls ==
  ASSUME NEW p, NEW s, NEW r, NEW t \in PortType, t = s.port[p], NEW u \in PortType, u = r.port[p],
         r.at[1] # 1, RankPeriodic(u) <= RankPeriodic(t), RankMux(u) <= RankMux(t),
         \/ RankPeriodic(u) + RankMux(u) < RankPeriodic(t) + RankMux(t)
            /\ (Late(p, s) => Late(p, r) /\ RankTransmit(u) = RankTransmit(t))
         \/ Late(p, s) /\ Late(p, r) /\ RankTransmit(u) < RankTransmit(t)
  PROVE  Rank(p, r) < Rank(p, s)
<1>1. /\ RankReceive(t) \in 0..3 /\ RankPeriodic(t) \in 0..3 /\ RankMux(t) \in 0..7
      /\ RankTransmit(t) \in 0..3
      /\ RankReceive(u) \in 0..3 /\ RankPeriodic(u) \in 0..3 /\ RankMux(u) \in 0..7
      /\ RankTransmit(u) \in 0..3
  BY RankBounds
<1>2. Rank(p, r) = RankPeriodic(u) + RankMux(u) + (IF Late(p, r) THEN RankTransmit(u) ELSE 4)
  BY DEF Rank
<1>3. Rank(p, s) = IF s.at[1] = 1 THEN 15 + RankReceive(t)
                   ELSE RankPeriodic(t) + RankMux(t) + (IF Late(p, s) THEN RankTransmit(t) ELSE 4)
  BY DEF Rank
<1>4. CASE s.at[1] = 1
  BY <1>1, <1>2, <1>3, <1>4
<1>5. CASE s.at[1] # 1
  <2>1. PICK x, y : /\ x = (IF Late(p, r) THEN RankTransmit(u) ELSE 4)
                    /\ y = (IF Late(p, s) THEN RankTransmit(t) ELSE 4)
    OBVIOUS
  <2>2. x \in 0..4 /\ y \in 0..4
    BY <1>1, <2>1
  <2>3. CASE /\ RankPeriodic(u) + RankMux(u) < RankPeriodic(t) + RankMux(t)
             /\ Late(p, s) => Late(p, r) /\ RankTransmit(u) = RankTransmit(t)
    <3>1. x <= y
      BY <1>1, <2>1, <2>2, <2>3
    <3> QED  BY <1>1, <1>2, <1>3, <1>5, <2>1, <2>2, <2>3, <3>1
  <2>4. CASE Late(p, s) /\ Late(p, r) /\ RankTransmit(u) < RankTransmit(t)
    <3>1. x < y
      BY <1>1, <2>1, <2>4
    <3> QED  BY <1>1, <1>2, <1>3, <1>5, <2>1, <2>2, <3>1
  <2> QED  BY <2>3, <2>4
<1> QED  BY <1>4, <1>5

(* The periodic machine runs before anything is sent. *)
LEMMA StepPeriodic ==
  ASSUME NEW p \in Ports, NEW s, Running(p, s), NEW q \in Range(PeriodicStates),
         PeriodicCond(q, s.port[p]), NEW n \in 1..5, NEW r,
         r = [EnterPeriodic(q, p, s) EXCEPT !.at = <<2, n>>],
         StuckReceive(s.port[p])
  PROVE  Running(p, r) /\ Rank(p, r) < Rank(p, s) /\ OnlyRuns(p, s, r)
<1>1. PICK t \in PortType : t = s.port[p]
  BY DEF Running, Good, RunType
<1>3. PICK w : w = EnterPeriodic(q, p, s)
  OBVIOUS
<1>4. Good(w) /\ Frame(p, s, w) /\ w.agg = s.agg /\ Paced(q, t, w.port[p])
  BY <1>1, <1>3, PeriodicGood DEF Running
<1>5. Good(r) /\ r.port = w.port /\ r.agg = w.agg /\ r.sent = w.sent /\ r.at[1] = 2
  BY <1>3, <1>4, AtSet
<1>6. PICK u \in PortType : u = r.port[p]
  BY <1>5 DEF Good, RunType
<1>7. ~StuckPeriodic(t)
  BY <1>1 DEF StuckPeriodic
<1>8. ~Late(p, s) /\ s.sent = <<>>
  BY <1>1, <1>7 DEF Running, Phase, Late
<1>9. OnlyRuns(p, s, r)
  <2>1. StaysBound(t, r.port[p])
    BY <1>4, <1>5, BoundSame DEF Paced, SameSelect
  <2> QED  BY <1>1, <1>4, <1>5, <2>1 DEF OnlyRuns, Frame, Paced
<1>10. Stocked(r)
  <2>1. r.port[p].present = s.port[p].present /\ r.port[p].id = s.port[p].id
    BY <1>1, <1>4, <1>5 DEF Paced, SameBase, SameSelect
  <2>2. Stocked(s) /\ \A o \in Ports \ {p} : r.port[o] = s.port[o]
    BY <1>9 DEF Running, OnlyRuns
  <2> QED  BY ONLY <2>1, <2>2, StockedKept
<1>11. r.sent = <<>>
  BY <1>4, <1>5, <1>8 DEF Frame
<1>12. StuckReceive(u) /\ RankMux(u) = RankMux(t)
  BY <1>1, <1>4, <1>5, <1>6, SameRanks DEF Paced
<1>13. Phase(p, r)
  BY <1>5, <1>6, <1>11, <1>12 DEF Phase
<1>14. RankPeriodic(u) < RankPeriodic(t)
  BY <1>1, <1>4, <1>5, <1>6, PeriodicDown
<1>15. RankPeriodic(t) \in 0..3 /\ RankPeriodic(u) \in 0..3 /\ RankMux(t) \in 0..7
  BY RankBounds
<1>16. Rank(p, r) < Rank(p, s)
  <2>1. /\ RankPeriodic(u) <= RankPeriodic(t) /\ RankMux(u) <= RankMux(t)
        /\ RankPeriodic(u) + RankMux(u) < RankPeriodic(t) + RankMux(t)
    BY <1>12, <1>14, <1>15
  <2>2. r.at[1] # 1
    BY <1>5
  <2> QED  BY ONLY <1>1, <1>6, <1>8, <2>1, <2>2, RankFalls
<1>17. Running(p, r)
  BY <1>5, <1>9, <1>10, <1>13 DEF Running, OnlyRuns, SameBase
<1> QED  BY <1>9, <1>16, <1>17

(* The selection logic: a port whose choice was taken back gives its       *)
(* aggregator up, and one that is detached finds another.                  *)
LEMMA StepSelect ==
  ASSUME NEW p \in Ports, NEW s, Running(p, s), NEW q \in Range(SelectStates),
         SelectCond(q, s.port[p]), NEW n \in 1..5, NEW r,
         r = [EnterSelect(q, p, s) EXCEPT !.at = <<3, n>>],
         StuckReceive(s.port[p]), StuckPeriodic(s.port[p])
  PROVE  Running(p, r) /\ Rank(p, r) < Rank(p, s) /\ OnlyRuns(p, s, r)
<1>1. PICK t \in PortType : t = s.port[p]
  BY DEF Running, Good, RunType
<1>2. Good(s) /\ Stocked(s) /\ Phase(p, s) /\ t.present /\ PortInv(t)
  BY <1>1 DEF Running, Good
<1>3. PICK w : w = EnterSelect(q, p, s)
  OBVIOUS
<1>4. /\ ~t.selected
      /\ \/ q = "UNSELECTED" /\ t.select = "SELECTED"
         \/ q = "SELECTED" /\ t.select = "UNSELECTED" /\ t.mux = "DETACHED"
  BY <1>1, <1>2 DEF SelectCond, PortInv
<1>5. /\ Good(w) /\ Frame(p, s, w) /\ Chose(t, w.port[p]) /\ w.port[p].select = q
      /\ q = "UNSELECTED" => ~w.port[p].selected /\ w.port[p].id = NoId
      /\ q = "SELECTED" => w.port[p].selected /\ Contains(list[SystemOf[p]], w.port[p].id)
  <2>1. CASE q = "UNSELECTED"
    BY <1>1, <1>2, <1>3, <1>4, <2>1, LeaveGood
  <2>2. CASE q = "SELECTED"
    <3>1. s \in RunType /\ Agree(s) /\ \A o \in Ports : s.port[o].id # NoId => s.port[o].present
      BY <1>2 DEF Good, PortInv
    <3>2. t.id = NoId
      BY <1>2, <1>4, <2>2 DEF PortInv
    <3>3. \E i \in DOMAIN list[SystemOf[p]] : IsFree(s.agg[list[SystemOf[p]][i]])
      BY <1>1, <1>2, <3>1, <3>2, FreeExists
    <3>4. list[SystemOf[p]] \in Seq(Ids)
      BY <1>2, TopologyAssumption DEF Stocked
    <3> QED  BY <1>1, <1>2, <1>3, <1>4, <2>2, <3>3, <3>4, JoinGood
  <2> QED  BY <2>1, <2>2, StateSets
<1>6. Good(r) /\ r.port = w.port /\ r.agg = w.agg /\ r.sent = w.sent /\ r.at[1] = 3
  BY <1>3, <1>5, AtSet
<1>7. PICK u \in PortType : u = r.port[p]
  BY <1>6 DEF Good, RunType
<1>8. /\ Chose(t, u) /\ u.select = q
      /\ q = "UNSELECTED" => ~u.selected /\ u.id = NoId
      /\ q = "SELECTED" => u.selected /\ Contains(list[SystemOf[p]], u.id)
  BY <1>5, <1>6, <1>7
<1>9. OnlyRuns(p, s, r)
  <2>1. u.id = NoId \/ t.mux = "DETACHED"
    BY <1>4, <1>8
  <2>2. StaysBound(t, u)
    BY <1>2, <1>8, <2>1, BoundChosen
  <2> QED  BY <1>1, <1>5, <1>6, <1>7, <2>2 DEF OnlyRuns, Frame, Chose
<1>10. Stocked(r)
  <2>1. /\ r.port[p].present = s.port[p].present
        /\ r.port[p].id = NoId \/ Contains(list[SystemOf[p]], r.port[p].id)
    BY <1>1, <1>7, <1>8, StateSets DEF Chose, SameBase
  <2>2. \A o \in Ports \ {p} : r.port[o] = s.port[o]
    BY <1>9 DEF OnlyRuns
  <2> QED  BY ONLY <1>2, <2>1, <2>2, StockedKept
<1>11. /\ StuckReceive(u) /\ StuckPeriodic(u) /\ RankPeriodic(u) = RankPeriodic(t)
       /\ RankTransmit(u) = RankTransmit(t) /\ u.ntt = t.ntt /\ u.mux = t.mux
  BY <1>1, <1>8, SameRanks DEF Chose, SameMux
<1>12. Late(p, s) => q = "SELECTED" /\ Late(p, r)
  <2> SUFFICES ASSUME Late(p, s)  PROVE q = "SELECTED" /\ Late(p, r)
    OBVIOUS
  <2>1. q = "SELECTED"
    BY <1>1, <1>4 DEF Late
  <2> QED  BY <1>4, <1>7, <1>8, <1>11, <2>1 DEF Late
<1>13. Phase(p, r)
  <2>1. r.sent = s.sent
    BY <1>5, <1>6 DEF Frame
  <2>2. s.sent # <<>> => Late(p, s) /\ ~t.ntt /\ Len(s.sent) = 1
    BY <1>1, <1>2 DEF Phase
  <2>3. r.sent # <<>> => Late(p, r) /\ ~u.ntt /\ Len(r.sent) = 1
    BY <1>11, <1>12, <2>1, <2>2
  <2> QED  BY <1>6, <1>7, <1>11, <2>3 DEF Phase
<1>14. RankMux(u) < RankMux(t)
  BY <1>4, <1>8, SelectDown
<1>15. Rank(p, r) < Rank(p, s)
  <2>1. RankPeriodic(t) \in 0..3 /\ RankMux(u) \in 0..7 /\ RankMux(t) \in 0..7
    BY RankBounds
  <2>2. /\ RankPeriodic(u) <= RankPeriodic(t) /\ RankMux(u) <= RankMux(t)
        /\ RankPeriodic(u) + RankMux(u) < RankPeriodic(t) + RankMux(t)
    BY <1>11, <1>14, <2>1
  <2>3. r.at[1] # 1
    BY <1>6
  <2> QED  BY ONLY <1>1, <1>7, <1>11, <1>12, <2>2, <2>3, RankFalls
<1>16. Running(p, r)
  BY <1>2, <1>1, <1>6, <1>9, <1>10, <1>13 DEF Running, OnlyRuns, SameBase
<1> QED  BY <1>9, <1>15, <1>16

(* The mux machine: when only transmitting and selecting were left, it     *)
(* does no more than wait.                                                 *)
LEMMA StepMux ==
  ASSUME NEW p \in Ports, NEW s, Running(p, s), NEW q \in Range(MuxStates),
         MuxCond(q, p, s), NEW n \in 1..5, NEW r,
         r = [EnterMux(q, p, s) EXCEPT !.at = <<4, n>>],
         StuckReceive(s.port[p]), StuckPeriodic(s.port[p]),
         s.port[p].select = "SELECTED" => s.port[p].selected
  PROVE  Running(p, r) /\ Rank(p, r) < Rank(p, s) /\ OnlyRuns(p, s, r)
<1>1. PICK t \in PortType : t = s.port[p]
  BY DEF Running, Good, RunType
<1>2. Good(s) /\ Stocked(s) /\ Phase(p, s) /\ t.present /\ PortInv(t)
  BY <1>1 DEF Running, Good
<1>3. PICK w : w = EnterMux(q, p, s)
  OBVIOUS
<1>4. /\ q = "DETACHED" => t.id = NoId
      /\ q = "WAITING" => t.mux = "DETACHED" /\ t.selected
      /\ q = "COLLECTING_DISTRIBUTING" => t.id # NoId
  BY <1>1, <1>2 DEF MuxCond, PortInv
<1>5. Good(w) /\ Frame(p, s, w) /\ w.agg = s.agg /\ Muxed(q, t, w.port[p])
  BY <1>1, <1>2, <1>3, <1>4, MuxGood
<1>6. Good(r) /\ r.port = w.port /\ r.agg = w.agg /\ r.sent = w.sent /\ r.at[1] = 4
  BY <1>3, <1>5, AtSet
<1>7. PICK u \in PortType : u = r.port[p]
  BY <1>6 DEF Good, RunType
<1>8. Muxed(q, t, u) /\ r.agg = s.agg
  BY <1>5, <1>6, <1>7
<1>9. OnlyRuns(p, s, r)
  <2>1. q = "ATTACHED" => t.ready_N \/ t.mux = "COLLECTING_DISTRIBUTING"
    <3> SUFFICES ASSUME q = "ATTACHED", t.mux # "COLLECTING_DISTRIBUTING"  PROVE t.ready_N
      OBVIOUS
    <3>1. t.id \in Ids /\ s.agg[t.id].ready
      BY <1>1, PortFields DEF MuxCond
    <3>2. p \in s.agg[t.id].ports
      BY <1>1, <1>2, <3>1 DEF Good, Agree
    <3> QED  BY <1>1, <1>2, <3>1, <3>2 DEF Good, Exact
  <2>2. q = "COLLECTING_DISTRIBUTING" => t.mux = "ATTACHED"
    BY <1>1 DEF MuxCond
  <2>3. StaysBound(t, u)
    BY <1>2, <1>4, <1>8, <2>1, <2>2, BoundMuxed
  <2> QED  BY <1>1, <1>5, <1>6, <1>7, <2>3 DEF OnlyRuns, Frame, Muxed
<1>10. Stocked(r)
  <2>1. r.port[p].present = s.port[p].present /\ r.port[p].id = s.port[p].id
    BY <1>1, <1>7, <1>8 DEF Muxed, SameBase, SameSelect
  <2>2. \A o \in Ports \ {p} : r.port[o] = s.port[o]
    BY <1>9 DEF OnlyRuns
  <2> QED  BY ONLY <1>2, <2>1, <2>2, StockedKept
<1>11. /\ StuckReceive(u) /\ StuckPeriodic(u) /\ RankPeriodic(u) = RankPeriodic(t)
       /\ u.select = t.select /\ u.selected = t.selected
  BY <1>1, <1>8, SameRanks DEF Muxed, SameSelect
<1>12. Late(p, s) => Late(p, r) /\ u.ntt = t.ntt /\ RankTransmit(u) = RankTransmit(t)
  <2> SUFFICES ASSUME Late(p, s)
               PROVE  Late(p, r) /\ u.ntt = t.ntt /\ RankTransmit(u) = RankTransmit(t)
    OBVIOUS
  <2>1. t.mux = "DETACHED"
    BY <1>1 DEF Late, StuckMux
  <2>2. q = "WAITING" /\ t.selected
    BY <1>1, <2>1 DEF MuxCond
  <2>3. u.mux = "WAITING" /\ u.ntt = t.ntt /\ u.ready_N = t.ready_N /\ u.id = t.id
    BY <1>8, <2>2 DEF Muxed, SameSelect
  <2>4. u.id # NoId /\ ~u.ready_N /\ u.id \in Ids \cup {NoId}
    BY <1>2, <2>1, <2>2, <2>3, PortFields DEF PortInv
  <2>5. p \in r.agg[u.id].ports
    BY <1>6, <1>7, <2>4 DEF Good, Agree
  <2>6. ~r.agg[u.id].ready
    BY <1>6, <1>7, <2>4, <2>5 DEF Good, Exact
  <2>7. StuckMux(p, r)
    BY <1>7, <1>11, <2>2, <2>3, <2>6 DEF StuckMux, MuxCond
  <2>8. Late(p, r)
    BY <1>7, <1>11, <2>2, <2>3, <2>7 DEF Late
  <2>9. RankTransmit(u) = RankTransmit(t)
    BY <1>8, <2>3, SameRanks DEF Muxed
  <2> QED  BY <2>3, <2>8, <2>9
<1>13. Phase(p, r)
  <2>1. r.sent = s.sent
    BY <1>5, <1>6 DEF Frame
  <2>2. s.sent # <<>> => Late(p, s) /\ ~t.ntt /\ Len(s.sent) = 1
    BY <1>1, <1>2 DEF Phase
  <2>3. r.sent # <<>> => Late(p, r) /\ ~u.ntt /\ Len(r.sent) = 1
    BY <1>12, <2>1, <2>2
  <2>4. u.select = "SELECTED" => u.selected
    BY <1>1, <1>11
  <2> QED  BY <1>6, <1>7, <1>11, <2>3, <2>4 DEF Phase
<1>14. RankMux(u) < RankMux(t)
  BY <1>1, <1>8, MuxDown
<1>15. Rank(p, r) < Rank(p, s)
  <2>1. RankPeriodic(t) \in 0..3 /\ RankMux(u) \in 0..7 /\ RankMux(t) \in 0..7
    BY RankBounds
  <2>2. /\ RankPeriodic(u) <= RankPeriodic(t) /\ RankMux(u) <= RankMux(t)
        /\ RankPeriodic(u) + RankMux(u) < RankPeriodic(t) + RankMux(t)
    BY <1>11, <1>14, <2>1
  <2>3. r.at[1] # 1
    BY <1>6
  <2> QED  BY ONLY <1>1, <1>7, <1>12, <2>2, <2>3, RankFalls
<1>16. Running(p, r)
  BY <1>2, <1>1, <1>6, <1>9, <1>10, <1>13 DEF Running, OnlyRuns, SameBase
<1> QED  BY <1>9, <1>15, <1>16

(* The transmit machine runs when the others but the selection logic rest: *)
(* a frame is sent once.                                                   *)
LEMMA StepTransmit ==
  ASSUME NEW p \in Ports, NEW s, Running(p, s), NEW q \in Range(TransmitStates),
         TransmitCond(q, s.port[p]), NEW n \in 1..5, NEW r,
         r = [EnterTransmit(q, p, s) EXCEPT !.at = <<5, n>>], Late(p, s)
  PROVE  Running(p, r) /\ Rank(p, r) < Rank(p, s) /\ OnlyRuns(p, s, r)
<1>1. PICK t \in PortType : t = s.port[p]
  BY DEF Running, Good, RunType
<1>2. Good(s) /\ Stocked(s) /\ Phase(p, s) /\ t.present
  BY <1>1 DEF Running
<1>3. PICK w : w = EnterTransmit(q, p, s)
  OBVIOUS
<1>4. q = "TX" => t.pkt_sent < RateLimit /\ t.ntt
  BY <1>1 DEF TransmitCond
<1>5. /\ Good(w) /\ w.agg = s.agg /\ (\A o \in Ports \ {p} : w.port[o] = s.port[o])
      /\ Spoke(q, t, w.port[p]) /\ Len(w.sent) = Len(s.sent) + (IF q = "TX" THEN 1 ELSE 0)
  <2>1. q = "TX" => s.port[p].pkt_sent < RateLimit
    BY <1>1, <1>4
  <2>2. /\ Good(w) /\ w.agg = s.agg /\ (\A o \in Ports \ {p} : w.port[o] = s.port[o])
        /\ Spoke(q, s.port[p], w.port[p])
        /\ Len(w.sent) = Len(s.sent) + (IF q = "TX" THEN 1 ELSE 0)
    BY ONLY <1>2, <1>3, <2>1, TransmitGood, ZenonT(90)
  <2> QED  BY ONLY <1>1, <2>2
<1>6. Good(r) /\ r.port = w.port /\ r.agg = w.agg /\ r.sent = w.sent /\ r.at[1] = 5
  BY <1>3, <1>5, AtSet
<1>7. PICK u \in PortType : u = r.port[p]
  BY <1>6 DEF Good, RunType
<1>8. Spoke(q, t, u) /\ r.agg = s.agg
  BY <1>5, <1>6, <1>7
<1>9. OnlyRuns(p, s, r)
  <2>1. StaysBound(t, u)
    BY <1>8, BoundSame DEF Spoke, SameSelect
  <2> QED  BY <1>1, <1>5, <1>6, <1>7, <2>1 DEF OnlyRuns, Spoke
<1>10. Stocked(r)
  <2>1. r.port[p].present = s.port[p].present /\ r.port[p].id = s.port[p].id
    BY <1>1, <1>7, <1>8 DEF Spoke, SameBase, SameSelect
  <2>2. \A o \in Ports \ {p} : r.port[o] = s.port[o]
    BY <1>9 DEF OnlyRuns
  <2> QED  BY ONLY <1>2, <2>1, <2>2, StockedKept
<1>11. /\ StuckReceive(t) => StuckReceive(u)
       /\ StuckPeriodic(t) => StuckPeriodic(u)
       /\ RankPeriodic(u) = RankPeriodic(t) /\ RankMux(u) = RankMux(t)
  BY <1>8, SameRanks DEF Spoke
<1>12. Late(p, r)
  <2>1. /\ u.select = t.select /\ u.selected = t.selected /\ u.id = t.id /\ u.mux = t.mux
        /\ u.partner = t.partner
    BY <1>8 DEF Spoke, SameSelect, SameMux, SameRecv
  <2>2. StuckMux(p, s) => StuckMux(p, r)
    BY <1>1, <1>7, <1>8, <2>1 DEF StuckMux, MuxCond
  <2> QED  BY <1>1, <1>7, <1>11, <2>1, <2>2 DEF Late
<1>13. Phase(p, r)
  <2>1. s.sent \in Seq(PduType) /\ r.sent \in Seq(PduType)
    BY <1>2, <1>6 DEF Good, RunType
  <2>2. s.sent # <<>> => ~t.ntt /\ Len(s.sent) = 1
    BY <1>1, <1>2 DEF Phase
  <2>3. Len(r.sent) = Len(s.sent) + (IF q = "TX" THEN 1 ELSE 0)
    BY <1>5, <1>6
  <2>4. r.sent # <<>> => ~u.ntt /\ Len(r.sent) = 1
    <3>1. CASE q = "TX"
      <4>1. s.sent = <<>>
        BY <1>4, <2>2, <3>1
      <4> QED  BY <1>8, <2>3, <3>1, <4>1 DEF Spoke
    <3>2. CASE q # "TX"
      <4>1. Len(r.sent) = Len(s.sent)
        BY <2>1, <2>3, <3>2
      <4>2. r.sent # <<>> => s.sent # <<>>
        BY <2>1, <4>1
      <4> QED  BY <1>8, <2>2, <4>1, <4>2 DEF Spoke
    <3> QED  BY <3>1, <3>2
  <2> QED  BY <1>6, <1>7, <1>12, <2>4 DEF Phase, Late
<1>14. RankTransmit(u) < RankTransmit(t)
  BY <1>1, <1>8, TransmitDown
<1>15. Rank(p, r) < Rank(p, s)
  <2>1. RankPeriodic(t) \in 0..3 /\ RankMux(u) \in 0..7 /\ RankMux(t) \in 0..7
    BY RankBounds
  <2>2. RankPeriodic(u) <= RankPeriodic(t) /\ RankMux(u) <= RankMux(t)
    BY <1>11, <2>1
  <2>3. r.at[1] # 1 /\ Late(p, s)
    BY <1>6
  <2> QED  BY ONLY <1>1, <1>7, <1>12, <1>14, <2>2, <2>3, RankFalls
<1>16. Running(p, r)
  BY <1>2, <1>1, <1>6, <1>9, <1>10, <1>13 DEF Running, OnlyRuns, SameBase
<1> QED  BY <1>9, <1>15, <1>16

(* A step of a run leads on, with fewer steps to go. *)
LEMMA RunStep ==
  ASSUME NEW p \in Ports, NEW s, Running(p, s), Entries(p, s) # {}, NEW r, r = ChangeToState(p, s)
  PROVE  Running(p, r) /\ Rank(p, r) < Rank(p, s) /\ OnlyRuns(p, s, r)
<1>1. s.at \in (0..5) \X (0..5) /\ s.at[1] \in 1..5
  BY DEF Running, Good, Phase, RunType
<1>2. PICK e \in AllStates :
        /\ Cond(e[3], e[4], p, s)
        /\ r = [Enter(e[3], e[4], p, s) EXCEPT !.at = <<e[1], e[2]>>]
        /\ \A y \in AllStates : s.at[1] <= y[1] /\ y[1] < e[1] => ~Cond(y[3], y[4], p, s)
  BY ONLY <1>1, Entries(p, s) # {}, r = ChangeToState(p, s), NextEntered
<1>3. PICK a, m, n, q : a = s.at[1] /\ m = e[1] /\ n = e[2] /\ q = e[4]
  OBVIOUS
<1>4. PICK t \in PortType : t = s.port[p]
  BY DEF Running, Good, RunType
<1>5. /\ m \in 1..5 /\ n \in 1..5 /\ a \in 1..5
      /\ m = 1 => e[3] = "receive" /\ q \in Range(ReceiveStates)
      /\ m = 2 => e[3] = "periodic" /\ q \in Range(PeriodicStates)
      /\ m = 3 => e[3] = "select" /\ q \in Range(SelectStates)
      /\ m = 4 => e[3] = "mux" /\ q \in Range(MuxStates)
      /\ m = 5 => e[3] = "transmit" /\ q \in Range(TransmitStates)
  BY <1>1, <1>3, StatesOf
<1>6. /\ a <= 1 /\ 1 < m => StuckReceive(t)
      /\ a <= 2 /\ 2 < m => StuckPeriodic(t)
      /\ a <= 3 /\ 3 < m => StuckSelect(t)
      /\ a <= 4 /\ 4 < m => StuckMux(p, s)
  <2>1. ASSUME NEW y \in AllStates, a <= y[1], y[1] < m
        PROVE  ~Cond(y[3], y[4], p, s)
    BY <1>2, <1>3, <2>1
  <2>2. ASSUME a <= 1, 1 < m  PROVE StuckReceive(t)
    <3> SUFFICES ASSUME NEW x \in Range(ReceiveStates)  PROVE ~ReceiveCond(x, t)
      BY DEF StuckReceive
    <3>1. PICK y \in AllStates : y[1] = 1 /\ y[3] = "receive" /\ y[4] = x
      BY StateAt
    <3>2. ~Cond("receive", x, p, s)
      BY <2>1, <2>2, <3>1
    <3> QED  BY <1>4, <3>2 DEF Cond
  <2>3. ASSUME a <= 2, 2 < m  PROVE StuckPeriodic(t)
    <3> SUFFICES ASSUME NEW x \in Range(PeriodicStates)  PROVE ~PeriodicCond(x, t)
      BY DEF StuckPeriodic
    <3>1. PICK y \in AllStates : y[1] = 2 /\ y[3] = "periodic" /\ y[4] = x
      BY StateAt
    <3>2. ~Cond("periodic", x, p, s)
      BY <2>1, <2>3, <3>1
    <3> QED  BY <1>4, <3>2 DEF Cond
  <2>4. ASSUME a <= 3, 3 < m  PROVE StuckSelect(t)
    <3> SUFFICES ASSUME NEW x \in Range(SelectStates)  PROVE ~SelectCond(x, t)
      BY DEF StuckSelect
    <3>1. PICK y \in AllStates : y[1] = 3 /\ y[3] = "select" /\ y[4] = x
      BY StateAt
    <3>2. ~Cond("select", x, p, s)
      BY <2>1, <2>4, <3>1
    <3> QED  BY <1>4, <3>2 DEF Cond
  <2>5. ASSUME a <= 4, 4 < m  PROVE StuckMux(p, s)
    <3> SUFFICES ASSUME NEW x \in Range(MuxStates)  PROVE ~MuxCond(x, p, s)
      BY DEF StuckMux
    <3>1. PICK y \in AllStates : y[1] = 4 /\ y[3] = "mux" /\ y[4] = x
      BY StateAt
    <3>2. ~Cond("mux", x, p, s)
      BY <2>1, <2>5, <3>1
    <3> QED  BY <3>2 DEF Cond
  <2> QED  BY <2>2, <2>3, <2>4, <2>5
<1>7. /\ a # 1 => StuckReceive(t)
      /\ a \notin {1, 2} => StuckPeriodic(t)
      /\ a = 4 => (t.select = "SELECTED" => t.selected)
      /\ a = 5 => Late(p, s)
  BY <1>3, <1>4 DEF Running, Phase
<1>8. StuckSelect(t) => (t.select = "SELECTED" => t.selected)
  BY StateSets DEF StuckSelect, SelectCond
<1>9. CASE m = 1
  <2>1. ReceiveCond(q, s.port[p]) /\ r = [EnterReceive(q, p, s) EXCEPT !.at = <<1, n>>]
    BY <1>2, <1>3, <1>5, <1>9 DEF Cond, Enter
  <2> QED  BY ONLY Running(p, s), <1>5, <1>9, <2>1, StepReceive
<1>10. CASE m = 2
  <2>1. PeriodicCond(q, s.port[p]) /\ r = [EnterPeriodic(q, p, s) EXCEPT !.at = <<2, n>>]
    BY <1>2, <1>3, <1>5, <1>10 DEF Cond, Enter
  <2>2. StuckReceive(s.port[p])
    BY <1>4, <1>5, <1>6, <1>7, <1>10
  <2> QED  BY ONLY Running(p, s), <1>5, <1>10, <2>1, <2>2, StepPeriodic
<1>11. CASE m = 3
  <2>1. SelectCond(q, s.port[p]) /\ r = [EnterSelect(q, p, s) EXCEPT !.at = <<3, n>>]
    BY <1>2, <1>3, <1>5, <1>11 DEF Cond, Enter
  <2>2. StuckReceive(s.port[p]) /\ StuckPeriodic(s.port[p])
    BY <1>4, <1>5, <1>6, <1>7, <1>11
  <2> QED  BY ONLY Running(p, s), <1>5, <1>11, <2>1, <2>2, StepSelect
<1>12. CASE m = 4
  <2>1. MuxCond(q, p, s) /\ r = [EnterMux(q, p, s) EXCEPT !.at = <<4, n>>]
    BY <1>2, <1>3, <1>5, <1>12 DEF Cond, Enter
  <2>2. StuckReceive(s.port[p]) /\ StuckPeriodic(s.port[p])
    BY <1>4, <1>5, <1>6, <1>7, <1>12
  <2>3. s.port[p].select = "SELECTED" => s.port[p].selected
    <3>1. CASE a = 5
      BY <1>7, <3>1 DEF Late
    <3>2. CASE a = 4
      BY <1>4, <1>7, <3>2
    <3>3. CASE a \in 1..3
      BY <1>4, <1>6, <1>8, <1>12, <3>3
    <3> QED  BY <1>5, <3>1, <3>2, <3>3
  <2> QED  BY ONLY Running(p, s), <1>5, <1>12, <2>1, <2>2, <2>3, StepMux
<1>13. CASE m = 5
  <2>1. TransmitCond(q, s.port[p]) /\ r = [EnterTransmit(q, p, s) EXCEPT !.at = <<5, n>>]
    BY <1>2, <1>3, <1>5, <1>13 DEF Cond, Enter
  <2>2. CASE a = 5
    <3>1. Late(p, s)
      BY <1>7, <2>2
    <3> QED  BY ONLY Running(p, s), <1>5, <1>13, <2>1, <3>1, StepTransmit
  <2>3. CASE a # 5
    <3>1. StuckReceive(t) /\ StuckPeriodic(t) /\ StuckMux(p, s)
      BY <1>5, <1>6, <1>7, <1>13, <2>3
    <3>2. t.select = "SELECTED" => t.selected
      BY <1>5, <1>6, <1>7, <1>8, <1>13, <2>3
    <3>3. t.mux # "DETACHED" => t.selected
      BY <1>4, <3>1, StateSets, PortFields DEF StuckMux, MuxCond
    <3>4. Late(p, s)
      BY <1>4, <3>1, <3>2, <3>3 DEF Late
    <3> QED  BY ONLY Running(p, s), <1>5, <1>13, <2>1, <3>4, StepTransmit
  <2> QED  BY <2>2, <2>3
<1> QED  BY <1>5, <1>9, <1>10, <1>11, <1>12, <1>13

-----------------------------------------------------------------------------
(* A run *)

Onward(p, s) == IF s.at = AtEnd THEN s ELSE ChangeToState(p, s)

(* The states that a run has come to after each of k steps. *)
IsSteps(p, x, k, f) == f = [n \in 0..k |-> IF n = 0 THEN x ELSE Onward(p, f[n - 1])]

(* There is such a function, for any number of steps. *)
LEMMA StepsExist ==
  ASSUME NEW p \in Ports, NEW x
  PROVE  \A k \in Nat : \E f : IsSteps(p, x, k, f)
<1> DEFINE S == {k \in Nat : \E f : IsSteps(p, x, k, f)}
<1>1. 0 \in S
  <2>1. PICK f : f = [n \in 0..0 |-> x]
    OBVIOUS
  <2>2. f = [n \in 0..0 |-> IF n = 0 THEN x ELSE Onward(p, f[n - 1])]
    BY <2>1
  <2> QED  BY <2>2 DEF IsSteps
<1>2. ASSUME NEW k \in Nat, k \in S  PROVE k + 1 \in S
  <2>1. PICK f : f = [n \in 0..k |-> IF n = 0 THEN x ELSE Onward(p, f[n - 1])]
    BY <1>2 DEF IsSteps
  <2>2. PICK g : g = [n \in 0..(k + 1) |-> IF n = 0 THEN x ELSE Onward(p, f[n - 1])]
    OBVIOUS
  <2>3. ASSUME NEW n \in 0..k  PROVE g[n] = f[n]
    <3>1. n \in 0..(k + 1)
      OBVIOUS
    <3>2. g[n] = IF n = 0 THEN x ELSE Onward(p, f[n - 1])
      BY <2>2, <3>1
    <3>3. f[n] = IF n = 0 THEN x ELSE Onward(p, f[n - 1])
      BY <2>1
    <3> QED  BY <3>2, <3>3
  <2>4. ASSUME NEW n \in 0..(k + 1)
        PROVE  (IF n = 0 THEN x ELSE Onward(p, f[n - 1])) = (IF n = 0 THEN x ELSE Onward(p, g[n - 1]))
    <3>1. n # 0 => n - 1 \in 0..k
      OBVIOUS
    <3> QED  BY <2>3, <3>1
  <2>5. g = [n \in 0..(k + 1) |-> IF n = 0 THEN x ELSE Onward(p, g[n - 1])]
    BY <2>2, <2>4
  <2> QED  BY <2>5 DEF IsSteps
<1> HIDE DEF S
<1>3. Nat \subseteq S
  BY <1>1, <1>2, NatSetInduction
<1> QED  BY <1>3 DEF S

(* What a run leaves behind. *)
Ended(p, s) ==
  Good(s) /\ Stocked(s) /\ Rest(s.port[p]) /\ s.at = AtEnd /\ s.sent \in Seq(PduType) /\ Len(s.sent) <= 1

(* When no state can be entered, the run is over. *)
LEMMA RunOver ==
  ASSUME NEW p \in Ports, NEW s, Running(p, s), Entries(p, s) = {}, NEW r, r = ChangeToState(p, s)
  PROVE  Ended(p, r) /\ OnlyRuns(p, s, r)
<1>1. PICK t \in PortType : t = s.port[p]
  BY DEF Running, Good, RunType
<1>2. Good(s) /\ Stocked(s) /\ Phase(p, s)
  BY DEF Running
<1>3. r = [s EXCEPT !.at = <<0, 0>>]
  BY DEF ChangeToState, AtEnd
<1>4. /\ Good(r) /\ r.port = s.port /\ r.agg = s.agg /\ r.sent = s.sent /\ r.at = AtEnd
  BY <1>2, <1>3, AtSet DEF AtEnd
<1>5. \A e \in AllStates : ~Cond(e[3], e[4], p, s)
  BY DEF Entries
<1>6. ASSUME NEW q \in Range(SelectStates)  PROVE ~SelectCond(q, t)
  <2>1. PICK e \in AllStates : e[1] = 3 /\ e[3] = "select" /\ e[4] = q
    BY StateAt
  <2>2. ~Cond("select", q, p, s)
    BY <1>5, <2>1
  <2> QED  BY <1>1, <2>2 DEF Cond
<1>7. ASSUME NEW q \in Range(MuxStates)  PROVE ~MuxCond(q, p, s)
  <2>1. PICK e \in AllStates : e[1] = 4 /\ e[3] = "mux" /\ e[4] = q
    BY StateAt
  <2>2. ~Cond("mux", q, p, s)
    BY <1>5, <2>1
  <2> QED  BY <2>2 DEF Cond
<1>8. Rest(t)
  <2>1. ~SelectCond("UNSELECTED", t) /\ ~MuxCond("ATTACHED", p, s)
    BY <1>6, <1>7, StateSets
  <2> QED  BY <1>1, <2>1 DEF Rest, SelectCond, MuxCond
<1>9. r.sent \in Seq(PduType) /\ Len(r.sent) <= 1
  <2>1. s.sent \in Seq(PduType) /\ (s.sent # <<>> => Len(s.sent) = 1)
    BY <1>2 DEF Good, RunType, Phase
  <2>2. s.sent = <<>> => Len(s.sent) = 0
    OBVIOUS
  <2>3. PICK l : l = Len(s.sent)
    OBVIOUS
  <2>4. l = 0 \/ l = 1
    BY <2>1, <2>2, <2>3
  <2>5. l <= 1
    BY ONLY <2>4
  <2> QED  BY <1>4, <2>1, <2>3, <2>5
<1>10. Stocked(r)
  BY <1>2, <1>4 DEF Stocked, Counted, Listed
<1> QED  BY <1>1, <1>4, <1>8, <1>9, <1>10 DEF Ended, OnlyRuns, SameBase, StaysBound

(* Touching only the port is transitive. *)
LEMMA OnlyRunsTwice ==
  ASSUME NEW p, NEW s, NEW w, NEW r, OnlyRuns(p, s, w), OnlyRuns(p, w, r)
  PROVE  OnlyRuns(p, s, r)
  BY DEF OnlyRuns, SameBase, StaysBound

(* fsm_runner_run() comes to an end, and leaves everything in order: at    *)
(* most 18 states are entered.                                             *)
LEMMA RunResult ==
  ASSUME NEW p \in Ports, Good(Now), Stocked(Now), port[p].present
  PROVE  Ended(p, RunOf(p)) /\ OnlyRuns(p, Now, RunOf(p))
<1>1. PICK x : x = Now
  OBVIOUS
<1>2. x.port = port /\ x.agg = agg /\ x.sent = <<>> /\ x.at = <<1, 0>> /\ x.at[1] = 1
  BY <1>1 DEF Now
<1>3. Running(p, x)
  <2>1. Phase(p, x)
    BY <1>2 DEF Phase
  <2> QED  BY <1>1, <1>2, <2>1 DEF Running
<1>4. Rank(p, x) <= 18 /\ Rank(p, x) \in Nat
  <2>1. PICK t \in PortType : t = x.port[p]
    BY <1>3 DEF Running, Good, RunType
  <2>2. RankReceive(t) \in 0..3 /\ Rank(p, x) = 15 + RankReceive(t)
    BY <1>2, <2>1, RankBounds DEF Rank
  <2> QED  BY <2>2
<1>5. RunBound \in Nat /\ RunBound >= 20
  BY NumberAssumption
<1>6. PICK f : /\ f = [n \in 0..RunBound |-> IF n = 0 THEN x ELSE Onward(p, f[n - 1])]
               /\ RunOf(p) = f[RunBound]
  <2>1. PICK g : IsSteps(p, x, RunBound, g)
    BY <1>5, StepsExist
  <2>2. \E h : h = [n \in 0..RunBound |->
                      IF n = 0 THEN Now
                      ELSE IF h[n - 1].at = AtEnd THEN h[n - 1] ELSE ChangeToState(p, h[n - 1])]
    BY <1>1, <2>1 DEF IsSteps, Onward
  <2> QED  BY <1>1, <2>2 DEF RunOf, Onward
<1> DEFINE Fine(n) == /\ OnlyRuns(p, x, f[n])
                      /\ \/ Ended(p, f[n])
                         \/ Running(p, f[n]) /\ Rank(p, f[n]) \in Nat /\ Rank(p, f[n]) + n <= 18
           S == {n \in Nat : n <= RunBound => Fine(n)}
<1>7. 0 \in S
  <2>1. f[0] = x
    BY <1>5, <1>6
  <2>2. OnlyRuns(p, x, x)
    BY DEF OnlyRuns, SameBase, StaysBound
  <2> QED  BY <1>3, <1>4, <2>1, <2>2
<1>8. ASSUME NEW n \in Nat, n \in S  PROVE n + 1 \in S
  <2> SUFFICES ASSUME n + 1 <= RunBound  PROVE Fine(n + 1)
    OBVIOUS
  <2>1. Fine(n)
    BY <1>5, <1>8
  <2>2. PICK s, r : s = f[n] /\ r = f[n + 1]
    OBVIOUS
  <2>3. n + 1 \in 0..RunBound /\ n + 1 # 0 /\ (n + 1) - 1 = n
    BY <1>5
  <2>4. r = Onward(p, s)
    BY <1>6, <2>2, <2>3
  <2>5. CASE Ended(p, s)
    <3>1. r = s
      BY <2>4, <2>5 DEF Onward, Ended
    <3> QED  BY <2>1, <2>2, <2>5, <3>1
  <2>6. CASE Running(p, s) /\ Rank(p, s) \in Nat /\ Rank(p, s) + n <= 18
    <3>1. s.at # AtEnd
      <4>1. s.at[1] \in 1..5
        BY <2>6 DEF Running, Phase
      <4>2. AtEnd[1] = 0
        BY DEF AtEnd
      <4> QED  BY <4>1, <4>2
    <3>2. r = ChangeToState(p, s)
      BY <2>4, <3>1 DEF Onward
    <3>3. CASE Entries(p, s) = {}
      <4>1. Ended(p, r) /\ OnlyRuns(p, s, r)
        BY <2>6, <3>2, <3>3, RunOver
      <4>2. OnlyRuns(p, x, r)
        BY <2>1, <2>2, <4>1, OnlyRunsTwice
      <4> QED  BY <2>2, <4>1, <4>2
    <3>4. CASE Entries(p, s) # {}
      <4>1. Running(p, r) /\ Rank(p, r) < Rank(p, s) /\ OnlyRuns(p, s, r)
        BY <2>6, <3>2, <3>4, RunStep
      <4>2. OnlyRuns(p, x, r)
        BY <2>1, <2>2, <4>1, OnlyRunsTwice
      <4>3. Rank(p, r) \in Nat
        <5>1. PICK t \in PortType : t = r.port[p]
          BY <4>1 DEF Running, Good, RunType
        <5>2. /\ RankReceive(t) \in 0..3 /\ RankPeriodic(t) \in 0..3 /\ RankMux(t) \in 0..7
              /\ RankTransmit(t) \in 0..3
          BY RankBounds
        <5> QED  BY <5>1, <5>2 DEF Rank
      <4>4. Rank(p, r) + (n + 1) <= 18
        BY <2>6, <4>1, <4>3
      <4> QED  BY <2>2, <4>1, <4>2, <4>3, <4>4
    <3> QED  BY <3>3, <3>4
  <2> QED  BY <2>1, <2>2, <2>5, <2>6
<1>9. Fine(RunBound)
  <2> HIDE DEF Fine
  <2>1. Nat \subseteq S
    <3> HIDE DEF S
    <3> QED  BY <1>7, <1>8, NatSetInduction
  <2> QED  BY <1>5, <2>1
<1>10. Ended(p, f[RunBound])
  <2>1. CASE Ended(p, f[RunBound])
    BY <2>1
  <2>2. CASE Rank(p, f[RunBound]) \in Nat /\ Rank(p, f[RunBound]) + RunBound <= 18
    BY <1>5, <2>2
  <2> QED  BY <1>9, <2>1, <2>2
<1> QED  BY <1>1, <1>6, <1>9, <1>10

-----------------------------------------------------------------------------
(* The steps of the daemon *)

(* What a step has put in order is in order between steps, whatever it    *)
(* has noted of frames and of the state it came from.                     *)
LEMMA GoodView ==
  ASSUME NEW r, Good(r), NEW n \in RunType, n.port = r.port, n.agg = r.agg
  PROVE  Good(n)
  BY DEF Good, Agree, Exact, Alone, Matched

(* A step that leaves the aggregators there are and the ports there are. *)
LEMMA Resumed ==
  ASSUME IInv, NEW r, Good(r), port' = r.port, agg' = r.agg, \A o \in Ports : Rest(r.port[o]),
         \A o \in Ports : r.port[o].present = port[o].present,
         Listed(r), list' = list, faults' \in 0..MaxFaults
  PROVE  IInv'
<1>1. PICK n : n = Now'
  OBVIOUS
<1>2. n.port = r.port /\ n.agg = r.agg /\ n.port = port'
  BY <1>1 DEF Now
<1>3. n \in RunType
  <2>1. n = [port |-> r.port, agg |-> r.agg, sent |-> <<>>, at |-> <<1, 0>>]
    BY <1>1 DEF Now
  <2>2. r.port \in [Ports -> PortType] /\ r.agg \in [Ids -> AggType]
    BY DEF Good, RunType
  <2>3. << >> \in Seq(PduType) /\ <<1, 0>> \in (0..5) \X (0..5)
    OBVIOUS
  <2> QED  BY <2>1, <2>2, <2>3 DEF RunType
<1>4. Good(n)
  BY <1>2, <1>3, GoodView
<1>5. Good(Now)' /\ \A o \in Ports : Rest(port[o])'
  BY <1>1, <1>2, <1>4
<1>6. ASSUME NEW y \in Systems
      PROVE  {o \in Ports : port'[o].present /\ SystemOf[o] = y}
               = {o \in Ports : port[o].present /\ SystemOf[o] = y}
  BY <1>2
<1>7. Counted(Now)'
  BY <1>2, <1>6 DEF IInv, Stocked, Counted, Now
<1>8. Listed(Now)'
  BY <1>2 DEF Listed, Now
<1>9. Stocked(Now)'
  BY <1>7, <1>8 DEF IInv, Stocked, Distinct
<1>10. Used' = Used /\ Present' = Present
  BY <1>2 DEF Used, Present
<1> QED  BY <1>5, <1>9, <1>10 DEF IInv

(* A step of one port, that may leave its aggregator. *)
LEMMA PortStep ==
  ASSUME IInv, NEW p \in Ports, NEW r, Good(r), \A o \in Ports \ {p} : r.port[o] = port[o],
         Rest(r.port[p]), r.port[p].present = port[p].present,
         r.port[p].id = port[p].id \/ r.port[p].id = NoId,
         port' = r.port, agg' = r.agg, list' = list, faults' \in 0..MaxFaults
  PROVE  IInv'
<1>1. \A o \in Ports : Rest(r.port[o]) /\ r.port[o].present = port[o].present
  BY DEF IInv
<1>2. Listed(r)
  <2>1. Listed(Now)
    BY DEF IInv, Stocked
  <2> QED  BY <2>1 DEF Listed, Now
<1> QED  BY <1>1, <1>2, Resumed

(* A step that writes fields of a port that do not matter to the others,   *)
(* nor to where it stands.                                                 *)
LEMMA FieldStep ==
  ASSUME IInv, NEW p \in Ports, NEW u \in PortType, NEW t, t = port[p],
         SameBase(t, u) \/ (~u.initialized /\ u.present = t.present),
         SameSelect(t, u), u.mux = t.mux, u.slave = t.slave, u.distributing = t.distributing,
         u.ready_N = t.ready_N, u.recv = t.recv, u.partner = t.partner,
         port' = [port EXCEPT ![p] = u], agg' = agg, list' = list, faults' \in 0..MaxFaults
  PROVE  IInv'
<1>1. Good(Now) /\ Rest(t) /\ Now.port = port /\ Now.agg = agg /\ Now \in RunType
  BY DEF IInv, Now, Good
<1>2. PICK r : r = PutPort(Now, p, u)
  OBVIOUS
<1>3. r \in RunType /\ r.port[p] = u /\ r.agg = agg /\ \A o \in Ports \ {p} : r.port[o] = port[o]
  BY ONLY u \in PortType, p \in Ports, <1>1, <1>2, PortSet
<1>4. r.port = port'
  BY <1>1, <1>2 DEF PutPort, RunType
<1>5. PortInv(t)
  BY <1>1 DEF Good
<1>6. PortInv(u)
  BY <1>5 DEF PortInv, SameBase, SameSelect
<1>7. /\ u.id = t.id
      /\ u.initialized /\ u.selected =>
           /\ t.initialized /\ t.selected /\ u.key = t.key /\ u.aggregation = t.aggregation
           /\ SameIdentity(u.partner, t.partner)
  BY DEF SameBase, SameSelect, SameIdentity
<1>8. Good(r)
  BY <1>1, <1>3, <1>6, <1>7, GoodKept
<1>9. Rest(u)
  BY <1>1 DEF Rest, SameSelect
<1>10. u.present = t.present
  BY DEF SameBase
<1> QED  BY <1>3, <1>4, <1>7, <1>8, <1>9, <1>10, PortStep

(* A port, and what is known of it between runs. *)
LEMMA AtPort ==
  ASSUME IInv, NEW p \in Ports
  PROVE  /\ port \in [Ports -> PortType] /\ agg \in [Ids -> AggType]
         /\ port[p] \in PortType /\ PortInv(port[p]) /\ Rest(port[p])
<1>1. Good(Now) /\ Now.port = port /\ Now.agg = agg /\ Rest(port[p])
  BY DEF IInv, Now
<1>2. Now \in RunType /\ PortInv(port[p])
  BY <1>1 DEF Good
<1> QED  BY <1>1, <1>2 DEF RunType

(* The faults stay within their bound. *)
LEMMA FaultCounted ==
  ASSUME IInv, (\E p \in Ports : Fault(p)) \/ UNCHANGED faults
  PROVE  faults' \in 0..MaxFaults
<1>1. faults \in 0..MaxFaults /\ MaxFaults \in Nat
  BY NumberAssumption DEF IInv
<1> QED  BY <1>1 DEF Fault

(* The fields of the receive machine, of which a step writes one. *)
LEMMA ReceiveFieldStep ==
  ASSUME IInv, NEW p \in Ports, NEW c \in BOOLEAN, NEW m \in PduType \cup {NoPdu}, NEW t, t = port[p],
         NEW u, u = ReceiveField(t, t.recv, t.selected, t.ntt, t.partner, c, m),
         port' = [port EXCEPT ![p] = u], agg' = agg, list' = list, faults' \in 0..MaxFaults
  PROVE  IInv'
<1>1. t \in PortType
  BY AtPort
<1>2. /\ t.recv \in Range(ReceiveStates) /\ t.selected \in BOOLEAN /\ t.ntt \in BOOLEAN
      /\ t.partner \in InfoType
  BY <1>1, PortFields
<1>3. /\ u \in PortType /\ u.recv = t.recv /\ u.selected = t.selected /\ u.partner = t.partner
      /\ SameBase(t, u) /\ SameMux(t, u) /\ u.select = t.select /\ u.id = t.id
  BY ONLY <1>1, <1>2, c \in BOOLEAN, m \in PduType \cup {NoPdu}, ReceiveSet,
          u = ReceiveField(t, t.recv, t.selected, t.ntt, t.partner, c, m)
<1> QED  BY <1>3, FieldStep DEF SameSelect, SameMux

(* The current_while timer expires. *)
LEMMA CurrentWhileStep ==
  ASSUME IInv, NEW p \in Ports, CurrentWhileExpires(p)
  PROVE  IInv'
<1>1. PICK t : t = port[p]
  OBVIOUS
<1>2. t \in PortType /\ port \in [Ports -> PortType]
  BY <1>1, AtPort
<1>3. PICK u : u = ReceiveField(t, t.recv, t.selected, t.ntt, t.partner, FALSE, t.message)
  OBVIOUS
<1>4. u = [t EXCEPT !.current_while = FALSE]
  BY <1>2, <1>3 DEF ReceiveField, PortType
<1>5. port' = [port EXCEPT ![p] = u]
  BY <1>1, <1>2, <1>4 DEF CurrentWhileExpires
<1>6. faults' \in 0..MaxFaults
  BY FaultCounted DEF CurrentWhileExpires
<1>7. t.message \in PduType \cup {NoPdu}
  BY <1>2, PortFields
<1>8. agg' = agg /\ list' = list
  BY DEF CurrentWhileExpires
<1> QED  BY <1>1, <1>3, <1>5, <1>6, <1>7, <1>8, ReceiveFieldStep

(* A frame of a partner that is not modelled arrives. *)
LEMMA ForeignStep ==
  ASSUME IInv, NEW p \in Ports, ForeignPdu(p)
  PROVE  IInv'
<1>0. PICK m \in Foreign(p, port[p].number) \cup {NoPdu} : port' = [port EXCEPT ![p].message = m]
  BY DEF ForeignPdu
<1>1. PICK t : t = port[p]
  OBVIOUS
<1>2. t \in PortType /\ port \in [Ports -> PortType]
  BY <1>1, AtPort
<1>3. PICK u : u = ReceiveField(t, t.recv, t.selected, t.ntt, t.partner, t.current_while, m)
  OBVIOUS
<1>4. u = [t EXCEPT !.message = m]
  BY <1>2, <1>3 DEF ReceiveField, PortType
<1>5. port' = [port EXCEPT ![p] = u]
  BY <1>0, <1>1, <1>2, <1>4
<1>6. faults' \in 0..MaxFaults
  BY FaultCounted DEF ForeignPdu
<1>7. m \in PduType \cup {NoPdu} /\ t.current_while \in BOOLEAN
  <2>1. t.number \in 0..MaxNumber /\ t.current_while \in BOOLEAN
    BY <1>2, PortFields
  <2> QED  BY <1>1, <2>1, ForeignAssumption
<1>8. agg' = agg /\ list' = list
  BY DEF ForeignPdu
<1> QED  BY <1>1, <1>3, <1>5, <1>6, <1>7, <1>8, ReceiveFieldStep

(* A step that only moves frames. *)
LEMMA Unmoved ==
  ASSUME IInv, UNCHANGED <<port, agg, list>>, faults' \in 0..MaxFaults
  PROVE  IInv'
<1>1. Now' = Now /\ Used' = Used /\ Present' = Present
  BY DEF Now, Used, Present
<1>2. Stocked(Now)'
  BY <1>1 DEF IInv, Stocked, Distinct, Counted, Listed, Now
<1>3. Good(Now)' /\ \A o \in Ports : Rest(port[o])'
  BY <1>1 DEF IInv
<1> QED  BY <1>1, <1>2, <1>3 DEF IInv

(* A frame is read, and waits for the port to look at it. *)
LEMMA ReceiveStep ==
  ASSUME IInv, Framed, NEW p \in Ports, Receive(p)
  PROVE  IInv'
<1>1. PICK t : t = port[p]
  OBVIOUS
<1>2. t \in PortType /\ port \in [Ports -> PortType]
  BY <1>1, AtPort
<1>3. PICK m \in PduType : m = Head(wire[p])
  <2>1. wire[p] \in Seq(PduType) /\ wire[p] # <<>>
    BY DEF Framed, Receive
  <2> QED  BY <2>1
<1>4. faults' \in 0..MaxFaults /\ agg' = agg /\ list' = list
  BY FaultCounted DEF Receive
<1>5. CASE t.present
  <2>1. PICK u : u = ReceiveField(t, t.recv, t.selected, t.ntt, t.partner, t.current_while, m)
    OBVIOUS
  <2>2. u = [t EXCEPT !.message = m]
    BY <1>2, <2>1 DEF ReceiveField, PortType
  <2>3. port' = [port EXCEPT ![p] = u]
    BY <1>1, <1>2, <1>3, <1>5, <2>2 DEF Receive
  <2>4. m \in PduType \cup {NoPdu} /\ t.current_while \in BOOLEAN
    BY <1>2, PortFields
  <2> QED  BY <1>1, <1>4, <2>1, <2>3, <2>4, ReceiveFieldStep
<1>6. CASE ~t.present
  <2>1. port' = port
    BY <1>1, <1>6 DEF Receive
  <2> QED  BY <1>4, <2>1, Unmoved
<1> QED  BY <1>5, <1>6

(* A frame is lost. *)
LEMMA LoseStep ==
  ASSUME IInv, NEW p \in Ports, Lose(p)
  PROVE  IInv'
<1>1. (\E o \in Ports : Fault(o)) \/ UNCHANGED faults
  <2>1. Fault(Peer[p]) => Peer[p] \in Ports
    BY TopologyAssumption DEF Fault
  <2> QED  BY <2>1 DEF Lose
<1>2. faults' \in 0..MaxFaults
  BY <1>1, FaultCounted
<1> QED  BY <1>2, Unmoved DEF Lose

(* The periodic timer expires. *)
LEMMA PeriodicStep ==
  ASSUME IInv, NEW p \in Ports, PeriodicExpires(p)
  PROVE  IInv'
<1>1. PICK t : t = port[p]
  OBVIOUS
<1>2. t \in PortType /\ port \in [Ports -> PortType]
  BY <1>1, AtPort
<1>3. PICK u : u = PeriodicField(t, t.periodic, FALSE, t.ntt)
  OBVIOUS
<1>4. u = [t EXCEPT !.periodic_timer = FALSE]
  BY <1>2, <1>3 DEF PeriodicField, PortType
<1>5. port' = [port EXCEPT ![p] = u]
  BY <1>1, <1>2, <1>4 DEF PeriodicExpires
<1>6. faults' \in 0..MaxFaults
  BY FaultCounted DEF PeriodicExpires
<1>7. t.periodic \in Range(PeriodicStates) /\ t.ntt \in BOOLEAN
  BY <1>2, PortFields
<1>8. agg' = agg /\ list' = list
  BY DEF PeriodicExpires
<1>9. u \in PortType /\ SameBase(t, u) /\ SameRecv(t, u) /\ SameSelect(t, u) /\ SameMux(t, u)
  BY ONLY <1>2, <1>3, <1>7, PeriodicSet
<1> QED  BY <1>1, <1>5, <1>6, <1>8, <1>9, FieldStep DEF SameMux, SameRecv

(* The rate limit timer lets the port send again. *)
LEMMA RateStep ==
  ASSUME IInv, NEW p \in Ports, RateTimer(p)
  PROVE  IInv'
<1>1. PICK t : t = port[p]
  OBVIOUS
<1>2. t \in PortType /\ port \in [Ports -> PortType]
  BY <1>1, AtPort
<1>3. PICK u : u = TransmitField(t, t.transmit, 0, t.ntt)
  OBVIOUS
<1>4. u = [t EXCEPT !.pkt_sent = 0]
  BY <1>2, <1>3 DEF TransmitField, PortType
<1>5. port' = [port EXCEPT ![p] = u]
  BY <1>1, <1>2, <1>4 DEF RateTimer
<1>6. faults' \in 0..MaxFaults
  BY FaultCounted DEF RateTimer
<1>7. t.transmit \in Range(TransmitStates) /\ t.ntt \in BOOLEAN /\ 0 \in 0..RateLimit
  BY <1>2, PortFields, NumberAssumption
<1>8. agg' = agg /\ list' = list
  BY DEF RateTimer
<1>9. u \in PortType /\ SameBase(t, u) /\ SameRecv(t, u) /\ SameSelect(t, u) /\ SameMux(t, u)
  BY ONLY <1>2, <1>3, <1>7, TransmitSet
<1> QED  BY <1>1, <1>5, <1>6, <1>8, <1>9, FieldStep DEF SameMux, SameRecv

(* What the link says of itself, and what the first run sets last. *)
LinkField(t, i, x, k, d, q) ==
  [t EXCEPT !.initialized = i, !.port_enabled = x, !.key = k, !.aggregation = d, !.transmit = q]

(* They keep the other fields, and the type. *)
LEMMA LinkSet ==
  ASSUME NEW t \in PortType, NEW i \in BOOLEAN, NEW x \in BOOLEAN, NEW k \in Keys \cup {0},
         NEW d \in BOOLEAN, NEW q \in Range(TransmitStates)
  PROVE  LET u == LinkField(t, i, x, k, d, q) IN
         /\ u \in PortType
         /\ u.initialized = i /\ u.port_enabled = x /\ u.key = k /\ u.aggregation = d
         /\ u.transmit = q /\ u.present = t.present
         /\ SameRecv(t, u) /\ SamePeriodic(t, u) /\ SameSelect(t, u) /\ SameMux(t, u)
<1>0. PICK u : u = LinkField(t, i, x, k, d, q)
  OBVIOUS
<1>1. u = [present |-> t.present, number |-> t.number, port_enabled |-> x,
          initialized |-> i, recv |-> t.recv, periodic |-> t.periodic,
          select |-> t.select, mux |-> t.mux, transmit |-> q, key |-> k,
          aggregation |-> d, synchronization |-> t.synchronization,
          distributing |-> t.distributing, partner |-> t.partner,
          selected |-> t.selected, id |-> t.id, ready_N |-> t.ready_N, ntt |-> t.ntt,
          message |-> t.message, slave |-> t.slave, current_while |-> t.current_while,
          periodic_timer |-> t.periodic_timer, wait_while |-> t.wait_while,
          pkt_sent |-> t.pkt_sent]
  BY <1>0 DEF PortType, LinkField
<1>2. u \in PortType
  BY <1>1, PortFields DEF PortType
<1> QED  BY <1>0, <1>1, <1>2 DEF SameRecv, SamePeriodic, SameSelect, SameMux

(* The link of a port changes: the port starts again, and what it is a     *)
(* member of is settled by the first run.                                  *)
LEMMA LinkStep ==
  ASSUME IInv, NEW p \in Ports, NEW up \in BOOLEAN, NEW key \in Keys, NEW duplex \in Duplex,
         LinkStatusChanged(p, up, key, duplex)
  PROVE  IInv'
<1>1. PICK t : t = port[p]
  OBVIOUS
<1>2. t \in PortType /\ port \in [Ports -> PortType]
  BY <1>1, AtPort
<1>0. PICK i, d, q : i = FALSE /\ d = duplex /\ q = t.transmit
  OBVIOUS
<1>3. PICK u : u = LinkField(t, i, up, key, d, q)
  OBVIOUS
<1>4. u = [t EXCEPT !.key = key, !.aggregation = duplex, !.port_enabled = up, !.initialized = FALSE]
  BY <1>0, <1>2, <1>3 DEF LinkField, PortType
<1>5. port' = [port EXCEPT ![p] = u]
  BY <1>1, <1>2, <1>4 DEF LinkStatusChanged
<1>6. faults' \in 0..MaxFaults
  BY FaultCounted DEF LinkStatusChanged
<1>7. q \in Range(TransmitStates) /\ d \in BOOLEAN /\ key \in Keys \cup {0} /\ i \in BOOLEAN
  BY <1>0, <1>2, PortFields, NumberAssumption
<1>8. agg' = agg /\ list' = list
  BY DEF LinkStatusChanged
<1>9. /\ u \in PortType /\ u.initialized = i /\ u.present = t.present
      /\ SameRecv(t, u) /\ SameSelect(t, u) /\ SameMux(t, u)
  BY ONLY <1>2, <1>3, <1>7, up \in BOOLEAN, LinkSet
<1> QED  BY <1>0, <1>1, <1>5, <1>6, <1>8, <1>9, FieldStep DEF SameMux, SameRecv

(* The first run: the port gives up what it was a member of. *)
LEMMA InitialStep ==
  ASSUME IInv, NEW p \in Ports, InitialRun(p)
  PROVE  IInv' /\ port'[p].slave = NoId /\ \A o \in Ports \ {p} : port'[o] = port[o]
<1>1. PICK s : s = Now
  OBVIOUS
<1>2. Good(s) /\ s.port = port /\ s.agg = agg
  BY <1>1 DEF IInv, Now
<1>3. PICK a : a = EnterReceive("INITIALIZE", p, s)
  OBVIOUS
<1>4. Good(a) /\ Frame(p, s, a) /\ Received("INITIALIZE", s.port[p], a.port[p])
  <2>1. "INITIALIZE" \in Range(ReceiveStates) /\ "INITIALIZE" # "CURRENT"
    BY StateSets
  <2> QED  BY <1>2, <1>3, <2>1, ReceiveGood
<1>5. PICK b : b = EnterPeriodic("NO_PERIODIC", p, a)
  OBVIOUS
<1>6. Good(b) /\ Frame(p, a, b) /\ Paced("NO_PERIODIC", a.port[p], b.port[p])
  <2>1. "NO_PERIODIC" \in Range(PeriodicStates)
    BY StateSets
  <2> QED  BY <1>4, <1>5, <2>1, PeriodicGood
<1>7. PICK c : c = EnterSelect("UNSELECTED", p, b)
  OBVIOUS
<1>8. ~b.port[p].selected
  BY <1>4, <1>6 DEF Received, Paced, SameSelect
<1>9. /\ Good(c) /\ Frame(p, b, c) /\ Chose(b.port[p], c.port[p])
      /\ c.port[p].select = "UNSELECTED" /\ ~c.port[p].selected /\ c.port[p].id = NoId
  BY <1>6, <1>7, <1>8, LeaveGood
<1>10. PICK d : d = EnterMux("DETACHED", p, c)
  OBVIOUS
<1>11. Good(d) /\ Frame(p, c, d) /\ Muxed("DETACHED", c.port[p], d.port[p])
  <2>1. "DETACHED" \in Range(MuxStates)
    BY StateSets
  <2> QED  BY <1>9, <1>10, <2>1, MuxGood
<1>12. PICK v : v = d.port[p]
  OBVIOUS
<1>13. /\ v \in PortType /\ d.port \in [Ports -> PortType] /\ d.agg \in [Ids -> AggType]
       /\ d \in RunType
  BY <1>11, <1>12 DEF Good, RunType
<1>14. /\ v.present /\ v.select = "UNSELECTED" /\ ~v.selected /\ v.id = NoId
       /\ v.mux = "DETACHED" /\ v.present = port[p].present
  <2>1. port[p].present
    BY DEF InitialRun
  <2>2. SameBase(s.port[p], a.port[p]) /\ SameBase(a.port[p], b.port[p]) /\ SameBase(b.port[p], c.port[p])
        /\ SameBase(c.port[p], v)
    BY <1>4, <1>6, <1>9, <1>11, <1>12 DEF Received, Paced, Chose, Muxed
  <2>3. SameSelect(c.port[p], v) /\ v.mux = "DETACHED"
    BY <1>11, <1>12 DEF Muxed
  <2> QED  BY <1>2, <1>9, <2>1, <2>2, <2>3 DEF SameBase, SameSelect
<1>15. PICK i, x, k, e, q : /\ i = TRUE /\ x = v.port_enabled /\ k = v.key
                            /\ e = v.aggregation /\ q = "NO_TX"
  OBVIOUS
<1>16. PICK u : u = LinkField(v, i, x, k, e, q)
  OBVIOUS
<1>17. /\ u \in PortType /\ u.initialized /\ u.present = v.present
       /\ SameRecv(v, u) /\ SameSelect(v, u) /\ SameMux(v, u)
  <2>1. /\ x \in BOOLEAN /\ k \in Keys \cup {0} /\ e \in BOOLEAN
        /\ q \in Range(TransmitStates) /\ i \in BOOLEAN
    BY <1>13, <1>15, PortFields, StateSets
  <2>2. v \in PortType
    BY <1>13
  <2>3. /\ u \in PortType /\ u.initialized = i /\ u.present = v.present
        /\ SameRecv(v, u) /\ SameSelect(v, u) /\ SameMux(v, u)
    BY ONLY <1>16, <2>1, <2>2, LinkSet
  <2> QED  BY <1>15, <2>3
<1>18. u = [v EXCEPT !.initialized = TRUE, !.transmit = "NO_TX"]
  BY <1>13, <1>15, <1>16 DEF LinkField, PortType
<1>19. PICK r : r = PutPort(d, p, u)
  OBVIOUS
<1>20. r \in RunType /\ r.port[p] = u /\ r.agg = d.agg /\ \A o \in Ports \ {p} : r.port[o] = d.port[o]
  <2>1. d \in RunType /\ u \in PortType
    BY <1>13, <1>17
  <2> QED  BY ONLY p \in Ports, <1>19, <2>1, PortSet
<1>21. port' = r.port /\ agg' = r.agg /\ list' = list
  <2>1. /\ port' = [d.port EXCEPT ![p].initialized = TRUE, ![p].transmit = "NO_TX"]
        /\ agg' = d.agg /\ list' = list
    BY <1>1, <1>3, <1>5, <1>7, <1>10 DEF InitialRun
  <2>2. port' = [d.port EXCEPT ![p] = u]
    BY <1>12, <1>13, <1>18, <2>1
  <2>3. r.port = [d.port EXCEPT ![p] = u]
    BY <1>13, <1>19 DEF PutPort, RunType
  <2> QED  BY <1>20, <2>1, <2>2, <2>3
<1>22. PortInv(u) /\ Rest(u)
  <2>1. PortInv(v)
    BY <1>11, <1>12 DEF Good
  <2> QED  BY <1>14, <1>17, <2>1 DEF PortInv, Rest, SameSelect, SameMux, SameRecv
<1>23. Good(r)
  <2>1. u.id = v.id /\ v.id = NoId /\ ~u.selected
    BY <1>14, <1>17 DEF SameSelect
  <2> QED  BY <1>11, <1>12, <1>20, <1>22, <2>1, GoodKept
<1>24. \A o \in Ports \ {p} : r.port[o] = port[o]
  BY <1>2, <1>4, <1>6, <1>9, <1>11, <1>20 DEF Frame
<1>25. faults' \in 0..MaxFaults
  BY FaultCounted DEF InitialRun
<1>26. u.present = port[p].present /\ u.id = NoId
  BY <1>14, <1>17 DEF SameSelect
<1>27. IInv'
  BY <1>20, <1>21, <1>22, <1>23, <1>24, <1>25, <1>26, PortStep
<1>28. port'[p].slave = NoId
  BY <1>11, <1>12, <1>17, <1>20, <1>21 DEF Muxed, SameMux
<1> QED  BY <1>21, <1>24, <1>27, <1>28

(* What the end of the wait writes. *)
WaitField(t, b) == [t EXCEPT !.wait_while = FALSE, !.ready_N = b]

(* It keeps the other fields, and the type. *)
LEMMA WaitSet ==
  ASSUME NEW t \in PortType, NEW b \in BOOLEAN
  PROVE  LET u == WaitField(t, b) IN
         /\ u \in PortType /\ u.ready_N = b
         /\ SameBase(t, u) /\ SameRecv(t, u) /\ SamePeriodic(t, u) /\ SameSelect(t, u)
         /\ u.mux = t.mux /\ u.slave = t.slave /\ u.distributing = t.distributing
<1>0. PICK u : u = WaitField(t, b)
  OBVIOUS
<1>1. u = [present |-> t.present, number |-> t.number, port_enabled |-> t.port_enabled,
          initialized |-> t.initialized, recv |-> t.recv, periodic |-> t.periodic,
          select |-> t.select, mux |-> t.mux, transmit |-> t.transmit, key |-> t.key,
          aggregation |-> t.aggregation, synchronization |-> t.synchronization,
          distributing |-> t.distributing, partner |-> t.partner,
          selected |-> t.selected, id |-> t.id, ready_N |-> b, ntt |-> t.ntt,
          message |-> t.message, slave |-> t.slave, current_while |-> t.current_while,
          periodic_timer |-> t.periodic_timer, wait_while |-> FALSE,
          pkt_sent |-> t.pkt_sent]
  BY <1>0 DEF PortType, WaitField
<1>2. u \in PortType
  BY <1>1, PortFields DEF PortType
<1> QED  BY <1>0, <1>1, <1>2 DEF SameBase, SameRecv, SamePeriodic, SameSelect

(* The wait_while timer expires: the port is ready, and the aggregator it  *)
(* has selected takes note.                                                *)
LEMMA WaitStep ==
  ASSUME IInv, NEW p \in Ports, WaitWhileExpires(p)
  PROVE  IInv'
<1>1. PICK s, t : s = Now /\ t = port[p]
  OBVIOUS
<1>2. /\ t \in PortType /\ port \in [Ports -> PortType] /\ PortInv(t) /\ Rest(t)
      /\ Good(s) /\ s \in RunType /\ s.port = port /\ s.agg = agg
  <2>1. Good(s) /\ s.port = port /\ s.agg = agg
    BY <1>1 DEF IInv, Now
  <2> QED  BY <1>1, <2>1, AtPort DEF Good
<1>3. faults' \in 0..MaxFaults /\ list' = list
  BY FaultCounted DEF WaitWhileExpires
<1>4. t.ready_N \in BOOLEAN /\ t.id \in Ids \cup {NoId}
  BY <1>2, PortFields
<1>5. CASE t.mux = "WAITING" /\ t.id # NoId
  <2>1. PICK u : u = WaitField(t, TRUE)
    OBVIOUS
  <2>2. PICK a \in Ids : a = t.id
    BY <1>4, <1>5
  <2>3. PICK w : w = PutPort(s, p, u)
    OBVIOUS
  <2>4. /\ u \in PortType /\ u.ready_N
        /\ SameBase(t, u) /\ SameRecv(t, u) /\ SameSelect(t, u)
        /\ u.mux = t.mux /\ u.slave = t.slave /\ u.distributing = t.distributing
    <3>1. PICK b \in BOOLEAN : b = TRUE
      OBVIOUS
    <3>2. u = WaitField(t, b)
      BY <2>1, <3>1
    <3>3. /\ u \in PortType /\ u.ready_N = b
          /\ SameBase(t, u) /\ SameRecv(t, u) /\ SameSelect(t, u)
          /\ u.mux = t.mux /\ u.slave = t.slave /\ u.distributing = t.distributing
      <4>1. t \in PortType
        BY <1>2
      <4> QED  BY ONLY b \in BOOLEAN, <3>2, <4>1, WaitSet
    <3> QED  BY <3>1, <3>3
  <2>5. w \in RunType /\ w.port[p] = u /\ w.agg = agg /\ \A o \in Ports \ {p} : w.port[o] = port[o]
    <3>1. s \in RunType /\ u \in PortType
      BY <1>2, <2>4
    <3>2. /\ w \in RunType /\ w.port[p] = u /\ w.agg = s.agg
          /\ \A o \in Ports \ {p} : w.port[o] = s.port[o]
      BY ONLY p \in Ports, <2>3, <3>1, PortSet
    <3> QED  BY <1>2, <3>2
  <2>6. PICK r : r = UpdateReady(w, a)
    OBVIOUS
  <2>7. port' = r.port /\ agg' = r.agg
    <3>1. w = [[s EXCEPT !.port[p].wait_while = FALSE] EXCEPT !.port[p].ready_N = TRUE]
      BY <1>1, <1>2, <2>1, <2>3 DEF PutPort, WaitField, RunType
    <3> QED  BY <1>1, <1>5, <2>2, <2>6, <3>1 DEF WaitWhileExpires
  <2>8. PICK x \in AggType : x = w.agg[a]
    BY <2>5 DEF RunType
  <2>9. w = [w EXCEPT !.agg[a] = x]
    BY <2>5, <2>8 DEF RunType
  <2>10. /\ r \in RunType /\ r.port = w.port
         /\ \A c \in Ids \ {a} : r.agg[c] = w.agg[c]
         /\ r.agg[a].ports = x.ports /\ SameTerms(x, r.agg[a]) /\ ReadyOf(r.agg[a], w)
    BY <2>5, <2>6, <2>8, <2>9, UpdateReadyEffect DEF SameTerms, ReadyOf
  <2>11. \A c \in Ids : r.agg[c].ports = s.agg[c].ports /\ SameTerms(s.agg[c], r.agg[c])
    BY <1>2, <2>5, <2>8, <2>10 DEF SameTerms
  <2>12. Agree(s) /\ Exact(s) /\ Alone(s) /\ Matched(s) /\ \A o \in Ports : PortInv(s.port[o])
    BY <1>2 DEF Good
  <2>13. r.port[p] = u /\ \A o \in Ports \ {p} : r.port[o] = s.port[o]
    BY <1>2, <2>5, <2>10
  <2>14. Agree(r)
    <3>1. \A o \in Ports : r.port[o].id = s.port[o].id
      BY <1>1, <1>2, <2>4, <2>13 DEF SameSelect
    <3> QED  BY <2>11, <2>12, <3>1 DEF Agree
  <2>15. Alone(r)
    BY <2>11, <2>12 DEF Alone, SameTerms
  <2>16. Exact(r)
    <3> SUFFICES ASSUME NEW c \in Ids
                 PROVE  r.agg[c].ready = (r.agg[c].ports # {} /\ \A o \in r.agg[c].ports : r.port[o].ready_N)
      BY DEF Exact
    <3>1. CASE c = a
      BY <2>10, <3>1 DEF ReadyOf
    <3>2. CASE c # a
      <4>1. s.agg[c].ports \in SUBSET Ports /\ p \notin s.agg[c].ports
        BY <1>1, <1>2, <2>2, <2>12, <3>2 DEF RunType, AggType, Agree
      <4>2. r.agg[c] = s.agg[c] /\ \A o \in s.agg[c].ports : r.port[o] = s.port[o]
        BY <1>2, <2>5, <2>10, <2>13, <3>2, <4>1
      <4>3. s.agg[c].ready = (s.agg[c].ports # {} /\ \A o \in s.agg[c].ports : s.port[o].ready_N)
        BY <2>12 DEF Exact
      <4> QED  BY <4>2, <4>3
    <3> QED  BY <3>1, <3>2
  <2>17. PortInv(u) /\ Rest(u)
    BY <1>2, <1>5, <2>4 DEF PortInv, Rest, SameBase, SameRecv, SameSelect
  <2>18. Matched(r)
    <3> SUFFICES ASSUME NEW o \in Ports, r.port[o].initialized, r.port[o].selected
                 PROVE  Match(r.port[o], r.agg[r.port[o].id])
      BY DEF Matched
    <3>1. /\ s.port[o].initialized /\ s.port[o].selected /\ r.port[o].id = s.port[o].id
          /\ r.port[o].key = s.port[o].key /\ r.port[o].partner = s.port[o].partner
          /\ r.port[o].aggregation = s.port[o].aggregation
      BY <1>1, <1>2, <2>4, <2>13 DEF SameBase, SameRecv, SameSelect
    <3>2. Match(s.port[o], s.agg[s.port[o].id])
      BY <2>12, <3>1 DEF Matched
    <3>3. s.port[o].id \in Ids
      <4>1. s.port[o].id # NoId /\ s.port[o] \in PortType
        BY <1>2, <2>12, <3>1 DEF PortInv
      <4> QED  BY <4>1, PortFields
    <3> QED  BY <2>11, <3>1, <3>2, <3>3 DEF Match, SameTerms
  <2>19. Good(r)
    <3>1. \A o \in Ports : PortInv(r.port[o])
      BY <2>12, <2>13, <2>17
    <3> QED  BY <2>10, <2>14, <2>15, <2>16, <2>18, <3>1 DEF Good
  <2>20. u.present = t.present /\ u.id = t.id
    BY <2>4 DEF SameBase, SameSelect
  <2> QED  BY <1>1, <1>2, <1>3, <2>7, <2>13, <2>17, <2>19, <2>20, PortStep
<1>6. CASE ~(t.mux = "WAITING" /\ t.id # NoId)
  <2>1. PICK u : u = WaitField(t, t.ready_N)
    OBVIOUS
  <2>2. /\ u \in PortType /\ u.ready_N = t.ready_N
        /\ SameBase(t, u) /\ SameRecv(t, u) /\ SameSelect(t, u)
        /\ u.mux = t.mux /\ u.slave = t.slave /\ u.distributing = t.distributing
    BY ONLY <1>2, <1>4, <2>1, WaitSet
  <2>3. u = [t EXCEPT !.wait_while = FALSE]
    BY <1>2, <2>1 DEF PortType, WaitField
  <2>4. port' = [port EXCEPT ![p] = u] /\ agg' = agg
    BY <1>1, <1>2, <1>6, <2>3 DEF WaitWhileExpires, Now
  <2> QED  BY <1>1, <1>3, <2>2, <2>4, FieldStep DEF SameRecv
<1> QED  BY <1>5, <1>6

(* fsm_runner_run(): the port comes to rest. *)
LEMMA RunsOn ==
  ASSUME IInv, NEW p \in Ports, Run(p)
  PROVE  IInv'
<1>1. PICK r : r = RunOf(p)
  OBVIOUS
<1>2. Ended(p, r) /\ OnlyRuns(p, Now, r)
  <2>1. port[p].present /\ Good(Now) /\ Stocked(Now)
    BY DEF Run, Ready, IInv
  <2> QED  BY <1>1, <2>1, RunResult
<1>3. Good(r) /\ Stocked(r)
  BY <1>2 DEF Ended
<1>4. \A o \in Ports : Rest(r.port[o]) /\ r.port[o].present = port[o].present
  BY <1>2 DEF IInv, Ended, OnlyRuns, SameBase, Now
<1>5. port' = r.port /\ agg' = r.agg /\ list' = list
  BY <1>1 DEF Run
<1>6. faults' \in 0..MaxFaults
  BY FaultCounted DEF Run
<1> QED  BY <1>3, <1>4, <1>5, <1>6, Resumed DEF Stocked

(* A device that is not there leaves an identifier over. *)
LEMMA IdLeft ==
  ASSUME IInv, NEW p \in Ports, ~port[p].present
  PROVE  NextAggId \in Ids \ Used
<1>1. IsFiniteSet(Ports) /\ IsFiniteSet(Ids) /\ Cardinality(Ids) >= Cardinality(Ports)
  BY TopologyAssumption, IdAssumption
<1>2. PICK P : P = Present
  OBVIOUS
<1>3. P \in SUBSET (Ports \ {p})
  BY <1>2 DEF Present
<1>4. Cardinality(P) < Cardinality(Ports)
  <2>1. /\ IsFiniteSet(Ports \ {p}) /\ Cardinality(Ports \ {p}) = Cardinality(Ports) - 1
        /\ Cardinality(Ports) \in Nat
    BY <1>1, FS_RemoveElement, FS_CardinalityType
  <2>2. Cardinality(P) <= Cardinality(Ports \ {p}) /\ IsFiniteSet(P)
    BY <1>3, <2>1, FS_Subset
  <2>3. Cardinality(P) \in Nat
    BY <2>2, FS_CardinalityType
  <2> QED  BY <2>1, <2>2, <2>3
<1>5. Cardinality(Used) = Cardinality(P)
  BY <1>2 DEF IInv
<1>6. Used # Ids
  <2>1. Cardinality(Ids) \in Nat /\ Cardinality(Ports) \in Nat
    BY <1>1, FS_CardinalityType
  <2>2. Cardinality(P) \in Nat
    BY <1>1, <1>3, FS_Subset, FS_CardinalityType
  <2> QED  BY <1>1, <1>4, <1>5, <2>1, <2>2
<1>7. \E a \in Ids : \A y \in Systems : ~Contains(list[y], a)
  BY <1>6 DEF Used
<1> QED  BY <1>7 DEF NextAggId, Used

(* A new device is a port in order. *)
LEMMA FreshPortType ==
  ASSUME NEW number \in 0..MaxNumber, NEW key \in Keys \cup {0}, NEW duplex \in BOOLEAN,
         NEW up \in BOOLEAN
  PROVE  LET u == FreshPort(number, key, duplex, up) IN
         /\ u \in PortType /\ PortInv(u) /\ Rest(u)
         /\ u.present /\ ~u.initialized /\ u.id = NoId /\ ~u.selected /\ u.slave = NoId
<1>0. PICK u : u = FreshPort(number, key, duplex, up)
  OBVIOUS
<1>1. /\ "INITIALIZE" \in Range(ReceiveStates) /\ "NO_PERIODIC" \in Range(PeriodicStates)
      /\ "UNSELECTED" \in Range(SelectStates) /\ "DETACHED" \in Range(MuxStates)
      /\ "NO_TX" \in Range(TransmitStates)
  BY StateSets
<1>2. AdminPartner \in InfoType /\ ~AdminPartner.synchronization /\ 0 \in 0..RateLimit
  BY InfoTypes, NumberAssumption DEF AdminPartner
<1>3. u \in PortType
  BY <1>0, <1>1, <1>2 DEF FreshPort, PortType
<1>4. /\ u.present /\ ~u.initialized /\ u.id = NoId /\ ~u.selected /\ u.slave = NoId
      /\ u.select = "UNSELECTED" /\ u.mux = "DETACHED" /\ ~u.ready_N /\ ~u.distributing
      /\ u.partner = AdminPartner
  BY <1>0 DEF FreshPort
<1>5. PortInv(u) /\ Rest(u)
  BY <1>2, <1>4 DEF PortInv, Rest
<1> QED  BY <1>0, <1>3, <1>4, <1>5

(* How the number of ports of an instance changes with one of them. *)
LEMMA PresentOf ==
  ASSUME NEW p \in Ports, NEW T, NEW U, T \in SUBSET Ports, U \ {p} = T \ {p}
  PROVE  /\ Cardinality(T) \in Nat
         /\ Cardinality(U) = Cardinality(T) - (IF p \in T THEN 1 ELSE 0) + (IF p \in U THEN 1 ELSE 0)
<1>1. IsFiniteSet(T)
  BY TopologyAssumption, FS_Subset
<1> QED  BY <1>1, SizeChange

(* lacpd_add_device(): one more port, one more aggregator. *)
LEMMA AddStep ==
  ASSUME IInv, Framed, NEW p \in Ports, NEW key \in Keys, NEW duplex \in Duplex, NEW up \in BOOLEAN,
         AddDevice(p, key, duplex, up)
  PROVE  IInv'
<1>0. PICK h \in 0..MaxNumber : h = next_port_agg_id[SystemOf[p]]
  <2>1. next_port_agg_id[SystemOf[p]] \in Nat \ {0}
    BY TopologyAssumption DEF Framed
  <2>2. next_port_agg_id[SystemOf[p]] <= MaxNumber
    BY DEF AddDevice
  <2> QED  BY <2>1, <2>2, NumberAssumption
<1>1. PICK s, t, x, y : s = Now /\ t = port[p] /\ x = NextAggId /\ y = SystemOf[p]
  OBVIOUS
<1>2. /\ t \in PortType /\ port \in [Ports -> PortType] /\ PortInv(t) /\ ~t.present
      /\ Good(s) /\ s \in RunType /\ s.port = port /\ s.agg = agg
  <2>1. Good(s) /\ s.port = port /\ s.agg = agg
    BY <1>1 DEF IInv, Now
  <2> QED  BY <1>1, <2>1, AtPort DEF Good, AddDevice
<1>3. x \in Ids \ Used /\ y \in Systems
  BY <1>1, <1>2, IdLeft, TopologyAssumption
<1>4. PICK d : d = duplex
  OBVIOUS
<1>5. PICK u : u = FreshPort(h, key, d, up)
  OBVIOUS
<1>6. /\ u \in PortType /\ PortInv(u) /\ Rest(u)
      /\ u.present /\ ~u.initialized /\ u.id = NoId /\ ~u.selected /\ u.slave = NoId
  <2>1. d \in BOOLEAN /\ key \in Keys \cup {0}
    BY <1>4, NumberAssumption
  <2> QED  BY ONLY <1>5, <2>1, h \in 0..MaxNumber, up \in BOOLEAN, FreshPortType
<1>7. t.id = NoId /\ t.slave = NoId
  BY <1>2 DEF PortInv
<1>8. port' = [port EXCEPT ![p] = u] /\ agg' = agg
  <2>1. u = [FreshPort(h, key, duplex, up) EXCEPT !.slave = t.slave]
    <3>1. u = [u EXCEPT !.slave = NoId]
      BY <1>6 DEF PortType
    <3> QED  BY <1>4, <1>5, <1>7, <3>1
  <2> QED  BY <1>0, <1>1, <2>1 DEF AddDevice
<1>9. PICK n : n = Now'
  OBVIOUS
<1>10. n = [port |-> port', agg |-> agg', sent |-> <<>>, at |-> <<1, 0>>]
  BY <1>9 DEF Now
<1>11. /\ n.port = port' /\ n.agg = s.agg /\ n.port[p] = u
       /\ \A o \in Ports \ {p} : n.port[o] = s.port[o]
  BY <1>2, <1>8, <1>10
<1>12. n \in RunType
  <2>1. port' \in [Ports -> PortType] /\ agg' \in [Ids -> AggType]
    BY <1>2, <1>6, <1>8 DEF RunType
  <2>2. << >> \in Seq(PduType) /\ <<1, 0>> \in (0..5) \X (0..5)
    OBVIOUS
  <2> QED  BY <1>10, <2>1, <2>2 DEF RunType
<1>13. Good(n)
  BY <1>1, <1>2, <1>6, <1>7, <1>11, <1>12, GoodKept
<1>14. Good(Now)' /\ \A o \in Ports : Rest(port[o])'
  BY <1>6, <1>9, <1>11, <1>13, <1>2 DEF IInv
<1>15. /\ list \in [Systems -> Seq(Ids)] /\ Distinct /\ Counted(s) /\ Listed(s)
  BY <1>1 DEF IInv, Stocked
<1>16. PICK l \in Seq(Ids) : l = list[y]
  BY <1>3, <1>15
<1>17. PICK m : m = Append(l, x)
  OBVIOUS
<1>18. /\ m \in Seq(Ids) /\ Len(m) = Len(l) + 1 /\ Len(l) \in Nat
       /\ \A i \in 1..Len(l) : m[i] = l[i]
       /\ m[Len(l) + 1] = x
  BY <1>3, <1>17
<1>19. list' = [list EXCEPT ![y] = m]
  BY <1>1, <1>16, <1>17 DEF AddDevice
<1>20. list' \in [Systems -> Seq(Ids)]
  BY <1>15, <1>18, <1>19
<1>21. \A z \in Systems : \A i \in DOMAIN list[z] : list[z][i] # x
  <2>1. \A z \in Systems : ~Contains(list[z], x)
    BY <1>3 DEF Used
  <2>2. \A z \in Systems : DOMAIN list[z] = 1..Len(list[z])
    BY <1>15
  <2> QED  BY <2>1, <2>2 DEF Contains
<1>22. ASSUME NEW z \in Systems, NEW i \in DOMAIN list'[z]
       PROVE  IF i \in DOMAIN list[z] THEN list'[z][i] = list[z][i]
              ELSE z = y /\ i = Len(l) + 1 /\ list'[z][i] = x
  <2>1. CASE z = y
    <3>1. list'[z] = m /\ DOMAIN m = 1..(Len(l) + 1) /\ DOMAIN l = 1..Len(l)
      BY <1>15, <1>18, <1>19, <2>1
    <3> QED  BY <1>16, <1>18, <2>1, <3>1
  <2>2. CASE z # y
    BY <1>15, <1>19, <2>2
  <2> QED  BY <2>1, <2>2
<1>23. Distinct'
  <2> SUFFICES ASSUME NEW z \in Systems, NEW w \in Systems,
                      NEW i \in DOMAIN list'[z], NEW j \in DOMAIN list'[w],
                      list'[z][i] = list'[w][j]
               PROVE  z = w /\ i = j
    BY DEF Distinct
  <2>1. CASE i \in DOMAIN list[z] /\ j \in DOMAIN list[w]
    <3>1. list[z][i] = list[w][j]
      BY <1>22, <2>1
    <3> QED  BY <1>15, <2>1, <3>1 DEF Distinct
  <2>2. CASE i \in DOMAIN list[z] /\ j \notin DOMAIN list[w]
    BY <1>21, <1>22, <2>2
  <2>3. CASE i \notin DOMAIN list[z] /\ j \in DOMAIN list[w]
    BY <1>21, <1>22, <2>3
  <2>4. CASE i \notin DOMAIN list[z] /\ j \notin DOMAIN list[w]
    BY <1>22, <2>4
  <2> QED  BY <2>1, <2>2, <2>3, <2>4
<1>24. ASSUME NEW z \in Systems, NEW a \in Ids
       PROVE  Contains(list'[z], a) <=> Contains(list[z], a) \/ (z = y /\ a = x)
  <2>1. CASE z = y
    <3>1. list'[z] = m /\ list[z] = l
      BY <1>15, <1>16, <1>19, <2>1
    <3>2. Contains(m, a) <=> Contains(l, a) \/ a = x
      BY <1>18 DEF Contains
    <3> QED  BY <2>1, <3>1, <3>2
  <2>2. CASE z # y
    BY <1>15, <1>19, <2>2
  <2> QED  BY <2>1, <2>2
<1>25. Listed(Now)'
  <2>1. \A o \in Ports : n.port[o].id = s.port[o].id
    BY <1>1, <1>2, <1>6, <1>7, <1>11
  <2>2. ASSUME NEW o \in Ports, n.port[o].id # NoId
        PROVE  Contains(list'[SystemOf[o]], n.port[o].id)
    <3>1. Contains(list[SystemOf[o]], n.port[o].id) /\ SystemOf[o] \in Systems
      BY <1>15, <2>1, <2>2, TopologyAssumption DEF Listed
    <3>2. n.port[o].id \in Ids
      BY <1>12, <2>2, PortFields DEF RunType
    <3> QED  BY <1>24, <3>1, <3>2
  <2> QED  BY <1>9, <2>2 DEF Listed
<1>26. Counted(Now)'
  <2> SUFFICES ASSUME NEW z \in Systems
               PROVE  Len(list'[z]) = Cardinality({o \in Ports : n.port[o].present /\ SystemOf[o] = z})
    BY <1>9 DEF Counted
  <2>1. PICK T, U : /\ T = {o \in Ports : s.port[o].present /\ SystemOf[o] = z}
                    /\ U = {o \in Ports : n.port[o].present /\ SystemOf[o] = z}
    OBVIOUS
  <2>2. p \notin T /\ (p \in U <=> z = y)
    BY <1>1, <1>2, <1>6, <1>11, <2>1
  <2>3. T \in SUBSET Ports /\ U \ {p} = T \ {p}
    BY <1>11, <2>1
  <2>4. /\ Cardinality(T) \in Nat
        /\ Cardinality(U) = Cardinality(T) - (IF p \in T THEN 1 ELSE 0) + (IF p \in U THEN 1 ELSE 0)
    BY ONLY p \in Ports, <2>3, PresentOf
  <2>5. Len(list[z]) = Cardinality(T)
    BY <1>15, <2>1 DEF Counted
  <2>6. Len(list'[z]) = Len(list[z]) + (IF z = y THEN 1 ELSE 0)
    BY <1>15, <1>16, <1>18, <1>19
  <2>7. Len(list'[z]) = Cardinality(U)
    BY <2>2, <2>4, <2>5, <2>6
  <2> QED  BY <2>1, <2>7
<1>27. Cardinality(Used)' = Cardinality(Present)'
  <2>1. Used' = Used \cup {x} /\ Used \in SUBSET Ids /\ x \notin Used
    BY <1>3, <1>24 DEF Used
  <2>2. Present' = Present \cup {p} /\ Present \in SUBSET Ports /\ p \notin Present
    BY <1>1, <1>2, <1>6, <1>8 DEF Present
  <2>3. IsFiniteSet(Used) /\ IsFiniteSet(Present)
    BY <2>1, <2>2, TopologyAssumption, IdAssumption, FS_Subset
  <2>4. Cardinality(Used \cup {x}) = Cardinality(Used) + 1
    BY <2>1, <2>3, FS_AddElement
  <2>5. Cardinality(Present \cup {p}) = Cardinality(Present) + 1
    BY <2>2, <2>3, FS_AddElement
  <2> QED  BY <2>1, <2>2, <2>4, <2>5 DEF IInv
<1>28. (faults \in 0..MaxFaults)'
  BY FaultCounted DEF AddDevice
<1>29. Stocked(Now)'
  BY <1>20, <1>23, <1>25, <1>26 DEF Stocked
<1> QED  BY <1>14, <1>27, <1>28, <1>29 DEF IInv

(* A device that is not there is a port in order. *)
LEMMA AbsentPortType ==
  /\ AbsentPort \in PortType /\ PortInv(AbsentPort) /\ Rest(AbsentPort)
  /\ ~AbsentPort.present /\ ~AbsentPort.initialized /\ AbsentPort.id = NoId
  /\ ~AbsentPort.selected /\ AbsentPort.slave = NoId
<1>0. PICK u : u = AbsentPort
  OBVIOUS
<1>1. /\ "INITIALIZE" \in Range(ReceiveStates) /\ "NO_PERIODIC" \in Range(PeriodicStates)
      /\ "UNSELECTED" \in Range(SelectStates) /\ "DETACHED" \in Range(MuxStates)
      /\ "NO_TX" \in Range(TransmitStates)
  BY StateSets
<1>2. AdminPartner \in InfoType /\ ~AdminPartner.synchronization /\ 0 \in 0..RateLimit
      /\ 0 \in 0..MaxNumber
  BY InfoTypes, NumberAssumption DEF AdminPartner
<1>3. u = [present |-> FALSE, number |-> 0, port_enabled |-> FALSE, initialized |-> FALSE,
           recv |-> "INITIALIZE", periodic |-> "NO_PERIODIC", select |-> "UNSELECTED",
           mux |-> "DETACHED", transmit |-> "NO_TX",
           key |-> 0, aggregation |-> FALSE, synchronization |-> FALSE, distributing |-> FALSE,
           partner |-> AdminPartner, selected |-> FALSE, id |-> NoId, ready_N |-> FALSE,
           ntt |-> FALSE, message |-> NoPdu, slave |-> NoId,
           current_while |-> FALSE, periodic_timer |-> FALSE, wait_while |-> FALSE, pkt_sent |-> 0]
  BY <1>0 DEF AbsentPort, FreshPort
<1>4. u \in PortType
  BY <1>1, <1>2, <1>3 DEF PortType
<1>5. /\ ~u.present /\ ~u.initialized /\ u.id = NoId /\ ~u.selected /\ u.slave = NoId
      /\ u.select = "UNSELECTED" /\ u.mux = "DETACHED" /\ ~u.ready_N /\ ~u.distributing
      /\ u.partner = AdminPartner
  BY <1>3
<1>6. PortInv(u) /\ Rest(u)
  BY <1>2, <1>5 DEF PortInv, Rest
<1> QED  BY <1>0, <1>4, <1>5, <1>6

(* A sequence from which an entry was taken: those after it move up. *)
LEMMA RemoveAtOK ==
  ASSUME NEW S, NEW s \in Seq(S), NEW i \in DOMAIN s
  PROVE  /\ RemoveAt(s, i) \in Seq(S) /\ Len(RemoveAt(s, i)) = Len(s) - 1
         /\ \A j \in DOMAIN RemoveAt(s, i) : RemoveAt(s, i)[j] = IF j < i THEN s[j] ELSE s[j + 1]
<1>0. PICK a, b : a = SubSeq(s, 1, i - 1) /\ b = SubSeq(s, i + 1, Len(s))
  OBVIOUS
<1>1. i \in 1..Len(s) /\ Len(s) \in Nat
  OBVIOUS
<1>2. /\ a \in Seq(S) /\ Len(a) = i - 1 /\ \A j \in 1..(i - 1) : a[j] = s[j]
  <2>1. a = SubSeq(s, 1, i - 1)
    BY <1>0
  <2> QED  BY <1>1, <2>1
<1>3. /\ b \in Seq(S) /\ Len(b) = Len(s) - i /\ \A j \in 1..(Len(s) - i) : b[j] = s[i + j]
  <2>1. b = SubSeq(s, i + 1, Len(s))
    BY <1>0
  <2> QED  BY <1>1, <2>1
<1>4. PICK r : r = a \o b
  OBVIOUS
<1>5. r \in Seq(S)
  BY <1>2, <1>3, <1>4
<1>6. /\ Len(r) = Len(s) - 1
      /\ \A j \in 1..(Len(s) - 1) : r[j] = IF j <= Len(a) THEN a[j] ELSE b[j - Len(a)]
  <2>1. /\ Len(r) = Len(a) + Len(b)
        /\ \A j \in 1..(Len(a) + Len(b)) : r[j] = IF j <= Len(a) THEN a[j] ELSE b[j - Len(a)]
    <3>1. a \in Seq(S) /\ b \in Seq(S)
      BY <1>2, <1>3
    <3> QED  BY ONLY <1>4, <3>1
  <2>2. Len(a) + Len(b) = Len(s) - 1
    BY <1>1, <1>2, <1>3
  <2> QED  BY <2>1, <2>2
<1>7. DOMAIN r = 1..(Len(s) - 1)
  BY <1>5, <1>6
<1>8. ASSUME NEW j \in 1..(Len(s) - 1)  PROVE r[j] = IF j < i THEN s[j] ELSE s[j + 1]
  <2>1. CASE j < i
    <3>1. j \in 1..(i - 1) /\ j <= Len(a)
      BY <1>1, <1>2, <2>1
    <3>2. r[j] = a[j] /\ a[j] = s[j]
      BY <1>2, <1>6, <3>1
    <3> QED  BY <2>1, <3>2
  <2>2. CASE ~(j < i)
    <3>1. j - Len(a) \in 1..(Len(s) - i) /\ ~(j <= Len(a)) /\ i + (j - Len(a)) = j + 1
      BY <1>1, <1>2, <2>2
    <3>2. r[j] = b[j - Len(a)] /\ b[j - Len(a)] = s[i + (j - Len(a))]
      BY <1>3, <1>6, <3>1
    <3> QED  BY <2>2, <3>1, <3>2
  <2> QED  BY <2>1, <2>2
<1>9. RemoveAt(s, i) = r
  BY <1>0, <1>4 DEF RemoveAt
<1> QED  BY <1>5, <1>6, <1>7, <1>8, <1>9

(* lacpd_del_device(): the port that leaves has taken its device from the  *)
(* aggregator, and one aggregator that is free goes with it.               *)
LEMMA DelStep ==
  ASSUME IInv, NEW p \in Ports, DelDevice(p)
  PROVE  IInv'
<1>1. PICK s, t, r, y, i : /\ s = Now /\ t = port[p] /\ r = RemoveFromAggregator(s, p)
                           /\ y = SystemOf[p]
                           /\ i = First(y, {x \in Ids : IsFree(r.agg[x])})
  OBVIOUS
<1>2. /\ t \in PortType /\ port \in [Ports -> PortType] /\ PortInv(t) /\ Rest(t) /\ t.present
      /\ Good(s) /\ s \in RunType /\ s.port = port /\ s.agg = agg
  <2>1. Good(s) /\ s.port = port /\ s.agg = agg
    BY <1>1 DEF IInv, Now
  <2> QED  BY <1>1, <2>1, AtPort DEF Good, DelDevice
<1>3. /\ Frame(p, s, r) /\ Chose(s.port[p], r.port[p]) /\ r.port[p].id = NoId
      /\ Agree(r) /\ Exact(r) /\ Alone(r)
      /\ \A o \in Ports \ {p} : r.port[o].initialized /\ r.port[o].selected =>
                                  Match(r.port[o], r.agg[r.port[o].id])
  <2>1. Good(s) /\ s \in RunType /\ r = RemoveFromAggregator(s, p)
    BY <1>1, <1>2
  <2> QED  BY ONLY p \in Ports, <2>1, LeaveRest
<1>4. /\ r \in RunType /\ r.port[p].present
      /\ \A o \in Ports \ {p} : r.port[o] = port[o]
  BY <1>1, <1>2, <1>3 DEF Frame, Chose, SameBase
<1>5. Stocked(s) /\ y \in Systems
  BY <1>1, TopologyAssumption DEF IInv
<1>6. list \in [Systems -> Seq(Ids)] /\ Distinct /\ Counted(s) /\ Listed(s)
  BY <1>5 DEF Stocked
<1>7. \E x \in DOMAIN list[y] : IsFree(r.agg[list[y][x]])
  <2>1. Stocked(r)
    <3>1. /\ r.port[p].present = s.port[p].present
          /\ \A o \in Ports \ {p} : r.port[o] = s.port[o]
      BY <1>1, <1>2, <1>4
    <3> QED  BY ONLY p \in Ports, <1>3, <1>5, <3>1, StockedKept
  <2>2. \A o \in Ports : r.port[o].id # NoId => r.port[o].present
    BY <1>2, <1>3, <1>4 DEF Good, PortInv
  <2> QED  BY <1>1, <1>3, <1>4, <2>1, <2>2, FreeExists
<1>8. PICK l \in Seq(Ids) : l = list[y]
  BY <1>5, <1>6
<1>9. i \in DOMAIN l /\ i # 0 /\ IsFree(r.agg[l[i]])
  <2>1. \A x \in DOMAIN list[y] : list[y][x] \in Ids
    BY <1>8
  <2>2. PICK P : P = {x \in Ids : IsFree(r.agg[x])}
    OBVIOUS
  <2>3. list[y] \in Seq(Ids) /\ i = First(y, P) /\ \E x \in DOMAIN list[y] : list[y][x] \in P
    BY <1>1, <1>7, <1>8, <2>1, <2>2
  <2>4. i \in DOMAIN list[y] /\ i # 0 /\ list[y][i] \in P
    BY <1>5, <2>3, FirstPassing
  <2> QED  BY <1>8, <2>2, <2>4
<1>10. PICK x \in Ids : x = l[i]
  BY <1>9
<1>11. PICK m : m = RemoveAt(l, i)
  OBVIOUS
<1>12. /\ m \in Seq(Ids) /\ Len(m) = Len(l) - 1 /\ Len(l) \in Nat /\ i \in 1..Len(l)
       /\ DOMAIN m = 1..(Len(l) - 1) /\ DOMAIN l = 1..Len(l)
       /\ \A j \in DOMAIN m : m[j] = IF j < i THEN l[j] ELSE l[j + 1]
  <2>1. /\ m \in Seq(Ids) /\ Len(m) = Len(l) - 1
        /\ \A j \in DOMAIN m : m[j] = IF j < i THEN l[j] ELSE l[j + 1]
    BY <1>9, <1>11, RemoveAtOK
  <2> QED  BY <1>9, <2>1
<1>13. list' = [list EXCEPT ![y] = m]
  BY <1>1, <1>8, <1>9, <1>11 DEF DelDevice
<1>14. list' \in [Systems -> Seq(Ids)]
  BY <1>6, <1>12, <1>13
<1>15. \A z \in Systems : DOMAIN list[z] = 1..Len(list[z]) /\ DOMAIN list'[z] = 1..Len(list'[z])
  BY <1>6, <1>14
<1>16. PICK at : at = [z \in Systems |-> [j \in DOMAIN list'[z] |->
                          IF z = y /\ j >= i THEN j + 1 ELSE j]]
  OBVIOUS
<1>17. ASSUME NEW z \in Systems, NEW j \in DOMAIN list'[z]
       PROVE  /\ at[z][j] = (IF z = y /\ j >= i THEN j + 1 ELSE j) /\ j \in Nat
              /\ at[z][j] \in DOMAIN list[z] /\ list'[z][j] = list[z][at[z][j]]
              /\ ~(z = y /\ at[z][j] = i)
  <2>1. at[z][j] = IF z = y /\ j >= i THEN j + 1 ELSE j
    BY <1>16
  <2>2. j \in Nat
    BY <1>15
  <2>3. CASE z = y
    <3>1. list'[z] = m /\ list[z] = l /\ DOMAIN list[z] = 1..Len(l) /\ j \in 1..(Len(l) - 1)
      BY <1>6, <1>8, <1>12, <1>13, <2>3
    <3> QED  BY <1>12, <2>1, <2>2, <2>3, <3>1
  <2>4. CASE z # y
    <3>1. list'[z] = list[z]
      BY <1>6, <1>13, <2>4
    <3> QED  BY <2>1, <2>2, <2>4, <3>1
  <2> QED  BY <2>3, <2>4
<1>18. Distinct'
  <2> SUFFICES ASSUME NEW z \in Systems, NEW w \in Systems,
                      NEW j \in DOMAIN list'[z], NEW k \in DOMAIN list'[w],
                      list'[z][j] = list'[w][k]
               PROVE  z = w /\ j = k
    BY DEF Distinct
  <2>1. list[z][at[z][j]] = list[w][at[w][k]]
    BY <1>17
  <2>2. at[z][j] \in DOMAIN list[z] /\ at[w][k] \in DOMAIN list[w]
    BY <1>17
  <2>3. z = w /\ at[z][j] = at[w][k]
    BY <1>6, <2>1, <2>2 DEF Distinct
  <2>4. /\ at[z][j] = IF z = y /\ j >= i THEN j + 1 ELSE j
        /\ at[w][k] = IF w = y /\ k >= i THEN k + 1 ELSE k
        /\ j \in Nat /\ k \in Nat /\ i \in Nat
    BY <1>12, <1>17
  <2>5. (IF z = y /\ j >= i THEN j + 1 ELSE j) = (IF z = y /\ k >= i THEN k + 1 ELSE k)
    BY <2>3, <2>4
  <2>6. j \in Nat /\ k \in Nat /\ i \in Nat
    BY <2>4
  <2>7. j = k
    BY ONLY <2>5, <2>6
  <2> QED  BY <2>3, <2>7
<1>19. ASSUME NEW z \in Systems, NEW a \in Ids
       PROVE  Contains(list'[z], a) <=> Contains(list[z], a) /\ a # x
  <2>1. ASSUME Contains(list'[z], a)  PROVE Contains(list[z], a) /\ a # x
    <3>1. PICK j \in DOMAIN list'[z] : list'[z][j] = a
      BY <1>15, <2>1 DEF Contains
    <3>2. at[z][j] \in DOMAIN list[z] /\ list[z][at[z][j]] = a /\ ~(z = y /\ at[z][j] = i)
      BY <1>17, <3>1
    <3>3. a # x
      <4>1. x = list[y][i] /\ i \in DOMAIN list[y]
        BY <1>8, <1>9, <1>10
      <4> QED  BY <1>5, <1>6, <3>2, <4>1 DEF Distinct
    <3> QED  BY <1>15, <3>2, <3>3 DEF Contains
  <2>2. ASSUME Contains(list[z], a), a # x  PROVE Contains(list'[z], a)
    <3>1. PICK j \in 1..Len(list[z]) : list[z][j] = a
      BY <2>2 DEF Contains
    <3>2. CASE z # y
      BY <1>6, <1>13, <2>2, <3>2
    <3>3. CASE z = y
      <4>1. list[z] = l /\ list'[z] = m /\ j \in 1..Len(l) /\ l[j] = a /\ j # i
        BY <1>6, <1>8, <1>10, <1>13, <2>2, <3>1, <3>3
      <4>2. CASE j < i
        <5>1. j \in DOMAIN m /\ m[j] = l[j]
          BY <1>12, <4>1, <4>2
        <5> QED  BY <1>15, <4>1, <5>1 DEF Contains
      <4>3. CASE j > i
        <5>1. j - 1 \in DOMAIN m /\ ~(j - 1 < i) /\ (j - 1) + 1 = j
          BY <1>12, <4>1, <4>3
        <5>2. m[j - 1] = l[j]
          BY <1>12, <5>1
        <5> QED  BY <1>15, <4>1, <5>1, <5>2 DEF Contains
      <4> QED  BY <1>12, <4>1, <4>2, <4>3
    <3> QED  BY <3>2, <3>3
  <2> QED  BY <2>1, <2>2
<1>20. PICK u : u = AbsentPort
  OBVIOUS
<1>21. /\ u \in PortType /\ PortInv(u) /\ Rest(u)
       /\ ~u.present /\ ~u.initialized /\ u.id = NoId /\ ~u.selected /\ u.slave = NoId
  BY <1>20, AbsentPortType
<1>22. port' = [port EXCEPT ![p] = u] /\ agg' = r.agg
  <2>1. (IF t.slave = t.id THEN NoId ELSE t.slave) = NoId
    <3>1. t.slave # NoId => t.selected /\ t.id # NoId
      BY <1>2 DEF PortInv, Rest
    <3> QED  BY <1>2, <3>1 DEF PortInv
  <2>2. [AbsentPort EXCEPT !.slave = NoId] = u
    BY <1>20, <1>21 DEF PortType
  <2> QED  BY <1>1, <2>1, <2>2 DEF DelDevice
<1>23. PICK n : n = Now'
  OBVIOUS
<1>24. n = [port |-> port', agg |-> agg', sent |-> <<>>, at |-> <<1, 0>>]
  BY <1>23 DEF Now
<1>25. /\ n.port = port' /\ n.agg = r.agg /\ n.port[p] = u
       /\ \A o \in Ports \ {p} : n.port[o] = r.port[o] /\ n.port[o] = port[o]
  BY <1>2, <1>4, <1>22, <1>24
<1>26. n \in RunType
  <2>1. port' \in [Ports -> PortType] /\ agg' \in [Ids -> AggType]
    BY <1>2, <1>4, <1>21, <1>22 DEF RunType
  <2>2. << >> \in Seq(PduType) /\ <<1, 0>> \in (0..5) \X (0..5)
    OBVIOUS
  <2> QED  BY <1>24, <2>1, <2>2 DEF RunType
<1>27. Good(n)
  <2>1. \A o \in Ports : PortInv(n.port[o])
    BY <1>2, <1>21, <1>25 DEF Good
  <2>2. n.port[p].id = NoId /\ ~n.port[p].selected /\ \A o \in Ports \ {p} : n.port[o] = r.port[o]
    BY <1>21, <1>25
  <2>3. n.agg = r.agg
    BY <1>25
  <2> QED  BY ONLY p \in Ports, <1>3, <1>26, <2>1, <2>2, <2>3, GoodLeft
<1>28. Good(Now)' /\ \A o \in Ports : Rest(port[o])'
  BY <1>21, <1>23, <1>25, <1>27 DEF IInv
<1>29. Listed(Now)'
  <2>1. ASSUME NEW o \in Ports, n.port[o].id # NoId
        PROVE  Contains(list'[SystemOf[o]], n.port[o].id)
    <3>1. o # p /\ n.port[o] = port[o] /\ r.port[o] = port[o]
      BY <1>4, <1>21, <1>25, <2>1
    <3>2. n.port[o].id \in Ids /\ SystemOf[o] \in Systems
      BY <1>26, <2>1, PortFields, TopologyAssumption DEF RunType
    <3>3. Contains(list[SystemOf[o]], n.port[o].id)
      BY <1>2, <1>6, <2>1, <3>1 DEF Listed
    <3>4. n.port[o].id # x
      BY <1>3, <1>9, <1>10, <3>1 DEF Agree, IsFree
    <3> QED  BY <1>19, <3>2, <3>3, <3>4
  <2> QED  BY <1>23, <2>1 DEF Listed
<1>30. Counted(Now)'
  <2> SUFFICES ASSUME NEW z \in Systems
               PROVE  Len(list'[z]) = Cardinality({o \in Ports : n.port[o].present /\ SystemOf[o] = z})
    BY <1>23 DEF Counted
  <2>1. PICK T, U : /\ T = {o \in Ports : s.port[o].present /\ SystemOf[o] = z}
                    /\ U = {o \in Ports : n.port[o].present /\ SystemOf[o] = z}
    OBVIOUS
  <2>2. p \notin U /\ (p \in T <=> z = y)
    BY <1>1, <1>2, <1>21, <1>25, <2>1
  <2>3. T \in SUBSET Ports /\ U \ {p} = T \ {p}
    BY <1>2, <1>25, <2>1
  <2>4. /\ Cardinality(T) \in Nat
        /\ Cardinality(U) = Cardinality(T) - (IF p \in T THEN 1 ELSE 0) + (IF p \in U THEN 1 ELSE 0)
    BY ONLY p \in Ports, <2>3, PresentOf
  <2>5. Len(list[z]) = Cardinality(T)
    BY <1>6, <2>1 DEF Counted
  <2>6. Len(list'[z]) = Len(list[z]) - (IF z = y THEN 1 ELSE 0)
    BY <1>6, <1>8, <1>12, <1>13
  <2>7. Len(list'[z]) = Cardinality(U)
    BY <2>2, <2>4, <2>5, <2>6
  <2> QED  BY <2>1, <2>7
<1>31. Cardinality(Used)' = Cardinality(Present)'
  <2>1. Used' = Used \ {x} /\ Used \in SUBSET Ids /\ x \in Used
    <3>1. Used' = Used \ {x} /\ Used \in SUBSET Ids
      BY <1>19 DEF Used
    <3>2. Contains(list[y], x)
      BY <1>8, <1>10, <1>12 DEF Contains
    <3> QED  BY <1>5, <3>1, <3>2 DEF Used
  <2>2. Present' = Present \ {p} /\ Present \in SUBSET Ports /\ p \in Present
    BY <1>1, <1>2, <1>21, <1>22 DEF Present
  <2>3. IsFiniteSet(Used) /\ IsFiniteSet(Present)
    BY <2>1, <2>2, TopologyAssumption, IdAssumption, FS_Subset
  <2>4. Cardinality(Used \ {x}) = Cardinality(Used) - 1
    BY <2>1, <2>3, FS_RemoveElement
  <2>5. Cardinality(Present \ {p}) = Cardinality(Present) - 1
    BY <2>2, <2>3, FS_RemoveElement
  <2> QED  BY <2>1, <2>2, <2>4, <2>5 DEF IInv
<1>32. (faults \in 0..MaxFaults)'
  BY FaultCounted DEF DelDevice
<1>33. Stocked(Now)'
  BY <1>14, <1>18, <1>29, <1>30 DEF Stocked
<1> QED  BY <1>28, <1>31, <1>32, <1>33 DEF IInv

-----------------------------------------------------------------------------
(* What holds of every behaviour *)

(* There are no devices yet. *)
LEMMA InitInvariant ==
  ASSUME Init
  PROVE  IInv
<1>1. PICK s, u : s = Now /\ u = AbsentPort
  OBVIOUS
<1>2. /\ s = [port |-> port, agg |-> agg, sent |-> <<>>, at |-> <<1, 0>>]
      /\ s.port = port /\ s.agg = agg
  BY <1>1 DEF Now
<1>3. /\ u \in PortType /\ PortInv(u) /\ Rest(u)
      /\ ~u.present /\ ~u.initialized /\ u.id = NoId /\ ~u.selected
  BY <1>1, AbsentPortType
<1>4. \A o \in Ports : port[o] = u
  BY <1>1 DEF Init
<1>5. \A a \in Ids : agg[a].ports = {} /\ agg[a].individual = FALSE /\ agg[a].ready = FALSE
  BY DEF Init, FreeAgg
<1>6. s \in RunType
  <2>1. port \in [Ports -> PortType]
    BY <1>1, <1>3 DEF Init
  <2>2. agg \in [Ids -> AggType]
    BY DEF Init, FreeAgg, AggType
  <2>3. << >> \in Seq(PduType) /\ <<1, 0>> \in (0..5) \X (0..5)
    OBVIOUS
  <2> QED  BY <1>2, <2>1, <2>2, <2>3 DEF RunType
<1>7. Good(s)
  <2>1. Agree(s)
    BY <1>2, <1>3, <1>4, <1>5, IdAssumption DEF Agree
  <2>2. Exact(s) /\ Alone(s)
    BY <1>2, <1>5 DEF Exact, Alone
  <2>3. Matched(s) /\ \A o \in Ports : PortInv(s.port[o])
    BY <1>2, <1>3, <1>4 DEF Matched
  <2> QED  BY <1>6, <2>1, <2>2, <2>3 DEF Good
<1>8. Stocked(s)
  <2>1. list \in [Systems -> Seq(Ids)] /\ \A y \in Systems : list[y] = <<>>
    BY DEF Init
  <2>2. Distinct
    BY <2>1 DEF Distinct
  <2>3. Counted(s)
    <3> SUFFICES ASSUME NEW y \in Systems
                 PROVE  Len(list[y]) = Cardinality({o \in Ports : s.port[o].present /\ SystemOf[o] = y})
      BY DEF Counted
    <3>1. {o \in Ports : s.port[o].present /\ SystemOf[o] = y} = {}
      BY <1>2, <1>3, <1>4
    <3>2. Len(list[y]) = 0
      <4>1. list[y] = << >>
        BY <2>1
      <4> QED  BY ONLY <4>1
    <3>3. Cardinality({o \in Ports : s.port[o].present /\ SystemOf[o] = y}) = 0
      BY <3>1, FS_EmptySet
    <3> QED  BY <3>2, <3>3
  <2>4. Listed(s)
    BY <1>2, <1>3, <1>4 DEF Listed
  <2> QED  BY <2>1, <2>2, <2>3, <2>4 DEF Stocked
<1>9. Used = {} /\ Present = {}
  <2>1. \A y \in Systems : list[y] = <<>>
    BY DEF Init
  <2> QED  BY <1>3, <1>4, <2>1 DEF Used, Present, Contains
<1>10. faults \in 0..MaxFaults
  BY NumberAssumption DEF Init
<1> QED  BY <1>1, <1>3, <1>4, <1>7, <1>8, <1>9, <1>10 DEF IInv

(* There are no frames yet. *)
LEMMA InitFramed ==
  ASSUME Init
  PROVE  Framed
<1>1. << >> \in Seq(PduType) /\ 1 \in Nat \ {0}
  OBVIOUS
<1> QED  BY <1>1 DEF Init, Framed

(* No step of the daemon, of a link or of a partner puts it out of order. *)
LEMMA NextInvariant ==
  ASSUME IInv, Framed, [Next]_vars
  PROVE  IInv'
<1>1. CASE UNCHANGED vars
  BY <1>1, Unmoved, FaultCounted DEF vars
<1>2. CASE Next
  <2>1. PICK p \in Ports :
          \/ InitialRun(p) \/ Run(p) \/ Receive(p) \/ Lose(p) \/ ForeignPdu(p)
          \/ CurrentWhileExpires(p) \/ PeriodicExpires(p) \/ WaitWhileExpires(p) \/ RateTimer(p)
          \/ \E key \in Keys, duplex \in Duplex, up \in BOOLEAN : Link(p, key, duplex, up)
          \/ DelDevice(p)
    BY <1>2 DEF Next, Event, Timer
  <2>2. CASE InitialRun(p)
    BY <2>2, InitialStep
  <2>3. CASE Run(p)
    BY <2>3, RunsOn
  <2>4. CASE CurrentWhileExpires(p)
    BY <2>4, CurrentWhileStep
  <2>5. CASE PeriodicExpires(p)
    BY <2>5, PeriodicStep
  <2>6. CASE WaitWhileExpires(p)
    BY <2>6, WaitStep
  <2>7. CASE RateTimer(p)
    BY <2>7, RateStep
  <2>8. CASE ForeignPdu(p)
    BY <2>8, ForeignStep
  <2>9. CASE \E key \in Keys, duplex \in Duplex, up \in BOOLEAN : Link(p, key, duplex, up)
    <3>1. PICK key \in Keys, duplex \in Duplex, up \in BOOLEAN : Link(p, key, duplex, up)
      BY <2>9
    <3>2. CASE LinkStatusChanged(p, up, key, duplex)
      BY <3>2, LinkStep
    <3>3. CASE AddDevice(p, key, duplex, up)
      BY <3>3, AddStep
    <3> QED  BY <3>1, <3>2, <3>3 DEF Link
  <2>10. CASE DelDevice(p)
    BY <2>10, DelStep
  <2>11. CASE Receive(p)
    BY <2>11, ReceiveStep
  <2>12. CASE Lose(p)
    BY <2>12, LoseStep
  <2> QED  BY <2>1, <2>2, <2>3, <2>4, <2>5, <2>6, <2>7, <2>8, <2>9, <2>10, <2>11, <2>12
<1> QED  BY <1>1, <1>2

(* What a run sends are frames, what is read was on its way, and numbers   *)
(* only grow.                                                              *)
LEMMA FramedKept ==
  ASSUME IInv, Framed, [Next]_vars
  PROVE  Framed'
<1>1. /\ next_port_agg_id \in [Systems -> Nat \ {0}] /\ wire \in [Ports -> Seq(PduType)]
  BY DEF Framed
<1>2. CASE UNCHANGED <<next_port_agg_id, wire>>
  BY <1>1, <1>2 DEF Framed
<1>3. ASSUME NEW p \in Ports, Run(p)  PROVE Framed'
  <2>1. PICK x : x = RunOf(p).sent
    OBVIOUS
  <2>2. x \in Seq(PduType)
    <3>1. port[p].present /\ Good(Now) /\ Stocked(Now)
      BY <1>3 DEF Run, Ready, IInv
    <3>2. Ended(p, RunOf(p))
      BY <3>1, RunResult
    <3> QED  BY <2>1, <3>2 DEF Ended
  <2>3. \/ wire' = wire
        \/ Peer[p] # NoPort /\ wire' = [wire EXCEPT ![Peer[p]] = wire[Peer[p]] \o x]
    BY <1>3, <2>1 DEF Run, Linked
  <2>4. CASE Peer[p] # NoPort /\ wire' = [wire EXCEPT ![Peer[p]] = wire[Peer[p]] \o x]
    <3>1. PICK o \in Ports : o = Peer[p]
      BY <2>4, TopologyAssumption
    <3>2. wire[o] \o x \in Seq(PduType)
      BY <1>1, <2>2
    <3> QED  BY <1>1, <1>3, <2>4, <3>1, <3>2 DEF Framed, Run
  <2> QED  BY <1>1, <1>3, <2>3, <2>4 DEF Framed, Run
<1>4. ASSUME NEW p \in Ports, Receive(p) \/ Lose(p)  PROVE Framed'
  <2>1. wire[p] # <<>> /\ wire[p] \in Seq(PduType)
    BY <1>1, <1>4 DEF Receive, Lose
  <2>2. Tail(wire[p]) \in Seq(PduType)
    BY <2>1
  <2>3. wire' = [wire EXCEPT ![p] = Tail(wire[p])] /\ next_port_agg_id' = next_port_agg_id
    BY <1>4 DEF Receive, Lose
  <2> QED  BY <1>1, <2>2, <2>3 DEF Framed
<1>5. ASSUME NEW p \in Ports, NEW key, NEW duplex, NEW up, AddDevice(p, key, duplex, up)
      PROVE  Framed'
  <2>1. /\ next_port_agg_id' = [next_port_agg_id EXCEPT ![SystemOf[p]] = next_port_agg_id[SystemOf[p]] + 1]
        /\ wire' = wire
    BY <1>5 DEF AddDevice
  <2>2. next_port_agg_id[SystemOf[p]] + 1 \in Nat \ {0}
    BY <1>1, TopologyAssumption
  <2> QED  BY <1>1, <2>1, <2>2 DEF Framed
<1>6. ASSUME UNCHANGED vars  PROVE UNCHANGED <<next_port_agg_id, wire>>
  BY <1>6 DEF vars
<1>7. ASSUME NEW p \in Ports, Timer(p)  PROVE UNCHANGED <<next_port_agg_id, wire>>
  BY <1>7 DEF Timer, PeriodicExpires, WaitWhileExpires, RateTimer
<1>8. ASSUME NEW p \in Ports, Event(p)  PROVE Framed'
  <2>1. ASSUME \/ InitialRun(p) \/ CurrentWhileExpires(p) \/ DelDevice(p) \/ ForeignPdu(p)
               \/ \E key, duplex, up : LinkStatusChanged(p, up, key, duplex)
        PROVE  UNCHANGED <<next_port_agg_id, wire>>
    BY <2>1 DEF InitialRun, CurrentWhileExpires, DelDevice, ForeignPdu, LinkStatusChanged
  <2> QED  BY <1>2, <1>3, <1>4, <1>5, <1>8, <2>1 DEF Event, Link
<1> QED  BY <1>2, <1>6, <1>7, <1>8 DEF Next

(***************************************************************************)
(* The inductive invariant holds of every behaviour: whatever devices come *)
(* and go, links do and partners say, and however runs and timers          *)
(* interleave.                                                             *)
(***************************************************************************)
THEOREM Invariant == Spec => [](IInv /\ Framed)
<1>1. Init => IInv /\ Framed
  BY InitInvariant, InitFramed
<1>2. IInv /\ Framed /\ [Next]_vars => (IInv /\ Framed)'
  BY NextInvariant, FramedKept
<1> QED  BY <1>1, <1>2, PTL DEF Spec

(* The variables have their types; in particular the frames of a port in a *)
(* second stay within the limit, whatever runs when.                       *)
THEOREM TypeCorrect == Spec => []TypeOK
<1>1. ASSUME IInv, Framed  PROVE TypeOK
  <2>1. Good(Now) /\ Now.port = port /\ Now.agg = agg
    BY <1>1 DEF IInv, Now
  <2>2. port \in [Ports -> PortType] /\ agg \in [Ids -> AggType]
    BY <2>1 DEF Good, RunType
  <2> QED  BY <1>1, <2>2 DEF TypeOK, IInv, Stocked, Framed
<1> QED  BY <1>1, Invariant, PTL

(* A step of one port, which does not touch its device. *)
LEMMA DeviceKept ==
  ASSUME NEW p \in Ports, NEW q \in Ports, NEW t, NEW u, port \in [Ports -> PortType],
         t = port[q], u.slave = t.slave, port' = [port EXCEPT ![q] = u]
  PROVE  port'[p].slave = port[p].slave
  OBVIOUS

(* A run leaves the device where it is, or takes it out of its bond. *)
LEMMA RunBond ==
  ASSUME IInv, NEW p \in Ports, NEW q \in Ports, Run(q)
  PROVE  port[p].slave # NoId /\ port'[p].slave # NoId => port'[p].slave = port[p].slave
<1>1. PICK r : r = RunOf(q)
  OBVIOUS
<1>2. Ended(q, r) /\ OnlyRuns(q, Now, r)
  <2>1. port[q].present /\ Good(Now) /\ Stocked(Now)
    BY DEF Run, Ready, IInv
  <2> QED  BY <1>1, <2>1, RunResult
<1>4. port'[p].slave = r.port[p].slave
  BY <1>1 DEF Run
<1>5. CASE p # q
  <2>1. r.port[p] = port[p]
    BY <1>2, <1>5 DEF OnlyRuns, Now
  <2> QED  BY <1>4, <2>1
<1>6. CASE p = q /\ port[p].slave # NoId
  <2>1. PICK b, t : b = port[p].slave /\ t = port[p]
    OBVIOUS
  <2>2. t \in PortType /\ PortInv(t)
    BY <2>1, AtPort
  <2>3. b \in Ids
    BY <1>6, <2>1, <2>2, PortFields
  <2>4. Bound(t, b)
    BY <1>6, <2>1, <2>2 DEF Bound, PortInv
  <2>5. StaysBound(t, r.port[p])
    BY <1>2, <1>6, <2>1 DEF OnlyRuns, Now
  <2>6. r.port[p].slave \in {b, NoId}
    BY <2>3, <2>4, <2>5 DEF StaysBound, Bound
  <2> QED  BY <1>4, <2>1, <2>6
<1> QED  BY <1>5, <1>6

(* A timer or a frame that arrives writes other fields. *)
LEMMA FieldBond ==
  ASSUME IInv, NEW p \in Ports, NEW q \in Ports,
         \/ CurrentWhileExpires(q) \/ PeriodicExpires(q) \/ RateTimer(q)
         \/ Receive(q) \/ Lose(q) \/ ForeignPdu(q)
         \/ \E key, duplex, up : LinkStatusChanged(q, up, key, duplex)
  PROVE  port'[p].slave = port[p].slave
<1>1. PICK t : t = port[q]
  OBVIOUS
<1>2. t \in PortType /\ port \in [Ports -> PortType]
  BY <1>1, AtPort
<1>3. CASE CurrentWhileExpires(q)
  <2>1. PICK u : u = [t EXCEPT !.current_while = FALSE]
    OBVIOUS
  <2>2. u.slave = t.slave
    BY <1>2, <2>1 DEF PortType
  <2>3. port' = [port EXCEPT ![q] = u]
    BY <1>1, <1>2, <1>3, <2>1 DEF CurrentWhileExpires
  <2> QED  BY ONLY p \in Ports, q \in Ports, <1>1, <1>2, <2>2, <2>3, DeviceKept
<1>4. CASE PeriodicExpires(q)
  <2>1. PICK u : u = [t EXCEPT !.periodic_timer = FALSE]
    OBVIOUS
  <2>2. u.slave = t.slave
    BY <1>2, <2>1 DEF PortType
  <2>3. port' = [port EXCEPT ![q] = u]
    BY <1>1, <1>2, <1>4, <2>1 DEF PeriodicExpires
  <2> QED  BY ONLY p \in Ports, q \in Ports, <1>1, <1>2, <2>2, <2>3, DeviceKept
<1>5. CASE RateTimer(q)
  <2>1. PICK u : u = [t EXCEPT !.pkt_sent = 0]
    OBVIOUS
  <2>2. u.slave = t.slave
    BY <1>2, <2>1 DEF PortType
  <2>3. port' = [port EXCEPT ![q] = u]
    BY <1>1, <1>2, <1>5, <2>1 DEF RateTimer
  <2> QED  BY ONLY p \in Ports, q \in Ports, <1>1, <1>2, <2>2, <2>3, DeviceKept
<1>6. CASE ForeignPdu(q)
  <2>0. PICK m : port' = [port EXCEPT ![q].message = m]
    BY <1>6 DEF ForeignPdu
  <2>1. PICK u : u = [t EXCEPT !.message = m]
    OBVIOUS
  <2>2. u.slave = t.slave
    BY <1>2, <2>1 DEF PortType
  <2>3. port' = [port EXCEPT ![q] = u]
    BY <1>1, <1>2, <2>0, <2>1
  <2> QED  BY ONLY p \in Ports, q \in Ports, <1>1, <1>2, <2>2, <2>3, DeviceKept
<1>7. CASE \E key, duplex, up : LinkStatusChanged(q, up, key, duplex)
  <2>0. PICK key, duplex, up : LinkStatusChanged(q, up, key, duplex)
    BY <1>7
  <2>1. PICK u : u = [t EXCEPT !.key = key, !.aggregation = duplex, !.port_enabled = up,
                               !.initialized = FALSE]
    OBVIOUS
  <2>2. u.slave = t.slave
    BY <1>2, <2>1 DEF PortType
  <2>3. port' = [port EXCEPT ![q] = u]
    BY <1>1, <1>2, <2>0, <2>1 DEF LinkStatusChanged
  <2> QED  BY ONLY p \in Ports, q \in Ports, <1>1, <1>2, <2>2, <2>3, DeviceKept
<1>8. CASE Receive(q) \/ Lose(q)
  <2>1. PICK u : u = [t EXCEPT !.message = Head(wire[q])]
    OBVIOUS
  <2>2. u.slave = t.slave
    BY <1>2, <2>1 DEF PortType
  <2>3. port' = [port EXCEPT ![q] = u] \/ port' = port
    BY <1>1, <1>2, <1>8, <2>1 DEF Receive, Lose
  <2>4. CASE port' = [port EXCEPT ![q] = u]
    BY ONLY p \in Ports, q \in Ports, <1>1, <1>2, <2>2, <2>4, DeviceKept
  <2> QED  BY <2>3, <2>4
<1> QED  BY <1>3, <1>4, <1>5, <1>6, <1>7, <1>8

(* The end of the wait makes ready and attaches nothing. *)
LEMMA WaitBond ==
  ASSUME IInv, NEW p \in Ports, NEW q \in Ports, WaitWhileExpires(q)
  PROVE  port'[p].slave = port[p].slave
<1>1. PICK t, s : t = port[q] /\ s = Now
  OBVIOUS
<1>2. /\ t \in PortType /\ port \in [Ports -> PortType] /\ s.port = port /\ s \in RunType
  <2>1. s \in RunType
    BY <1>1 DEF IInv, Good
  <2> QED  BY <1>1, <2>1, AtPort DEF Now
<1>3. PICK u, w : /\ u = [t EXCEPT !.wait_while = FALSE]
                  /\ w = [t EXCEPT !.wait_while = FALSE, !.ready_N = TRUE]
  OBVIOUS
<1>4. u.slave = t.slave /\ w.slave = t.slave
  BY <1>2, <1>3 DEF PortType
<1>5. port' = [port EXCEPT ![q] = u] \/ port' = [port EXCEPT ![q] = w]
  <2>1. PICK off : off = [s EXCEPT !.port[q].wait_while = FALSE]
    OBVIOUS
  <2>2. off.port = [port EXCEPT ![q] = u]
    BY <1>1, <1>2, <1>3, <2>1 DEF RunType
  <2>3. PICK on : on = [off EXCEPT !.port[q].ready_N = TRUE]
    OBVIOUS
  <2>4. on.port = [port EXCEPT ![q] = w]
    <3>1. on.port = [off.port EXCEPT ![q].ready_N = TRUE]
      BY <1>2, <2>1, <2>3 DEF RunType
    <3>2. w = [u EXCEPT !.ready_N = TRUE]
      BY <1>2, <1>3 DEF PortType
    <3> QED  BY <1>2, <2>2, <3>1, <3>2
  <2>5. UpdateReady(on, t.id).port = on.port
    BY <1>2, <2>1, <2>3 DEF UpdateReady, RunType
  <2>6. port' = off.port \/ port' = UpdateReady(on, t.id).port
    BY <1>1, <2>1, <2>3 DEF WaitWhileExpires
  <2> QED  BY <2>2, <2>4, <2>5, <2>6
<1>6. CASE port' = [port EXCEPT ![q] = u]
  BY ONLY p \in Ports, q \in Ports, <1>1, <1>2, <1>4, <1>6, DeviceKept
<1>7. CASE port' = [port EXCEPT ![q] = w]
  BY ONLY p \in Ports, q \in Ports, <1>1, <1>2, <1>4, <1>7, DeviceKept
<1> QED  BY <1>5, <1>6, <1>7

(* A device that comes or goes. *)
LEMMA DeviceBond ==
  ASSUME IInv, NEW p \in Ports, NEW q \in Ports,
         DelDevice(q) \/ \E key, duplex, up : AddDevice(q, key, duplex, up)
  PROVE  port'[p].slave \in {port[p].slave, NoId}
<1>1. port \in [Ports -> PortType]
  BY AtPort
<1>2. CASE DelDevice(q)
  <2>1. PICK u : u = [AbsentPort EXCEPT !.slave = IF port[q].slave = port[q].id THEN NoId
                                                  ELSE port[q].slave]
    OBVIOUS
  <2>2. AbsentPort \in PortType
    BY AbsentPortType
  <2>3. u.slave \in {port[q].slave, NoId}
    BY <2>1, <2>2 DEF PortType
  <2>4. port' = [port EXCEPT ![q] = u]
    BY <1>2, <2>1 DEF DelDevice
  <2> QED  BY <1>1, <2>3, <2>4
<1>3. CASE \E key, duplex, up : AddDevice(q, key, duplex, up)
  <2>1. PICK key, duplex, up : AddDevice(q, key, duplex, up)
    BY <1>3
  <2>2. PICK u : u = [FreshPort(next_port_agg_id[SystemOf[q]], key, duplex, up)
                        EXCEPT !.slave = port[q].slave]
    OBVIOUS
  <2>3. u.slave = port[q].slave
    BY <2>2 DEF FreshPort
  <2>4. port' = [port EXCEPT ![q] = u]
    BY <2>1, <2>2 DEF AddDevice
  <2> QED  BY <1>1, <2>3, <2>4
<1> QED  BY <1>2, <1>3

(* No step moves a device from one bond to another: whatever has changed   *)
(* when the machines run, a port that selects another aggregator has to    *)
(* wait before it is ready, so the run ends with its device in no bond.    *)
THEOREM OneBondAtATime == Spec => OneBond
<1>1. ASSUME IInv, [Next]_vars
      PROVE  [\A p \in Ports : port[p].slave # NoId /\ port'[p].slave # NoId
                                 => port'[p].slave = port[p].slave]_vars
  <2> SUFFICES ASSUME Next, NEW p \in Ports
               PROVE  port[p].slave # NoId /\ port'[p].slave # NoId
                        => port'[p].slave = port[p].slave
    BY <1>1
  <2>1. PICK q \in Ports :
          \/ InitialRun(q) \/ Run(q) \/ Receive(q) \/ Lose(q) \/ ForeignPdu(q)
          \/ CurrentWhileExpires(q) \/ PeriodicExpires(q) \/ WaitWhileExpires(q) \/ RateTimer(q)
          \/ \E key \in Keys, duplex \in Duplex, up \in BOOLEAN : Link(q, key, duplex, up)
          \/ DelDevice(q)
    BY DEF Next, Event, Timer
  <2>2. CASE InitialRun(q)
    <3>1. port'[q].slave = NoId /\ \A o \in Ports \ {q} : port'[o] = port[o]
      BY <1>1, <2>2, InitialStep
    <3> QED  BY <3>1
  <2>3. CASE Run(q)
    BY <1>1, <2>3, RunBond
  <2>4. CASE \/ CurrentWhileExpires(q) \/ PeriodicExpires(q) \/ RateTimer(q)
             \/ Receive(q) \/ Lose(q) \/ ForeignPdu(q)
             \/ \E key, duplex, up : LinkStatusChanged(q, up, key, duplex)
    BY <1>1, <2>4, FieldBond
  <2>5. CASE WaitWhileExpires(q)
    BY <1>1, <2>5, WaitBond
  <2>6. CASE DelDevice(q) \/ \E key, duplex, up : AddDevice(q, key, duplex, up)
    <3>1. port'[p].slave \in {port[p].slave, NoId}
      BY <1>1, <2>6, DeviceBond
    <3> QED  BY <3>1
  <2> QED  BY <2>1, <2>2, <2>3, <2>4, <2>5, <2>6 DEF Link
<1> QED  BY <1>1, Invariant, PTL DEF Spec, OneBond

(* Ports and aggregators agree on who is a member of what, and there is an *)
(* aggregator for each port of an instance: lacpd_add_device() and         *)
(* lacpd_del_device() keep the numbers, the selection logic the members.   *)
THEOREM Members == Spec => []MembersAgree
<1>1. ASSUME IInv  PROVE MembersAgree
  <2>1. Agree(Now) /\ Counted(Now) /\ Listed(Now) /\ Now.port = port /\ Now.agg = agg
    BY <1>1 DEF IInv, Now, Good, Stocked
  <2>2. \A y \in Systems :
          Len(list[y]) = Cardinality({p \in Ports : port[p].present /\ SystemOf[p] = y})
    BY <2>1 DEF Counted
  <2>3. \A p \in Ports, a \in Ids : p \in agg[a].ports <=> port[p].id = a
    BY <2>1 DEF Agree
  <2>4. \A p \in Ports : port[p].id # NoId => Contains(list[SystemOf[p]], port[p].id)
    BY <2>1 DEF Listed
  <2> QED  BY <2>2, <2>3, <2>4 DEF MembersAgree
<1> QED  BY <1>1, Invariant, PTL

(* The ports of an aggregator have one key and one partner: a port whose   *)
(* partner changed is not selected, and a run does not end with a port     *)
(* that is a member without being selected.                                *)
THEOREM Partners == Spec => []OnePartner
<1>1. ASSUME IInv  PROVE OnePartner
  <2>1. Good(Now) /\ Now.port = port /\ Now.agg = agg
    BY <1>1 DEF IInv, Now
  <2>2. Agree(Now) /\ Alone(Now) /\ Matched(Now) /\ agg \in [Ids -> AggType]
    BY <2>1 DEF Good, RunType
  <2> SUFFICES ASSUME NEW a \in Ids, NEW p \in agg[a].ports, AtRest(p)
               PROVE  /\ port[p].key = agg[a].key
                      /\ port[p].partner.system = agg[a].partner_system
                      /\ port[p].partner.key = agg[a].partner_key
                      /\ (port[p].aggregation /\ port[p].partner.aggregation) \/ agg[a].ports = {p}
    BY DEF OnePartner
  <2>3. p \in Ports
    BY <2>2 DEF AggType
  <2>4. port[p].id = a /\ a # NoId
    BY <2>1, <2>2, <2>3, IdAssumption DEF Agree
  <2>5. port[p].selected /\ port[p].initialized
    BY <1>1, <2>3, <2>4, AtPort DEF PortInv, Rest, AtRest
  <2>6. Match(port[p], agg[a])
    BY <2>1, <2>2, <2>3, <2>4, <2>5 DEF Matched
  <2>7. agg[a].individual => agg[a].ports = {p}
    BY <2>1, <2>2 DEF Alone
  <2> QED  BY <2>6, <2>7 DEF Match
<1> QED  BY <1>1, Invariant, PTL

(* A device carries traffic exactly while its port says that it            *)
(* distributes, for the aggregator the port has selected, and on the word  *)
(* of a partner that is current; a device that is gone carries none.       *)
THEOREM Carried == Spec => []CarriedExactly
<1>1. ASSUME IInv  PROVE CarriedExactly
  <2> SUFFICES ASSUME NEW p \in Ports
               PROVE  /\ AtRest(p) => port[p].distributing = (port[p].slave # NoId)
                      /\ AtRest(p) /\ port[p].distributing =>
                           /\ port[p].slave = port[p].id /\ port[p].mux = "COLLECTING_DISTRIBUTING"
                           /\ port[p].recv = "CURRENT" /\ port[p].partner.synchronization
                      /\ port[p].slave # NoId => port[p].present
    BY DEF CarriedExactly
  <2>1. PortInv(port[p]) /\ Rest(port[p]) /\ port[p].distributing \in BOOLEAN
    BY <1>1, AtPort, PortFields
  <2> QED  BY <2>1 DEF PortInv, Rest
<1> QED  BY <1>1, Invariant, PTL

(* An aggregator is ready exactly if it has members and all of them have   *)
(* waited: every change of the members or of what one of them says goes    *)
(* with lacpd_aggregator_update_ready().                                   *)
THEOREM ReadyInStep == Spec => []ReadyExact
<1>1. ASSUME IInv  PROVE ReadyExact
  <2>1. Exact(Now) /\ Now.port = port /\ Now.agg = agg
    BY <1>1 DEF IInv, Now, Good
  <2> QED  BY <2>1 DEF Exact, ReadyExact
<1> QED  BY <1>1, Invariant, PTL

(* fsm_runner_run() ends, and within a run a port sends one frame at most: *)
(* after 18 states at the latest, for any number of ports and whatever the *)
(* partners have sent.                                                     *)
THEOREM RunsEnd == Spec => []RunEnds
<1>1. ASSUME IInv  PROVE RunEnds
  <2> SUFFICES ASSUME NEW p \in Ports, Ready(p)
               PROVE  RunOf(p).at = AtEnd /\ Len(RunOf(p).sent) <= 1
    BY DEF RunEnds
  <2>1. Ended(p, RunOf(p))
    BY <1>1, RunResult DEF IInv, Ready
  <2> QED  BY <2>1 DEF Ended
<1> QED  BY <1>1, Invariant, PTL
=============================================================================
