-------------------------------- MODULE Lacp --------------------------------
(***************************************************************************)
(* The link aggregation daemon (qca-lacpd): the five state machines of     *)
(* each port, the aggregators the ports of a system select and the devices *)
(* that carry them, between systems that run the same code or against a    *)
(* partner that sends what it likes.                                       *)
(*                                                                         *)
(* The daemon is one event loop: a timer, a frame, a change of a link or a *)
(* run of the state machines of a port is a step, that nothing interrupts. *)
(* A frame that a run sends is on its way until the event loop at the      *)
(* other end reads it from its socket.                                     *)
(* Every port is run at least once a second (the rate limit timer sees to  *)
(* it), so a run may begin at any time.  lacp_enabled is never cleared and *)
(* port_moved never set: what depends on them is left out, and so are the  *)
(* bits defaulted and expired, which no condition reads.                   *)
(***************************************************************************)
EXTENDS Integers, Sequences, FiniteSets, FiniteSetsExt, SequencesExt

CONSTANTS
  Ports,        \* the network devices
  Systems,      \* the LACP instances
  SystemOf,     \* the instance a device can join
  Peer,         \* the port at the other end of the link, or NoPort
  Short,        \* ports whose lacp_rate asks for short timeouts
  Keys,         \* operational keys (speed and user key) a link may come up with
  Duplex,       \* whether a link may come up full duplex
  Added,        \* whether a device may be up when it is added
  Ids,          \* aggregator identifiers
  Foreign(_, _), \* the LACPDUs that a partner that is not modelled sends to a port of a number
  RateLimit,    \* frames a port may send in a second (3 in the code)
  MaxNumber,    \* bound: number of a port (they are 16 bits wide in a frame)
  MaxFaults,    \* bound: faults in a behaviour
  Faulty,       \* bound: ports at which they happen
  RunBound,     \* bound: states entered in a run
  NoPort, NoSystem, NoId, NoPdu

ASSUME TopologyAssumption ==
  /\ IsFiniteSet(Ports) /\ SystemOf \in [Ports -> Systems]
  /\ NoPort \notin Ports /\ NoSystem \notin Systems
  /\ Peer \in [Ports -> Ports \cup {NoPort}] /\ Short \subseteq Ports
  /\ Faulty \subseteq Ports
ASSUME NumberAssumption ==
  /\ RateLimit \in Nat \ {0} /\ MaxNumber \in Nat /\ MaxFaults \in Nat
  /\ RunBound \in Nat /\ RunBound >= 20
  /\ Duplex \subseteq BOOLEAN /\ Added \subseteq BOOLEAN
(* A device brings an aggregator along, so there is an identifier for each *)
ASSUME IdAssumption ==
  /\ IsFiniteSet(Ids) /\ NoId \notin Ids /\ Cardinality(Ids) >= Cardinality(Ports)

VARIABLES
  port,     \* struct lacpd_port of each device, its state machines and timers
  agg,      \* struct lacpd_aggregator of each identifier
  list,     \* lacp->aggregators of each instance
  next_port_agg_id,  \* of each instance, the number its next port gets
  wire,     \* the frames on their way to each port, in the order they were sent
  faults    \* faults so far

vars == <<port, agg, list, next_port_agg_id, wire, faults>>

-----------------------------------------------------------------------------
(* struct lacpd_port_info *)

InfoType ==
  [system: Systems \cup {NoSystem}, port: 0..MaxNumber, key: Keys \cup {0},
   activity: BOOLEAN, timeout: BOOLEAN, aggregation: BOOLEAN, synchronization: BOOLEAN]
PduType == [actor: InfoType, partner: InfoType]

ASSUME ForeignAssumption == \A p \in Ports, n \in 0..MaxNumber : Foreign(p, n) \subseteq PduType

AdminPartner ==
  [system |-> NoSystem, port |-> 0, key |-> 0, activity |-> TRUE, timeout |-> FALSE,
   aggregation |-> FALSE, synchronization |-> FALSE]

(* port_info_equal(), ignoring all states except aggregation *)
Identity(i) == <<i.system, i.port, i.key, i.aggregation>>
SameIdentity(i, j) == Identity(i) = Identity(j)

(* What a port tells of itself: actor_port_info, with the number it got    *)
(* when its device was added                                               *)
Actor(p, t) ==
  [system |-> SystemOf[p], port |-> t.number, key |-> t.key, activity |-> TRUE,
   timeout |-> p \in Short, aggregation |-> t.aggregation,
   synchronization |-> t.synchronization]

FreshPort(number, key, duplex, up) ==
  [present |-> TRUE, number |-> number, port_enabled |-> up, initialized |-> FALSE,
   recv |-> "INITIALIZE", periodic |-> "NO_PERIODIC", select |-> "UNSELECTED",
   mux |-> "DETACHED", transmit |-> "NO_TX",
   key |-> key, aggregation |-> duplex, synchronization |-> FALSE, distributing |-> FALSE,
   partner |-> AdminPartner, selected |-> FALSE, id |-> NoId, ready_N |-> FALSE,
   ntt |-> FALSE, message |-> NoPdu, slave |-> NoId,
   current_while |-> FALSE, periodic_timer |-> FALSE, wait_while |-> FALSE, pkt_sent |-> 0]

AbsentPort == [FreshPort(0, 0, FALSE, FALSE) EXCEPT !.present = FALSE]

(* lacpd_aggregator_clear(); is_free says that there are no ports *)
FreeAgg == [ports |-> {}, individual |-> FALSE, key |-> 0, partner_system |-> NoSystem,
            partner_key |-> 0, ready |-> FALSE]

Init ==
  /\ port = [p \in Ports |-> AbsentPort]
  /\ agg = [a \in Ids |-> FreeAgg]
  /\ list = [y \in Systems |-> <<>>]
  /\ next_port_agg_id = [y \in Systems |-> 1]
  /\ wire = [p \in Ports |-> <<>>]
  /\ faults = 0

-----------------------------------------------------------------------------
(* Aggregators.  s holds what a run works on: s.port, s.agg, and s.sent,   *)
(* the last frame it sent.                                                 *)

IsFree(a) == a.ports = {}

(* lacpd_aggregator_update_ready() *)
UpdateReady(s, a) ==
  [s EXCEPT !.agg[a].ready = s.agg[a].ports # {}
                              /\ \A p \in s.agg[a].ports : s.port[p].ready_N]

(* lacpd_aggregator_init_by_port(), for the first member *)
InitByPort(a, t) ==
  [a EXCEPT !.individual = ~t.aggregation \/ t.partner.system = NoSystem
                            \/ ~t.partner.aggregation,
            !.key = t.key, !.partner_system = t.partner.system, !.partner_key = t.partner.key]

(* Mutant: a joining port does not take the ready bit back *)
MutAddKeepsReady(s, a, p) ==
  LET first == IF IsFree(s.agg[a]) THEN InitByPort(s.agg[a], s.port[p]) ELSE s.agg[a]
  IN [s EXCEPT !.agg[a] = [first EXCEPT !.ports = @ \cup {p}]]

AddPort(s, a, p) ==
  LET first == IF IsFree(s.agg[a]) THEN InitByPort(s.agg[a], s.port[p]) ELSE s.agg[a]
  IN UpdateReady([s EXCEPT !.agg[a] = [first EXCEPT !.ports = @ \cup {p}]], a)

DelPort(s, a, p) ==
  LET rest == s.agg[a].ports \ {p}
      left == IF rest = {} THEN FreeAgg ELSE [s.agg[a] EXCEPT !.ports = rest]
  IN UpdateReady([s EXCEPT !.agg[a] = left], a)

(* lacpd_aggregator_lookup(): the first of the list that passes the test *)
First(y, passing) ==
  LET at == {i \in DOMAIN list[y] : list[y][i] \in passing}
  IN IF at = {} THEN 0 ELSE Min(at)
Lookup(y, passing) ==
  IF First(y, passing) = 0 THEN NoId ELSE list[y][First(y, passing)]

(* Mutant: whose partner it is is not compared *)
MutFitsAnyPartner(a, t) ==
  ~IsFree(a) /\ ~a.individual /\ a.key = t.key /\ a.partner_key = t.partner.key

(* lacpd_fsm_select_aggregator_by_port() *)
FitsPort(a, t) ==
  /\ ~IsFree(a) /\ ~a.individual /\ a.key = t.key
  /\ a.partner_system = t.partner.system /\ a.partner_key = t.partner.key

(* lacpd_fsm_selection_logic_act_add_to_aggregator() *)
AddToAggregator(s, p) ==
  LET t == s.port[p]
      fits == IF t.aggregation /\ t.partner.system # NoSystem /\ t.partner.aggregation
              THEN Lookup(SystemOf[p], {a \in Ids : FitsPort(s.agg[a], t)}) ELSE NoId
      found == IF fits # NoId THEN fits ELSE Lookup(SystemOf[p], {a \in Ids : IsFree(s.agg[a])})
  IN IF found = NoId THEN s
     ELSE [AddPort(s, found, p) EXCEPT !.port[p].id = found, !.port[p].selected = TRUE]

(* Mutant: the identifier is forgotten, the membership is not *)
MutRemoveForgets(s, p) == [s EXCEPT !.port[p].id = NoId]

RemoveFromAggregator(s, p) ==
  IF s.port[p].id = NoId THEN s
  ELSE [DelPort(s, s.port[p].id, p) EXCEPT !.port[p].id = NoId]

-----------------------------------------------------------------------------
(* The state machines: for each, its states in the order in which they are *)
(* tested, the condition to enter one, and what entering it does           *)

ReceiveStates == <<"INITIALIZE", "PORT_DISABLED", "EXPIRED", "DEFAULTED", "CURRENT">>

(* Mutant: a current port does not expire *)
MutCurrentForEver(q, t) ==
  \/ q = "PORT_DISABLED" /\ \/ t.recv = "INITIALIZE"
                            \/ t.recv # "PORT_DISABLED" /\ ~t.port_enabled
  \/ q = "EXPIRED" /\ t.recv = "PORT_DISABLED" /\ t.port_enabled
  \/ q = "DEFAULTED" /\ t.recv = "EXPIRED" /\ ~t.current_while
  \/ q = "CURRENT" /\ t.message # NoPdu /\ t.recv \in {"EXPIRED", "DEFAULTED", "CURRENT"}

ReceiveCond(q, t) ==
  \/ q = "PORT_DISABLED" /\ \/ t.recv = "INITIALIZE"
                            \/ t.recv # "PORT_DISABLED" /\ ~t.port_enabled
  \/ q = "EXPIRED" /\ \/ t.recv = "PORT_DISABLED" /\ t.port_enabled
                      \/ t.recv = "CURRENT" /\ ~t.current_while
  \/ q = "DEFAULTED" /\ t.recv = "EXPIRED" /\ ~t.current_while
  \/ q = "CURRENT" /\ t.message # NoPdu /\ t.recv \in {"EXPIRED", "DEFAULTED", "CURRENT"}

(* record_PDU: the partner counts as in sync only if the link is active and *)
(* the partner knows whom it talks to                                       *)
PartnerInSync(p, t, m) ==
  /\ m.actor.synchronization
  /\ m.actor.activity \/ m.partner.activity
  /\ m.actor.aggregation => SameIdentity(m.partner, Actor(p, t))

(* Mutant: lacpdu_indicate is not cleared *)
MutKeepsMessage(p, t, m) ==
  [t EXCEPT !.selected = @ /\ SameIdentity(m.actor, t.partner),
            !.ntt = @ \/ m.partner # Actor(p, t),
            !.partner = [m.actor EXCEPT !.synchronization = PartnerInSync(p, t, m)],
            !.current_while = TRUE]

RecordPDU(p, t, m) ==
  [t EXCEPT !.selected = @ /\ SameIdentity(m.actor, t.partner),
            !.ntt = @ \/ m.partner # Actor(p, t),
            !.partner = [m.actor EXCEPT !.synchronization = PartnerInSync(p, t, m)],
            !.current_while = TRUE, !.message = NoPdu]

EnterReceive(q, p, s) ==
  LET t == [s.port[p] EXCEPT !.recv = q] IN
  [s EXCEPT !.port[p] =
     CASE q = "INITIALIZE" -> [t EXCEPT !.selected = FALSE, !.partner = AdminPartner]
       [] q = "PORT_DISABLED" -> [t EXCEPT !.partner.synchronization = FALSE]
       [] q = "EXPIRED" -> [t EXCEPT !.partner.synchronization = FALSE,
                                     !.partner.timeout = TRUE, !.current_while = TRUE]
       [] q = "DEFAULTED" -> [t EXCEPT !.selected = @ /\ SameIdentity(t.partner, AdminPartner),
                                       !.partner = AdminPartner]
       [] q = "CURRENT" -> RecordPDU(p, t, t.message)]

PeriodicStates == <<"NO_PERIODIC", "FAST_PERIODIC", "SLOW_PERIODIC", "PERIODIC_TX">>

PeriodicCond(q, t) ==
  \/ q = "NO_PERIODIC" /\ t.periodic # q /\ ~t.port_enabled
  \/ q = "FAST_PERIODIC" /\ \/ t.periodic = "NO_PERIODIC" /\ t.port_enabled
                            \/ t.periodic = "PERIODIC_TX" /\ t.partner.timeout
  \/ q = "SLOW_PERIODIC" /\ t.periodic \in {"PERIODIC_TX", "FAST_PERIODIC"} /\ ~t.partner.timeout
  \/ q = "PERIODIC_TX" /\ \/ t.periodic = "FAST_PERIODIC" /\ ~t.periodic_timer
                          \/ t.periodic = "SLOW_PERIODIC" /\ (~t.periodic_timer \/ t.partner.timeout)

EnterPeriodic(q, p, s) ==
  LET t == [s.port[p] EXCEPT !.periodic = q] IN
  [s EXCEPT !.port[p] =
     IF q = "PERIODIC_TX" THEN [t EXCEPT !.ntt = TRUE]
     ELSE [t EXCEPT !.periodic_timer = q # "NO_PERIODIC"]]

SelectStates == <<"UNSELECTED", "SELECTED">>

SelectCond(q, t) ==
  \/ q = "UNSELECTED" /\ t.select = "SELECTED" /\ ~t.selected
  \/ q = "SELECTED" /\ t.select = "UNSELECTED" /\ t.mux = "DETACHED"

EnterSelect(q, p, s) ==
  LET entered == [s EXCEPT !.port[p].select = q]
  IN IF q = "UNSELECTED" THEN RemoveFromAggregator(entered, p) ELSE AddToAggregator(entered, p)

MuxStates == <<"DETACHED", "WAITING", "ATTACHED", "COLLECTING_DISTRIBUTING">>

(* Mutant: a port is attached only once its partner is in sync *)
MutWaitsForPartner(q, p, s) ==
  LET t == s.port[p] IN
  \/ q = "DETACHED" /\ t.mux \in {"WAITING", "ATTACHED"} /\ ~t.selected
  \/ q = "WAITING" /\ t.mux = "DETACHED" /\ t.selected
  \/ q = "ATTACHED" /\ \/ t.mux = "WAITING" /\ t.selected /\ t.id # NoId /\ s.agg[t.id].ready
                          /\ t.partner.synchronization
                       \/ t.mux = "COLLECTING_DISTRIBUTING"
                          /\ (~t.selected \/ ~t.partner.synchronization)
  \/ q = "COLLECTING_DISTRIBUTING" /\ t.mux = "ATTACHED" /\ t.selected /\ t.partner.synchronization

MuxCond(q, p, s) ==
  LET t == s.port[p] IN
  \/ q = "DETACHED" /\ t.mux \in {"WAITING", "ATTACHED"} /\ ~t.selected
  \/ q = "WAITING" /\ t.mux = "DETACHED" /\ t.selected
  \/ q = "ATTACHED" /\ \/ t.mux = "WAITING" /\ t.selected /\ t.id # NoId /\ s.agg[t.id].ready
                       \/ t.mux = "COLLECTING_DISTRIBUTING"
                          /\ (~t.selected \/ ~t.partner.synchronization)
  \/ q = "COLLECTING_DISTRIBUTING" /\ t.mux = "ATTACHED" /\ t.selected /\ t.partner.synchronization

(* Mutant: a port that returns to ATTACHED is not detached from the device *)
MutStaysSlave(q, p, s) ==
  LET t == [s.port[p] EXCEPT !.mux = q] IN
  [s EXCEPT !.port[p] =
     CASE q = "DETACHED" -> [t EXCEPT !.slave = NoId, !.synchronization = FALSE,
                                      !.distributing = FALSE, !.ntt = TRUE, !.ready_N = FALSE,
                                      !.wait_while = FALSE]
       [] q = "WAITING" -> [t EXCEPT !.wait_while = TRUE]
       [] q = "ATTACHED" -> [t EXCEPT !.synchronization = TRUE, !.distributing = FALSE, !.ntt = TRUE]
       [] q = "COLLECTING_DISTRIBUTING" ->
            [t EXCEPT !.slave = IF t.id = NoId THEN @ ELSE t.id, !.distributing = TRUE, !.ntt = TRUE]]

(* Mutant: a port that has waited once does not wait again *)
MutReadyForEver(q, p, s) ==
  LET t == [s.port[p] EXCEPT !.mux = q] IN
  [s EXCEPT !.port[p] =
     CASE q = "DETACHED" -> [t EXCEPT !.slave = NoId, !.synchronization = FALSE,
                                      !.distributing = FALSE, !.ntt = TRUE, !.wait_while = FALSE]
       [] q = "WAITING" -> [t EXCEPT !.wait_while = TRUE]
       [] q = "ATTACHED" -> [t EXCEPT !.slave = NoId, !.synchronization = TRUE,
                                      !.distributing = FALSE, !.ntt = TRUE]
       [] q = "COLLECTING_DISTRIBUTING" ->
            [t EXCEPT !.slave = IF t.id = NoId THEN @ ELSE t.id, !.distributing = TRUE, !.ntt = TRUE]]

(* Attaching the device to that of the aggregator, and detaching it from   *)
(* whichever it is a slave of                                              *)
EnterMux(q, p, s) ==
  LET t == [s.port[p] EXCEPT !.mux = q] IN
  [s EXCEPT !.port[p] =
     CASE q = "DETACHED" -> [t EXCEPT !.slave = NoId, !.synchronization = FALSE,
                                      !.distributing = FALSE, !.ntt = TRUE, !.ready_N = FALSE,
                                      !.wait_while = FALSE]
       [] q = "WAITING" -> [t EXCEPT !.wait_while = TRUE]
       [] q = "ATTACHED" -> [t EXCEPT !.slave = NoId, !.synchronization = TRUE,
                                      !.distributing = FALSE, !.ntt = TRUE]
       [] q = "COLLECTING_DISTRIBUTING" ->
            [t EXCEPT !.slave = IF t.id = NoId THEN @ ELSE t.id, !.distributing = TRUE, !.ntt = TRUE]]

TransmitStates == <<"NO_TX", "TX", "DISABLED">>

(* Mutant: off by one in the rate limit *)
MutOneMore(q, t) ==
  LET able == t.periodic # "NO_PERIODIC" IN
  \/ q = "NO_TX" /\ (t.transmit = "TX" \/ (t.transmit = "DISABLED" /\ able))
  \/ q = "TX" /\ t.transmit = "NO_TX" /\ t.ntt /\ able /\ t.pkt_sent <= RateLimit
  \/ q = "DISABLED" /\ t.transmit # "DISABLED" /\ ~able

TransmitCond(q, t) ==
  LET able == t.periodic # "NO_PERIODIC" IN
  \/ q = "NO_TX" /\ (t.transmit = "TX" \/ (t.transmit = "DISABLED" /\ able))
  \/ q = "TX" /\ t.transmit = "NO_TX" /\ t.ntt /\ able /\ t.pkt_sent < RateLimit
  \/ q = "DISABLED" /\ t.transmit # "DISABLED" /\ ~able

EnterTransmit(q, p, s) ==
  LET t == [s.port[p] EXCEPT !.transmit = q] IN
  CASE q = "NO_TX" -> [s EXCEPT !.port[p] = t]
    [] q = "TX" -> [s EXCEPT !.port[p] = [t EXCEPT !.pkt_sent = @ + 1, !.ntt = FALSE],
                             !.sent = Append(@, [actor |-> Actor(p, t), partner |-> t.partner])]
    [] q = "DISABLED" -> [s EXCEPT !.port[p] = [t EXCEPT !.ntt = FALSE]]

-----------------------------------------------------------------------------
(* The runner of a port *)

Machines == <<"receive", "periodic", "select", "mux", "transmit">>

States(m) == <<ReceiveStates, PeriodicStates, SelectStates, MuxStates, TransmitStates>>[m]

(* What a run works on: the frames it has sent, and the state it entered last *)
Now == [port |-> port, agg |-> agg, sent |-> <<>>, at |-> <<1, 0>>]

Cond(m, q, p, s) ==
  CASE m = "receive" -> ReceiveCond(q, s.port[p]) [] m = "periodic" -> PeriodicCond(q, s.port[p])
    [] m = "select" -> SelectCond(q, s.port[p]) [] m = "mux" -> MuxCond(q, p, s)
    [] m = "transmit" -> TransmitCond(q, s.port[p])

Enter(m, q, p, s) ==
  CASE m = "receive" -> EnterReceive(q, p, s) [] m = "periodic" -> EnterPeriodic(q, p, s)
    [] m = "select" -> EnterSelect(q, p, s) [] m = "mux" -> EnterMux(q, p, s)
    [] m = "transmit" -> EnterTransmit(q, p, s)

(* The states that can be entered, and the one that is entered next: on    *)
(* with the pass over the states of the machine, then with the next pass   *)
(* over them, then with the next machine that moves.                       *)
AllStates ==
  UNION {{<<m, i, Machines[m], States(m)[i]>> : i \in DOMAIN States(m)} : m \in DOMAIN Machines}

Entries(p, s) == {e \in AllStates : Cond(e[3], e[4], p, s)}

Distance(e, s) ==
  IF e[1] = s.at[1] THEN (e[2] - s.at[2] - 1) % 10 ELSE 10 * ((e[1] - s.at[1]) % 5) + e[2]

(* fsm_change_to_state(), and AtEnd when no state can be entered *)
AtEnd == <<0, 0>>

ChangeToState(p, s) ==
  LET entries == Entries(p, s)
      e == CHOOSE x \in entries : \A y \in entries : Distance(x, s) <= Distance(y, s)
  IN IF entries = {} THEN [s EXCEPT !.at = AtEnd]
     ELSE [Enter(e[3], e[4], p, s) EXCEPT !.at = <<e[1], e[2]>>]

(* fsm_runner_run(): as long as one of the machines moves *)
RunOf(p) ==
  LET after[n \in 0..RunBound] ==
        IF n = 0 THEN Now
        ELSE LET s == after[n - 1] IN IF s.at = AtEnd THEN s ELSE ChangeToState(p, s)
  IN after[RunBound]

Ready(p) == port[p].present /\ port[p].initialized /\ Entries(p, Now) # {}

Fault(p) == p \in Faulty /\ faults < MaxFaults /\ faults' = faults + 1

(* What a run sends is on its way, unless there is no link that carries it *)
Linked(p) == Peer[p] # NoPort /\ (port[Peer[p]].present => port[Peer[p]].port_enabled)

Run(p) ==
  LET r == RunOf(p) IN
  /\ Ready(p)
  /\ port' = r.port /\ agg' = r.agg
  /\ wire' = IF Linked(p) THEN [wire EXCEPT ![Peer[p]] = @ \o r.sent] ELSE wire
  /\ UNCHANGED <<list, next_port_agg_id, faults>>

(* fsm_runner_initail_run(): the first run only enters the initial states *)
InitialRun(p) ==
  LET r == EnterMux("DETACHED", p, EnterSelect("UNSELECTED", p,
             EnterPeriodic("NO_PERIODIC", p, EnterReceive("INITIALIZE", p, Now))))
  IN
  /\ port[p].present /\ ~port[p].initialized
  /\ port' = [r.port EXCEPT ![p].initialized = TRUE, ![p].transmit = "NO_TX"]
  /\ agg' = r.agg
  /\ UNCHANGED <<list, next_port_agg_id, wire, faults>>

-----------------------------------------------------------------------------
(* Frames *)

Up(p) == port[p].present /\ port[p].port_enabled

(* lacpd_receive_lacpdu(): a frame overwrites the one the port has not yet *)
(* looked at; without a port it is not consumed                            *)
Receive(p) ==
  /\ wire[p] # <<>>
  /\ wire' = [wire EXCEPT ![p] = Tail(@)]
  /\ port' = IF port[p].present THEN [port EXCEPT ![p].message = Head(wire[p])] ELSE port
  /\ UNCHANGED <<agg, list, next_port_agg_id, faults>>

(* A frame is lost: a fault of its sender's, unless the link is down       *)
Lose(p) ==
  /\ wire[p] # <<>>
  /\ wire' = [wire EXCEPT ![p] = Tail(@)]
  /\ IF Up(p) /\ Up(Peer[p]) THEN Fault(Peer[p]) ELSE UNCHANGED faults
  /\ UNCHANGED <<port, agg, list, next_port_agg_id>>

(* The same from a partner that is not modelled; a frame that fails        *)
(* lacpdu_validate() only overwrites the one that waits                    *)
ForeignPdu(p) ==
  /\ port[p].present /\ Peer[p] = NoPort
  /\ \E m \in Foreign(p, port[p].number) \cup {NoPdu} : port' = [port EXCEPT ![p].message = m]
  /\ UNCHANGED <<agg, list, next_port_agg_id, wire, faults>>

-----------------------------------------------------------------------------
(* Timers *)

(* The current_while timer outlasts the periodic one three times, so it    *)
(* expires when the partner is silent or its frames are lost.              *)
Silent(p) == Peer[p] # NoPort => ~Up(Peer[p])

CurrentWhileExpires(p) ==
  /\ port[p].current_while
  /\ IF Silent(p) THEN UNCHANGED faults ELSE Fault(p)
  /\ port' = [port EXCEPT ![p].current_while = FALSE]
  /\ UNCHANGED <<agg, list, next_port_agg_id, wire>>

PeriodicExpires(p) ==
  /\ port[p].periodic_timer
  /\ port' = [port EXCEPT ![p].periodic_timer = FALSE]
  /\ UNCHANGED <<agg, list, next_port_agg_id, wire, faults>>

(* lacpd_fsm_mux_wait_while_timer_cb() *)
WaitWhileExpires(p) ==
  LET off == [Now EXCEPT !.port[p].wait_while = FALSE]
      r == IF port[p].mux = "WAITING" /\ port[p].id # NoId
           THEN UpdateReady([off EXCEPT !.port[p].ready_N = TRUE], port[p].id) ELSE off
  IN
  /\ port[p].wait_while
  /\ port' = r.port /\ agg' = r.agg
  /\ UNCHANGED <<list, next_port_agg_id, wire, faults>>

RateTimer(p) ==
  /\ port[p].pkt_sent > 0
  /\ port' = [port EXCEPT ![p].pkt_sent = 0]
  /\ UNCHANGED <<agg, list, next_port_agg_id, wire, faults>>

-----------------------------------------------------------------------------
(* Devices *)

(* lacpd_link_status_changed() *)
LinkStatusChanged(p, up, key, duplex) ==
  /\ port[p].present /\ Fault(p)
  /\ port' = [port EXCEPT ![p].key = key, ![p].aggregation = duplex,
                          ![p].port_enabled = up, ![p].initialized = FALSE]
  /\ UNCHANGED <<agg, list, next_port_agg_id, wire>>

(* lacpd_add_device(): a port and an aggregator, both of the next number.  *)
(* The number is the port's identity for its partner, who may still know   *)
(* the device under an earlier one; that of an aggregator is compared only *)
(* with those in use, so any other stands for it.                          *)
NextAggId == CHOOSE a \in Ids : \A y \in Systems : ~Contains(list[y], a)

AddDevice(p, key, duplex, up) ==
  LET number == next_port_agg_id[SystemOf[p]] IN
  /\ ~port[p].present /\ number <= MaxNumber
  /\ port' = [port EXCEPT ![p] =
                 [FreshPort(number, key, duplex, up) EXCEPT !.slave = port[p].slave]]
  /\ list' = [list EXCEPT ![SystemOf[p]] = Append(@, NextAggId)]
  /\ next_port_agg_id' = [next_port_agg_id EXCEPT ![SystemOf[p]] = @ + 1]
  /\ UNCHANGED <<agg, wire, faults>>

(* lacpd_del_device(): the port leaves, and any free aggregator goes *)
DelDevice(p) ==
  LET r == RemoveFromAggregator(Now, p)
      i == First(SystemOf[p], {x \in Ids : IsFree(r.agg[x])})
  IN
  /\ port[p].present /\ Fault(p)
  /\ port' = [port EXCEPT ![p] =
                 [AbsentPort EXCEPT !.slave = IF port[p].slave = port[p].id THEN NoId ELSE port[p].slave]]
  /\ agg' = r.agg
  /\ list' = [list EXCEPT ![SystemOf[p]] = IF i = 0 THEN @ ELSE RemoveAt(@, i)]
  /\ UNCHANGED <<next_port_agg_id, wire>>

Link(p, key, duplex, up) ==
  \/ LinkStatusChanged(p, up, key, duplex)
  \/ up \in Added /\ AddDevice(p, key, duplex, up)

(* What makes a port speak again *)
Timer(p) == PeriodicExpires(p) \/ WaitWhileExpires(p) \/ RateTimer(p)

Event(p) ==
  \/ InitialRun(p) \/ Run(p) \/ Receive(p) \/ Lose(p) \/ ForeignPdu(p)
  \/ CurrentWhileExpires(p)
  \/ \E key \in Keys, duplex \in Duplex, up \in BOOLEAN : Link(p, key, duplex, up)
  \/ DelDevice(p)

Next == \E p \in Ports : Event(p) \/ Timer(p)

Spec == Init /\ [][Next]_vars

-----------------------------------------------------------------------------
(* Properties *)

PortType ==
  [present: BOOLEAN, number: 0..MaxNumber, port_enabled: BOOLEAN, initialized: BOOLEAN,
   recv: Range(ReceiveStates), periodic: Range(PeriodicStates), select: Range(SelectStates),
   mux: Range(MuxStates), transmit: Range(TransmitStates),
   key: Keys \cup {0}, aggregation: BOOLEAN, synchronization: BOOLEAN, distributing: BOOLEAN,
   partner: InfoType, selected: BOOLEAN, id: Ids \cup {NoId}, ready_N: BOOLEAN,
   ntt: BOOLEAN, message: PduType \cup {NoPdu}, slave: Ids \cup {NoId},
   current_while: BOOLEAN, periodic_timer: BOOLEAN, wait_while: BOOLEAN, pkt_sent: 0..RateLimit]

AggType ==
  [ports: SUBSET Ports, individual: BOOLEAN, key: Keys \cup {0},
   partner_system: Systems \cup {NoSystem}, partner_key: Keys \cup {0}, ready: BOOLEAN]

TypeOK ==
  /\ port \in [Ports -> PortType] /\ agg \in [Ids -> AggType]
  /\ list \in [Systems -> Seq(Ids)] /\ next_port_agg_id \in [Systems -> Nat \ {0}]
  /\ wire \in [Ports -> Seq(PduType)] /\ faults \in 0..MaxFaults

AtRest(p) == port[p].present /\ port[p].initialized

(* There is an aggregator for each port, so one that has none selected     *)
(* finds a free one (without it the selection logic would go back and      *)
(* forth for ever), and a port is a member of the aggregator it says it    *)
(* has selected, and of no other.                                          *)
MembersAgree ==
  /\ \A y \in Systems :
       Len(list[y]) = Cardinality({p \in Ports : port[p].present /\ SystemOf[p] = y})
  /\ \A p \in Ports, a \in Ids : p \in agg[a].ports <=> port[p].id = a
  /\ \A p \in Ports : port[p].id # NoId => Contains(list[SystemOf[p]], port[p].id)

(* The ports of an aggregator have one key and one partner, and a port     *)
(* that cannot aggregate is alone: traffic never goes out of one           *)
(* aggregator to two systems, however partners come and go.                *)
OnePartner ==
  \A a \in Ids : \A p \in agg[a].ports :
    AtRest(p) =>
      /\ port[p].key = agg[a].key
      /\ port[p].partner.system = agg[a].partner_system
      /\ port[p].partner.key = agg[a].partner_key
      /\ (port[p].aggregation /\ port[p].partner.aggregation) \/ agg[a].ports = {p}

(* A device carries traffic of an aggregator exactly while the port says   *)
(* that it distributes: for the aggregator it has selected, and on the     *)
(* word of a partner that is current.                                      *)
CarriedExactly ==
  \A p \in Ports :
    /\ AtRest(p) => port[p].distributing = (port[p].slave # NoId)
    /\ AtRest(p) /\ port[p].distributing =>
         /\ port[p].slave = port[p].id /\ port[p].mux = "COLLECTING_DISTRIBUTING"
         /\ port[p].recv = "CURRENT" /\ port[p].partner.synchronization
    /\ port[p].slave # NoId => port[p].present

(* A device leaves one bond before it joins another, however its partner   *)
(* changes while the machines run: the port waits anew in between, so that *)
(* attach_slave never meets a device that is still somebody's slave.       *)
OneBond ==
  [][\A p \in Ports : port[p].slave # NoId /\ port'[p].slave # NoId
                        => port'[p].slave = port[p].slave]_vars

(* The ready bit of an aggregator never lags behind its ports, so that no  *)
(* port is attached before all of them have waited.                        *)
ReadyExact ==
  \A a \in Ids : agg[a].ready = (agg[a].ports # {} /\ \A p \in agg[a].ports : port[p].ready_N)

(* "Run all state machines until their state don't change": they come to   *)
(* rest, so the daemon does not spin in fsm_runner_run(), and within one   *)
(* run the partner is told once.                                           *)
RunEnds ==
  \A p \in Ports :
    Ready(p) => LET r == RunOf(p) IN r.at = AtEnd /\ Len(r.sent) <= 1

-----------------------------------------------------------------------------
(* The event loop serves every run and timer that is due; to be served is  *)
(* what makes it no longer due, so weak fairness of each of these actions  *)
(* says that it is not due again and again.  A frame on its way is read.   *)
(* Links may change and frames be lost, but not for ever.                  *)
Fairness ==
  \A p \in Ports :
    /\ []<>(port[p].present => port[p].initialized) /\ []<>~Ready(p)
    /\ []<>~port[p].periodic_timer /\ []<>~port[p].wait_while /\ []<>(port[p].pkt_sent = 0)
    /\ []<>~(Silent(p) /\ port[p].current_while)
    /\ WF_vars(Receive(p))

Carries(p) == port[p].distributing /\ port[p].slave # NoId

(* Once both ends of a link stay up, both come to carry traffic and go on: *)
(* two state machines that wait for each other's word do not deadlock, and *)
(* no lost frame, expired timer or half-done flap leaves them apart.       *)
BothCarry ==
  \A l \in {{p, Peer[p]} : p \in Ports} :
    <>[](\A p \in l : Up(p)) => <>[](\A p \in l : Carries(p))

(* A partner that is gone or down is noticed, unless it comes back. *)
LossNoticed ==
  \A p \in Ports : (Up(p) /\ ~Up(Peer[p])) ~> (Up(Peer[p]) \/ ~Carries(p))
=============================================================================
