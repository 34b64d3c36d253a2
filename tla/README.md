# Verification of QSDK: serialization, acceleration, aggregation

QSDK is an OpenWrt tree with Qualcomm's host sources under `src/qca/src`. Most of the
repository is packages, boot loaders, register maps and firmware headers. This project
verifies three parts that carry concurrent control logic of their own:

* the *command serialization* component of the WLAN driver
  (`qca-wifi/cmn_dev/umac/cmn_services/serialization`, below `ser/`), on which every
  other control path of the driver relies for mutual exclusion;
* the *acceleration of connections* by the enhanced connection manager
  (`qca-nss-ecm`): offloading a connection to the NSS and taking it back;
* the *link aggregation daemon* (`qca-lacpd`).

They do not call each other. The source is the reference for every definition;
PROJECT.json names the lines.

## 1. Inventory

### The serialization component

| part | source | state | operations |
|---|---|---|---|
| non-scan queue | `wlan_serialization_non_scan.c`, `_internal.c`, `_queue.c` | per pdev: active, pending and pool list, `vdev_active_cmd_bitmap`, `blocking_cmd_active`, `blocking_cmd_waiting`; per vdev: active and pending list, `queue_disable`; per node: the copied command and `cmd_in_use` | request, remove, cancel, purge, move pending to active, activate, disable a vdev queue |
| timers | `_internal.c`, `_utils.c` | per psoc: `timers[max_active_cmds]`; a vdev reference per running timer | start, stop, update, expiry, timeout message |
| scan queue | `_scan.c` | a second pdev queue, with a pool of its own | the same, other admission rule |
| life cycle | `_main.c` | the objects above | create and destroy psoc, pdev and vdev objects |
| API | `_api.c` | rule callbacks | the calls above, rule registration, status queries |
| lookup helpers | `_utils.c` | none | match, find, insert, remove |
| rules, legacy API, debug history, unit tests | `_rules.c`, `_legacy_api.c`, `_debug.c`, `_utf.c` | history ring | translation, logging |

A command (`struct wlan_serialization_command`) names a vdev, an id, a type and a
callback. A request copies it into a node of the pool. The node goes to the active
lists if nothing stands in its way and is *activated*: a timer is started and the
callback is called with `ACTIVATE_CMD`, in the context of the caller. Otherwise it
goes to the pending lists. The owner's `wlan_serialization_remove_cmd` (or a failed
activation, or the timeout) dequeues an active command, looks for a pending command
to activate, and calls back with `RELEASE_MEM_CMD`. A *blocking* command wants to be
alone on its pdev.

What makes it hard:

* every callback runs **without the lock**, and callbacks call back into the
  component; dequeue, move and activate call each other recursively, and hold
  decisions taken before an unlock (lookup choice, next node, node pointer) across it;
* a command being activated cannot be removed or cancelled; it is *marked*, and the
  activating thread must notice the mark;
* each node is in two lists at once, and four status words (bitmap, blocking flag,
  waiting counter, marks) summarise the lists;
* timers expire on their own, post a **copy** of the command to the scheduler thread,
  and that message may be lost, late, or about a command that has been requested again;
* ids are reused: MLME uses the vdev id (`wlan_vdev_mlme_ser_if.c:159,215,239`),
  the MLO manager 0 (`wlan_mlo_mgr_cmn.c:409,542`).

What makes it correct: one active command per vdev; blocking commands exclude
others; a vdev's commands run in order; every accepted request is released exactly
once; no node, timer slot or vdev reference leaks; no command is stranded; no
assertion of the code is reachable. PROJECT.json lists the hazards line by line.

### Connection acceleration (ECM)

| part | source (`qca-nss-ecm/`) | state | operations |
|---|---|---|---|
| front end | `frontends/nss/ecm_nss_ported_ipv4.c`, `ecm_nss_ipv4.{c,h}`, `frontends/include/ecm_front_end_common.h` | per connection: `accel_mode`, `decelerate_pending`, `flush_happened`, `is_defunct`, `destroy_fail_handle_pending`, failure counters; global: three counters of connections | accelerate, decelerate, defunct, callbacks for create and destroy, sync messages |
| connection database | `ecm_db/ecm_db_connection.c`, `ecm_db_timer.c` | references, group of the defunct timer, generation and regeneration counters | add, ref, deref, make defunct, timer expiry, regeneration |
| slow path | `frontends/cmn/ecm_ported_ipv4.c`, `ecm_ipv4.c` | none | each packet: touch, regenerate, accelerate |
| NSS (external) | used through `nss_ipv4_tx` and callbacks | the rules it has | answer, sync, flush |

Hard: a connection is worked on by packets on any CPU, NSS callbacks, the timer and
user requests at once; every command to the NSS is answered later, and a flush may
overtake the answer; a message may be refused by the driver and is retried through the
defunct timer; references are passed from one context to another through messages.
Correct: a mode between two others has exactly one owner; the NSS has rules only for
connections that ECM will decelerate; counters and references are exact; nothing stays
half done.

### Link aggregation (lacpd)

| part | source (`qca-lacpd/lacp/`) | state | operations |
|---|---|---|---|
| state machines | `lacp_fsm.c`, `fsm.c` | per port: five machines, three timers, rate counter | entering a state; the runner |
| ports | `port.c`, `port_info.c`, `lacp.c` | what is known of the actor and the partner, frame slot; per instance `next_port_agg_id` | add and delete a device, link changes, receive a frame |
| aggregators | `aggregator.c` | members, key, partner, `ready`, bond device | lookup, add, remove, attach, detach |
| active aggregator policy | `lacp.c:25-202` | active flag of devices | not modelled |

Hard: two ends run the same machines and wait for each other's word; frames are lost,
frames of the two ends cross, timers expire, links flap, devices come back under a new
number and partners change at any point; the runner repeats until nothing moves. Correct: two ends that stay up both carry traffic; no aggregator mixes
partners; a port carries traffic exactly while both ends agree; the runner ends.

### The rest of the repository

The other parts (scan queue, state machine engine, vdev MLME and connection manager
state machines, object manager, scheduler, the other ECM front ends and SFE, multicast,
NSS and switch drivers, build system) are listed in PROJECT.json with the reason why
they are not modelled yet or at all. Of the object manager and the scheduler only what
serialization sees is modelled: a reference is refused for a logically deleted vdev
(`VdevLogicallyDeleted`, external), and the scheduler is a FIFO served by one thread
that may refuse a message.

## 2. Plan

1. (done) `Serialization`: non-scan queue, timers, timeouts; `CommandQueue` as its
   abstract specification; `SerializationProofs`.
2. (done) `EcmAccel`: acceleration of ported IPv4 connections.
3. (done) `Lacp`: state machines, aggregators, links.
4. (done) Proofs about `Serialization`, `EcmAccel` and `Lacp`: every safety invariant, the
   action properties and both refinements (section 5).
5. Scan queue on the same idea (no vdev pending list, limit on active scans, own pool)
   and the timer array the two queues share.
6. Life cycle of serialization: vdev destruction while commands are queued, psoc
   disable against timers that are firing.
7. State machine engine and vdev MLME state machine as the client of serialization.

## 3. Modules

| module | contents |
|---|---|
| `Serialization` | non-scan queue and timers: state, actions, invariants, the inductive invariant `IndInv` |
| `CommandQueue` | abstract specification: per vdev, one running command and a waiting sequence |
| `SerializationClaims` | what a comment claims; the refinement mapping; fairness and liveness |
| `MCSerialization` | commands and cancel requests for TLC |
| `SerializationProofs` | nodes, bitmap and activation (`IndInv`) |
| `SerializationQueueProofs` | order, duplicates, timers, blocking flag; the refinement of `CommandQueue` |
| `SerializationCallsProofs` | what calls in progress owe: memory, references, wakeups |
| `EcmAccel` | front end, connection and NSS; properties, the refinement mapping, fairness, two claims of comments |
| `Offload` | abstract specification: an engine takes connections on request, within a limit of slots |
| `EcmAccelProofs` | ownership of modes, flushes, rules, failures |
| `EcmCountsProofs` | the global counters and the limit; the refinement of `Offload` |
| `EcmRefsProofs` | references and the defunct timer |
| `LacpProofs` | runs of the machines end, and what they leave |
| `Counting` | lemmas the proofs share: sizes of sets, entries of sequences, induction over a set |
| `MCEcm` | the instances of `EcmAccel` for TLC |
| `Lacp` | ports, machines, aggregators, links; properties and fairness |
| `MCLacp` | topologies and foreign frames for TLC |

Definitions named `Mut...` are deliberately wrong variants of their neighbours and are
used by nothing.

### How Serialization corresponds to the code

**Steps.** What the code does under one hold of `pdev_queue_lock` is one action; so
is the test of a flag made without the lock, a callback, and the start of a timer
(under `timer_lock`). Between them any other thread may run.

**Threads.** `Threads` are the contexts that execute component code. A callback that
calls back into the component (for example an ACTIVATE callback that asks for the
removal of its own command) is another thread calling while the first one is paused,
which is the same interleaving. A thread has a program point `pc`, the node that
`activate_cmd` works on (`node`), the locals of the cancel loop (`cx`), and a `stack`
of frames for dequeue → move → activate → dequeue … and for the timeout handler.

**Nodes and commands.** Nodes are model values, so pointers that outlive a free are
modelled as they are: `activate_cmd` passes `&cmd_list->cmd`, and `DequeueArg` and
`CancelCmd` read whatever command the node holds when the lock is taken. A node that
has been zeroed gives `NoCmd`: the dequeue returns (no pdev). A cancel with a zeroed
command has type 0, which is `WLAN_SER_CMD_SCAN`, so the code turns to the scan queue
and the non-scan queue is left alone: `Selected` is false. Which free node the pool
hands out is left open (the code takes the first), so the model has more reuse than
the code, never less.

**Requests.** `RequestRefused`, `RequestListFull`, `RequestPending` and
`RequestActive` are the outcomes of `wlan_serialization_enqueue_cmd`. All contain
`CountWaiting`, the side effect of the admission test on `blocking_cmd_waiting`
(`uint16_t`, compared through a `uint8_t` copy, hence `% 256`). A request on a
disabled queue changes nothing and is left out. The queue is disabled by
`DisableBy` also when the insertion failed, as in `_queue.c:150`.

**Activation.** `StartTimer`/`StartTimerFails`, `ActivateCallback` (either result),
`FinishActivation` (flag change, under the lock), `TestRemoval`, `TestCancel`.

**Dequeue and move.** `DequeueMissing`, `DequeueMarked`, `DequeueRemove`; then
`MoveFromVdev`/`MoveFromPdev` or `MoveNothing...`, back at `MoveBreak` or in the loop
after the activation, and `ReleaseMem`. `MovementMarks(r)` sums up the setting and
clearing of `CMD_MARKED_FOR_MOVEMENT` of a walk that stops at position r.

**Cancel.** `CancelRequest` starts one or two passes (`queues`: active first for
`cancel_request`, pending first for the purges). A pass is a sequence of parts that
end when a command is taken out (`CancelTake`) and its callbacks run with the lock
released (`CancelCallbacks`); then the bit or the counter is settled
(`CancelSettle`) and the walk restarts after `pnode`, the last node that did not
match. Marked nodes that are met again use up the budget `qsize`, as in the code. If
`pnode` has left the list, the code follows links of another list: undefined, so the
model records it (`CancelLost`) and stops (`Halted`).

**Timers.** A timer slot is the node it points to; `armed` says that its timer is
running. Stopping is synchronous (`qdf_timer_sync_cancel`), so an expiry is before or
after it. `TimerFires` posts a copy of the command and takes a reference; `TimerLost`
covers no memory, no reference, or a full scheduler queue.

**Left out.** Rule callbacks (stubs), NULL checks that no caller can reach,
statistics and history, the bypass of timers on emulation platforms, several pdevs
(the queues of two pdevs share only the timer array, which is sized for all).

### How EcmAccel corresponds to the code

**Contexts.** A context is a CPU in ECM code: `PacketCtx` in
`ecm_ported_ipv4_process`, `NssCtx` in a callback of the NSS driver, `UserCtx` in a
call of `decelerate` or `make_defunct` (interface and conntrack events, classifiers),
`TimerCtx` in the database timer. `ctx[x].pc` says what it does next with which
connection. What happens under `feci->lock` (with `ecm_nss_ipv4_lock` inside it) or
`ecm_db_lock` is one step; neighbouring lock sections share a step where no other
context can tell them apart, for example the fall of `pending_decel_count` at the start
of the destroy callback.

**Connection.** `feci` has the fields of the front end instance, `ci` those of the
database instance. `refs` counts all references; a look-up (`refs > 0`) finds a
connection until the last one goes. `group` is the timer's group (`MAX`: not running).
`stale` says that `generation` differs from the global one; `Noticed` is what
`required_check` and `required_peek` do about it. `AtMost` keeps failure counters at
their limits, above which the code does not tell values apart.

**Packets.** `ConnectionAdd`, `TimerSet` create; `PacketSeen`, `PacketStart`,
`Regenerate` are the way of a later packet; `AccelPendingSet` to `CreateSent` or
`CreateRefused` are `accelerate()`, in which a rule is only its generation. Its failures
(no memory, bad rule, generation changed) are `BuildAborted`.

**Deceleration.** `Decelerate` and `Defunct` are the checks under the lock;
`DestroySent`, `DestroyGivenUp`, `DestroyRefused`, `Rearm`, `FailureHandled` are
`decelerate_msg_send` and `ecm_front_end_destroy_failure_handle`; `LastRef` is the end of
`make_defunct` and of the timer's callback.

**NSS.** External: it answers every command in order; a create of a rule it has and a
destroy of one it has not are NACKed; it sends sync messages for a rule, and ends one
with a flush message. Responses and sync messages are each in order but not with each
other (the "OOO quirk" `ecm_nss_ported_ipv4.c:251` works around).

**Left out.** Rule contents, classifier decisions (`AccelUnwanted` is any), statistics,
the no-touch flag of timers, the limit mode `UNLIMITED`, slow path counters, multicast,
and the stop of the front end.

### How Lacp corresponds to the code

**Steps.** lacpd is one event loop (`uloop`), so each callback is one step. A run of the
runner is one step too: `RunOf` enters states one after the other in the order of
`fsm_check_transit_conditions` and `fsm_runner_run` until none can be entered, at most
`RunBound` of them; `RunEnds` shows that the bound is never met, and its proof that no
run enters more than 18. The delay of 50 ms
before a run does not matter: the rate limit timer of each port also starts a run every
second, so a run may begin whenever something can move. The daemons of two systems are two
event loops: `Run` puts the frame that it sends on the `wire`, and `Receive` is the step in
which the other loop reads it from its socket (`lacpd_receive_lacpdu`) into the slot of the
port. Until then both ends run, expire, flap and are removed as they please, so the frames
of two ends cross, and a frame may reach a later incarnation of its receiver or come from
an earlier one of its sender.

**State.** A port record has the machine states, the fields of `struct lacpd_port` that
the machines read, `slave` (the aggregator whose bond device the device is a slave of)
and a Boolean per timer. `number` is the port's part of its identity: `AddDevice` draws it
from `next_port_agg_id`, which only grows, so the partner of a device that was removed and
added again sees another port, deselects (`lacp_fsm.c:275`), and what it has said about the
earlier one does not count as in sync (`lacp_fsm.c:325`). The aggregator gets the same
number, but identifiers of aggregators are only compared with those in use: `NextAggId` is
any that is not. `NoPdu` in `message` stands for `lacpdu_indicate` false and for
a frame that fails `lacpdu_validate`. Priorities are equal; the key is the user key and
the speed, the duplex bit is `aggregation`.

**Links.** `Peer` connects two modelled ports; what they send each other is read in the
order in which it was sent. A link whose other end is down carries nothing (`Linked`).
A frame on its way may be lost (`Lose`): as a fault of the port that sent it while both
ends are up, freely otherwise. A frame for a device that is not there is read and dropped.
A port without modelled peer gets any frame of `Foreign`, which may know its number. Faults
(losses, early expiry of `current_while` against a speaking partner, link changes,
removals) are bounded by `MaxFaults`.

**Left out.** Which aggregator is active (`lacpd_select_active_aggregator`), the end of an
instance, calls of the network layer that fail, `lacp_enabled` and `port_moved`, which
nothing changes, and the bits `defaulted` and `expired`, which nothing reads.

## 4. Runs

In the serialization runs there are two vdevs and two threads, and a released command
may be requested again for ever: the state spaces are closed under it.

| run | instance | properties |
|---|---|---|
| `timeout` | plain and blocking commands on both vdevs, one of them in two variants of the same id, type and vdev, so that it is asked for again while it is queued, active or being released; expiry, restart and loss of timers, logical deletion of v1, one message in flight | `TypeOK`, `MemoryAccounted`, `NoDuplicates`, `TimerSlotFree`, `NoMoveAssert`, `TimersOfActive`, `RefsBalanced` |
| `cancel` | two commands of v1, of which the one with high priority (which also disables the queue) overtakes the plain one when that waits, and a blocking one of v2; pending lists that fill; disabled queues; a purge of the pdev, cancels of a vdev's commands, of a single command and of what is not blocking | `BitmapExact`, `ActivationPinned`, `NodesAccounted`, `ListsAgree`, `BlockingFlagSound`, `ImplementsQueue` |
| `marked` | cancels, failing timers, under `FairSpec` | `RemovalTakesEffect`, `CancelTakesEffect` |
| `owned` | plain commands, no cancel, under `OwnedSpec` | `NoLostWakeup`, `PendingActivated` |
| `timed` | owners that never answer, under `TimedSpec` | `TimeoutReclaims` |
| `ecm_offload` | one connection; packets, a user, the timer and the NSS; a regeneration; the driver takes every message | `TypeOK`, `AccelOwned`, `DecelOwned`, `RefsAccounted`, `TimerDetached`, `RuleTracked`, `FlushConsumed`, `FailIsFinal`, `PendingEnds`, `DecelActioned` |
| `ecm_retry` | two connections under a limit of one; the driver may refuse any message, three times per connection | `CountsExact`, `RulesLimited`, `ImplementsOffload` |
| `lacp_pair` | two systems linked by a port each, both asking for short timeouts, with frames on their way in both directions, under `PacedSpec`; one fault, at one of the ends | `TypeOK`, `RunEnds`, `BothCarry`, `LossNoticed` |
| `lacp_aggregate` | one system with two ports; each partner may say that it is one system, the same without aggregation, or another, or fall silent; one fault | `MembersAgree`, `OnePartner`, `CarriedExactly`, `ReadyExact`, `OneBond` |

`RuleTracked` is stated for a driver that takes every message: a destroy that is given
up at the limit leaves its rule in the NSS by design (`FAIL_DRIVER`). `CountsExact`
allows for the same case: such a connection stays counted in `accelerated_count`, so
the limit on accelerated connections shrinks by one for each.

Runs named `claim_...` check one sentence of a comment each and end in a
counterexample; PROJECT.json's findings quote the sentence:

| run | what the trace shows |
|---|---|
| `claim_exclusive` | a dequeue has cleared its vdev's bit and unlocked; a blocking request of another vdev becomes active; the dequeue then moves its vdev's next command to active, looking only at its own bit |
| `claim_retry` | the defunct timer expires while a create is under way; the deceleration is noted, and later carried out by `make_defunct`, which finds the timer already out of its group and leaves the timer's reference: the connection stays |
| `claim_stale` | a regeneration is flagged while a create is under way; a packet performs it; the ACK comes; the sync message finds no regeneration due: the rule of the old generation stays |

More comments disagree with what `Serialization` does. The first four take several steps.
No run states them: each is a state that the instance of the named passing run reaches,
which TLC shows when the negation is added to that run's invariants.

* `blocking_cmd_waiting` does not count the waiting blocking commands (`utils_i.h:100`,
  "Indicate if a blocking cmd is in pending queue"): `CountWaiting` counts a request that
  is then refused, and a request may be queued without being counted (`non_scan.c:101`).
  Reached in `timeout`: `bwait` differs from the number of blocking commands in `ppend`
  and in the hands of a cancel;
* a cancel that meets a command whose timer could not be started, before its thread has
  dequeued it, hits `QDF_BUG(0)` (`non_scan.c:641-645`, "This should not happen").
  Reached in `marked`, where v1 may be deleted: `"timer" \in bugs`. `cancel` has no
  deletion and does not reach it;
* the node from which a cancel goes on after its callbacks may have left the list
  (`CancelLost`; `non_scan.c:688`, `utils_i.h:287-288`). Reached in `cancel` and
  `marked`: `"cursor" \in bugs`;
* a single cancel takes another vdev's command of the same id and type
  (`non_scan.c:565`; `api.h:244`, "Cancel the given non scan command"). Reached in
  `cancel`: `cx[t].removed.vdev # cx[t].cmd.vdev`.

Three more follow from one action each:

* a request refused for a full list still disables its vdev queue (`DisableBy` in
  `RequestListFull`; `_queue.c:150` against `_internal.c:168-170`, "after a given command
  is queued, we can block the vdev queues");
* commands of two vdevs are active together (`_internal.c:111-112`, "There could be only
  1 active non-scan command at a time");
* a cancel takes an activated command out at once (`CancelTake`, against
  `_non_scan.c:609-613`, "active queue can't be removed directly").

**Bounds, serialization.** `MaxLive` bounds the unreleased requests of one command record to one; in
`timeout` two records have the same identity, so a request overlaps an earlier one and
its release. `MaxWaiting`
bounds how far `blocking_cmd_waiting` may drift before requests stop, on both sides
of zero, so the wrap to 65535 is inside. `MaxMsgs` bounds timeout messages: one is enough
for a stale message about a command that has been released and asked for again, and
`timed` allows two. Two vdevs
give every interplay of "own vdev" and "another vdev"; two threads are what a race
needs, and recursion is in the stacks. Three nodes give an active and two
pending commands, or a pending list in which one node is passed and two are taken.
Nodes are symmetric, and `NodeSymmetry` is used in the safety runs only.

One branch is never taken by TLC: the `QDF_ASSERT(0)` of `PendingToActive`. The
theorem `MoveNeverAsserts` shows that it is unreachable.

**Bounds, ECM.** A connection has one life, in which `MaxRegen` regenerations are
flagged; one suffices for each race with a construction or a create, because what counts
is whether one came in between. `MaxNotes` bounds sync messages under way: one is enough
to overtake a response. The limits are small so that they are reached: in `ecm_offload`
two NACKs, so that there is a retry before the failure, and one flush without action.
Commands under way are bounded by the modes. In `ecm_retry` there is no user and no sync
message; the timer and packets provoke retries, and the counters of two connections mix.

**Bounds, LACP.** `RateLimit` is one (three in the code), so the limit is met in every
exchange. `MaxNumber` lets the device that is removed come back once; that numbers have 16
bits in a frame and would repeat after 65535 additions is not modelled. `MaxFaults` is one, at any point of a behaviour, including one before, during
and after the first agreement; what follows the fault is unbounded. `Faulty` names the
ports it may strike: in `lacp_pair` one of the two, since the ends are alike. A link between two
ports has all interactions of two ends; two ports with one aggregator each have all of
joining, leaving and not fitting. In `lacp_aggregate` the ports are symmetric, and the
view `Unspoken` leaves out when and how often a port speaks (`ntt`, the transmit and
periodic machines, the partner's timeout bit): the receive, selection and mux machines
never read these, so two states that differ only there have the same future as far as
the properties of that run see it. `RunEnds` does see them, so it is checked in
`lacp_pair`, which has no view. The view leaves out the numbers too: the partners know the
number of the port they speak to, and `MaxNumber` is not met there.

`lacp_pair` runs under `PacedSpec`, which bounds the frames on their way: a timer that makes
a port speak again (the periodic, wait and rate limit timer, of one second or more) expires
only when no run of the port or of its peer is due and the peer has read what the port sent
before (`Settled`). That leaves out two frames of one incarnation of a port on their way at
once, of which the slot would keep the later one, and a timer that expires in the 50 ms
before a run. It leaves in that the frames of the two ends cross, in either order of reading,
losses, expiries of `current_while`, flaps and removals with frames on their way, and, after a
removal, a frame of the earlier incarnation ahead of one of the new. Only this run is paced:
`lacp_aggregate` and the theorems are about `Spec`, in which any timer may expire at any
time and any number of frames be on their way.

`CHECK_DEADLOCK FALSE` in the ECM and LACP runs: a connection that is gone, or a port
that is down once the faults are used up, rests.

**Fairness, serialization.** `FairSpec`: each context keeps running inside the component; the locks
are spin locks held for bounded loops and callbacks return. `OwnedSpec` adds that the
owner of a command asks for its removal again and again when it would be effective:
owners do so when the firmware responds (strong fairness, as other threads disable and
enable the call). `TimedSpec` replaces it by timers that expire and a scheduler thread
that serves its queue (strong fairness, since the thread is also used for other
calls). `PendingActivated` and `NoLostWakeup` are stated without blocking commands
and cancels: a cancel of an active command does not look for a successor
(`_non_scan.c:731`), and the waiting counter may drift.

**Fairness, ECM.** Contexts in ECM code run on (spin locks, no waiting); the NSS answers
every command, and its driver calls back for every response. Responses have strong
fairness, since the context that delivers them is also busy with sync messages. Nothing
is assumed of packets, users, timers and sync messages, except in the two claims, where
the comment speaks of a later retry (`RetrySpec`: someone goes on asking) and of sync
messages that keep coming (`SyncSpec`).

**Fairness, LACP.** The event loop serves what is due. Since being served is what ends
being due, weak fairness of an action is written `[]<>~due`, which TLC evaluates without
executing a run; reading a frame from the socket is weakly fair as it stands. Devices, links and faults are free; `BothCarry` speaks of behaviours in
which both ends stay up from some point.

**Refinement.** `ImplementsQueue` maps each vdev's active list to the running command
and its pending list to the waiting ones. Every step is a request, a promotion of the
*first* waiting command, a completion, a withdrawal, or a stutter.

`ImplementsOffload` maps `accel_mode` to a phase, in which a connection in `ACCEL_PENDING`
is *asked* until an ACK of its create is under way and *granted* from then on; the rules of
the NSS to the connections the engine has a rule for; and `pending_accel_count` plus
`accelerated_count` to the slots in use. `Offload` says what the rest of ECM relies on and
no invariant says, because it is about the order of things: a connection becomes accelerated
only after the NSS took the rule of *this* request, and returns to `DECEL` only when its rule
is gone; its slot is freed after that, possibly much later (`Free`: a sync context uncounts
in another lock section), and never before or twice. A connection given up at the limit of
driver failures goes to *failed* from `DECEL_PENDING` with its rule, and its slot stays in
use as long as the rule does. The run is `ecm_retry`, where the driver refuses messages.

## 5. Proofs

Every safety invariant that a passing run checks, the action properties `FailIsFinal` and
`OneBond` and the refinements `ImplementsQueue` and `ImplementsOffload` are theorems: they
hold for any sets of threads, vdevs, nodes, commands, connections, contexts, ports, systems
and keys and for any limits.
The runs stay, since they show that the interesting cases are reachable.

**Assumptions.** Those that the modules name. At least one vdev, at
most `MaxVdevs` of them and at least `MaxVdevs` timer slots are the sizes of the arrays
(`_main.c:73`, `_main_i.h:31-33`). Sets whose elements are counted are finite: nodes are
the fixed pool that the pdev object allocates, contexts are CPUs, ports are devices. In
`Lacp`, `Foreign` gives frames as `lacpdu_get_port_info` decodes them, there are as many
aggregator identifiers as ports, and
`RunBound` is large enough for a run to end, at least 20. Four theorems have a hypothesis
on constants, which the runs of the same property make too:

* `Unblocked` (no blocking command, no cancel) for `NoWakeupLost`. With cancels it is
  false: a cancel of an active command does not look for a successor
  (`_non_scan.c:731`); with blocking commands a waiting vdev may rightly be passed over;
* `~TxFails` (the driver takes every message) for `RulesTracked`, `ReferencesAccounted`
  and `FreedDetached`. A destroy given up at its limit leaves its rule, by design. And a
  refused destroy re-arms the defunct timer (`Rearm`) whether or not the timer has
  expired: when its callback is already under way, timer and callback share one
  reference. TLC shows this in `ecm_retry` with a user context added.

### Serialization

| theorem | states | in |
|---|---|---|
| `Inductive`; `TypeCorrect`, `BitmapCorrect`, `NodesNeverLost`, `ActivationSafe`, `MoveNeverAsserts` | `IndInv`; `TypeOK`, `BitmapExact`, `NodesAccounted`, `ActivationPinned`, `NoMoveAssert` | `SerializationProofs` |
| `QueuesInductive`; `CommandsDistinct`, `ListsConsistent`, `TimersMatchActive`, `SlotAvailable`, `BlockingFlagCorrect` | `QueueInv`; `NoDuplicates`, `ListsAgree`, `TimersOfActive`, `TimerSlotFree`, `BlockingFlagSound` | `SerializationQueueProofs` |
| `QueueImplemented` | `ImplementsQueue` | `SerializationQueueProofs` |
| `CallsInductive`; `MemoryReleasedOnce`, `ReferencesBalanced`; `NoWakeupLost` | `CallInv`; `MemoryAccounted`, `RefsBalanced`; `NoLostWakeup` | `SerializationCallsProofs` |

`IndInv` is the conjunction of the first row with what its parts need of each other; TLC
found it invariant in the instance of `cancel` before it was proved.
`BitmapExact` is not inductive alone: a cancel clears a bit after an unlock, so the vdev
must have got no new active command meanwhile and no second cancel may be settling for it
(`SettlingAlone`); that holds because the bit stays set and forbids both. Deleting a node
from the vdev list and from the pdev list must delete the same node, which needs that each
vdev list holds exactly the pdev list's nodes of that vdev (`VdevLists`) and that a vdev
has one active command (`ActiveOfVdev`: the lookup by id, type and vdev is then
unambiguous). That activation is safe needs that the marked node cannot be freed by a
dequeue or a cancel, and that no timer points outside the active list (`TimersListed`).
`NoMoveAssert` is a counting argument (`ActiveRoom`): active nodes map injectively to
vdevs, and the vdev of the moved command is not among them. There is one lemma per action.

The other two modules work in two stages. First the actions are sorted by what they do to
the part of the state in question: `QueueStep` (nothing, activation, enqueue, start,
promotion, removal, cancel, withdrawal of a command) and `CallStep` (nothing, acceptance,
removal, cancel, report, release, timer start, expiry, timeout begun and ended), one lemma
per action. Then each kind of step is shown to preserve each part of the invariant, so a
new action needs one lemma and not one per invariant.

`QueueInv` adds to `IndInv` that no two pending commands are the same to a lookup, that
vdev lists have the pdev list's order (`SameOrder`, for which insertion at the head and at
the tail and deletion are lemmas), and which threads answer for a command without timer
(`TimersStarted`). That whoever starts a timer finds a slot is again a counting argument:
timers belong to active commands, of which there are fewer than slots while one of them
has none. `ListsAgree` is stated with sets and order, not as a filtered sequence: what a
recursively defined filter computes is beyond the prover.

The refinement goes step by step: a request that is accepted is `Start` or `Enqueue`, a
promotion is `Promote` of the *head* of the vdev's waiting commands (`PromotesHead`: also
when the walk is over the pdev list, because of the order), a removal or a cancel of an
active command is `Finish`, a cancel of a pending one `Withdraw`, and all else stutters.

`CallInv` says that a thread's program point fits its frames (`Stacks`; only the scheduler
thread has a timeout frame, and only at the bottom), and keeps two balances: the
unreleased requests of a command (`MemoryOf`) are the nodes that hold it, the dequeues that
have yet to call back, and the cancels that have; the references on a vdev (`RefsOf`) are its
timers, messages and the timeout being handled. A frame is identified by its thread and
its depth from the bottom, which a nested call does not change. In `WakeInv` a vdev that
waits and has no active command has a thread at `move` that will look at it; a dequeue
that has looked and found a command returns to find its own lookup choice kept in the
frame (`MovesOwn`), so it does not wander to other vdevs.

### ECM

| theorem | states | in |
|---|---|---|
| `Invariance`; `TypeCorrect`, `PendingAccelOwned`, `PendingDecelOwned`, `FlushRecordConsumed`, `FailureFinal`; `RulesTracked` | `IndInv`; `TypeOK`, `AccelOwned`, `DecelOwned`, `FlushConsumed`, `FailIsFinal`; `RuleTracked` | `EcmAccelProofs` |
| `CountInvariance`; `CountersExact`, `RulesWithinLimit` | `CountInv`; `CountsExact`, `RulesLimited` | `EcmCountsProofs` |
| `OffloadImplemented` | `ImplementsOffload` | `EcmCountsProofs` |
| `RefInvariance`; `ReferencesAccounted`, `FreedDetached` | `RefInv`; `RefsAccounted`, `TimerDetached` | `EcmRefsProofs` |

`IndInv` of `EcmAccelProofs` counts, for each connection, contexts, commands and messages.
Ownership (`PendingOwned`) is close to inductive: it needs that a context at a point knows
why it is there (`ReasonOK`) and that only added connections are worked on. `FlushConsumed`
needs `FlushBalance`: flush messages under way, their handling, the record of one, the rule
itself and the answer to a successful destroy together are at most the accelerations that
ECM counts, has an ACK under way for, or has failed. An ACK on its way thus pays for at most
one flush or one rule, whichever order the messages come in. `Bounded` keeps the
regeneration counters within `MaxRegen` and the failure counter below its limit, which type
correctness needs. That failing is final and that what fails has no rule is one lemma per
action about what may happen to the mode of a connection.

`CountInv` adds that a connection given up with its rule in the NSS (`Orphans`) is still
counted and that the sum of pending and accelerated connections respects the limit, which
only `AccelPendingSet` can raise. Rules are then bounded by the modes and the orphans.
What needs a slot has one: the connections between a request and its end, and those with a
rule, together with the accelerations that a sync context has yet to uncount, are at most
the slots in use (`SlotsHeld`). `RulesLimited` follows, and so does the guard of `Free`.

The refinement goes step by step. An action of ECM is at most one `Turn` of one connection,
while all others stay as they are, or it frees a slot (`EngineStep`, one `...Turn` lemma per
handler, in the way of the actions' `...Counts` lemmas), and either is a step of `Offload`
(`TurnImplements`, `FreedImplements`). That the steps are possible in `Offload` is where the
invariants come in: an ACK is handled only for a connection in `ACCEL_PENDING` with its ACK
under way, and no other context works on it (`PendingOwned`); a connection leaves
`DECEL_PENDING` or is flushed only without a rule (`NoRuleAnswered`, `FlushBalance`).

`RefInv` counts the users of a connection: contexts (twice where they also hold the
reference of the message they are sending), messages, the timer while it is in a group.
The reference of an expired timer is its callback's; only when the callback is over can it
be one too many.

### LACP

| theorem | states | in |
|---|---|---|
| `Invariant`; `TypeCorrect`, `Members`, `Partners`, `Carried`, `ReadyInStep` | `IInv`, `Framed`; `TypeOK`, `MembersAgree`, `OnePartner`, `CarriedExactly`, `ReadyExact` | `LacpProofs` |
| `RunsEnd`, `OneBondAtATime` | `RunEnds`, `OneBond` | `LacpProofs` |

Frames on their way and the numbers of ports are typed by `Framed`, which `Invariant` carries
along with `IInv`: a frame that is read may be any, however old, and the rest of the proof
asks no more of it.

A step of `Lacp` is a whole run of the machines, so the invariant has a part that holds
after every entered state and a part that holds between runs.

`Good` holds after every entered state: ports and aggregators agree on membership
(`Agree`), an aggregator is ready exactly if all its members are (`Exact`), an individual
one has one member (`Alone`), a selected port fits its aggregator (`Matched`), and the
fields of one port fit its machines (`PortInv`). There is one lemma per machine that
entering any of its states keeps `Good` (`ReceiveGood`, `PeriodicGood`, `MuxGood`,
`TransmitGood`; for selection `LeaveGood` and `JoinGood`). `Matched` cannot ask for more
than selected ports: a frame that names another partner ends `selected` while the port is
still a member, until the selection machine, later in the same run, takes it out.

`Rest` holds between runs, in every port: a port that has an aggregator is selected, and
one that distributes is selected and has its partner in sync. `OnePartner` and
`CarriedExactly` follow from it, and it depends on the run having *ended*: a run that
stopped early could leave a member unselected. So termination is part of the invariant and
not a consequence of it. The proof is by `Phase`, which says at each point of a run which
machines can no longer move (the runner goes on to the next machine only when the last one
is stuck, and starts again whenever one moved), and by `Rank`, a natural number of at most
18 that every entered state lowers (`RankFalls`, one `Step...` lemma per machine). The
rank is a sum over the machines; what one machine's move enables in another one is in the
order of the sum. The receive machine has the largest share, because only external events
enable it again; transmission comes last, once the others are stuck (`Late`), which is
also why a run sends at most one frame. `RunResult` puts this together: the run ends
within `RunBound`, in a state that is `Good` and at `Rest`.

`OneBond` speaks of a run as a whole, whose machines may detach a device and attach one.
What a run keeps is `Bound`: the device is a slave of bond b or of none, and its port is a
member of b or of none, or it is detached or waits and has not waited long enough. A run
cannot end the wait, which takes a timer, so the mux machine cannot attach a port that the
selection machine has moved to another aggregator in the same run (`StaysBound`).

`Stocked` says of the lists of aggregators that they are disjoint, hold as many
aggregators as there are devices of the instance and contain every selected one. With the
number of identifiers in use (`Used`) equal to that of devices present, adding a device
always finds a fresh identifier, and removing one always finds an aggregator without
members, since the port that leaves was in at most one (`FreeExists`).

### Counting

`Counting` has what these balances need: how the size of a set changes when one element
does (`SizeChange`), how many entries of a sequence are in a set (`In`) and how appending,
taking the head and removing an entry change that, and induction over numbers with a set in
the place of the predicate (`NatSetInduction`), which the provers can instantiate.

### Only model-checked

* Everything under fairness, which is out of the prover's reach: `RemovalTakesEffect`,
  `CancelTakesEffect`, `PendingActivated`, `TimeoutReclaims`, `PendingEnds`,
  `DecelActioned`, `BothCarry`, `LossNoticed`.
* That the interesting cases are reachable, which the runs and their counterexamples show
  and no safety theorem does.

## 6. Running

`tlc -config <run>.cfg <module>` for a run, with the module PROJECT.json names
(`MCSerialization`, `MCEcm` or `MCLacp`), `tlapm <module>.tla` for the proofs of a module
whose name ends in `Proofs`, and of `Counting`; from nothing they take up to five minutes
each. The largest run (`ecm_retry`) has about 800 thousand states; each takes less than
two minutes with two workers.
