--------------------------- MODULE Serialization ---------------------------
(***************************************************************************)
(* The non-scan half of the UMAC command serialization component: one pdev *)
(* queue, the queues of its vdevs, the psoc's command timers, and the      *)
(* contexts that call into the component.                                  *)
(*                                                                         *)
(* Everything done under one hold of pdev_queue_lock is one step; callbacks*)
(* run with no lock held, so whatever a callback calls back into the       *)
(* component is a call made by another thread while the first is paused.   *)
(***************************************************************************)
EXTENDS Integers, Sequences, FiniteSets

CONSTANTS
  Threads,        \* contexts that execute the component's code
  SchedThread,    \* the scheduler thread, which runs posted timeouts
  Vdevs,          \* the vdevs of the pdev
  Nodes,          \* struct wlan_serialization_command_list objects of the pool
  Cmds,           \* the commands, records (see CmdFields)
  MaxVdevs,       \* WLAN_SER_MAX_VDEVS
  MaxPendingCmds, \* WLAN_SER_MAX_PENDING_CMDS
  MaxVdevPending, \* WLAN_SER_MAX_PENDING_CMDS_AP / _STA
  TimerSlots,     \* max_active_cmds of the psoc
  NoCmd, NoNode, NoVdev, NoType,  \* zeroed command, NULL pointers, cmd_type NONSCAN
  Cancels,        \* cancel and purge requests that may be made
  Removals,       \* commands whose owners may ask for removal
  Disables,       \* vdevs whose queue may be disabled by wlan_ser_vdev_queue_disable
  Deletions,      \* vdevs that may be logically deleted
  MaxLive,        \* bound: accepted and not yet released requests of one command
  MaxWaiting,     \* bound: drift of blocking_cmd_waiting that is explored
  MaxMsgs,        \* bound: posted timeout messages (0: timers do not expire)
  LossyTimers     \* whether posting a timeout may fail

CmdFields == [vdev: Vdevs, id: Nat, type: Nat, is_blocking: BOOLEAN,
              is_high_priority: BOOLEAN, queue_disable: BOOLEAN]

CancelFields == [cmd: Cmds \cup {NoCmd}, vdev: Vdevs \cup {NoVdev}, pdev: BOOLEAN,
                 type: Nat \cup {NoType}, nonblock: BOOLEAN,
                 queues: {<<TRUE>>, <<FALSE>>, <<TRUE, FALSE>>, <<FALSE, TRUE>>}]

ASSUME ThreadAssumption == IsFiniteSet(Threads) /\ SchedThread \in Threads
ASSUME CmdAssumption == Cmds \subseteq CmdFields /\ NoCmd \notin Cmds
ASSUME NodeAssumption == IsFiniteSet(Nodes) /\ NoNode \notin Nodes
ASSUME VdevAssumption == IsFiniteSet(Vdevs) /\ NoVdev \notin Vdevs
ASSUME RequestAssumption == /\ Cancels \subseteq CancelFields /\ Removals \subseteq Cmds
                            /\ Disables \subseteq Vdevs /\ Deletions \subseteq Vdevs
(* main.c:73 sizes the timer array, main_i.h:31-33 the active lists. *)
ASSUME SizeAssumption == /\ MaxVdevs \in Nat \ {0} /\ Cardinality(Vdevs) <= MaxVdevs
                         /\ MaxPendingCmds \in Nat /\ MaxVdevPending \in Nat
                         /\ TimerSlots \in Nat /\ TimerSlots >= MaxVdevs

VARIABLES
  pool,         \* cmd_pool_list; which free node is handed out is left open
  pact, ppend,  \* active_list and pending_list of the pdev queue
  vact, vpend,  \* active_list and pending_list of each vdev queue
  qdis,         \* vdevs whose queue_disable is set
  bitmap,       \* vdev_active_cmd_bitmap
  bact, bwait,  \* blocking_cmd_active, blocking_cmd_waiting
  ncmd,         \* the command copied into each node
  flags,        \* cmd_in_use of each node
  timers,       \* nodes a timer slot points to
  armed,        \* those of them whose timer is running
  ref,          \* references this component holds on each vdev
  gone,         \* vdevs the object manager has logically deleted
  msgs,         \* timeout messages posted to the scheduler: copies of commands
  pc, node, stack, cx,  \* per thread: where it is and its local variables
  live,         \* requests accepted and not yet given RELEASE_MEM, per command
  bugs          \* QDF_ASSERT(0)/QDF_BUG(0) hit, and walks off a list

queues == <<pool, pact, ppend, vact, vpend, qdis, bitmap, bact, bwait, ncmd, flags>>
timing == <<timers, armed, ref, gone, msgs>>
locals == <<pc, node, stack, cx>>
vars == <<queues, timing, locals, live, bugs>>

ACT == "CMD_MARKED_FOR_ACTIVATION"
INUSE == "CMD_IS_ACTIVE"
CANCEL == "CMD_ACTIVE_MARKED_FOR_CANCEL"
REMOVAL == "CMD_ACTIVE_MARKED_FOR_REMOVAL"
MOVE == "CMD_MARKED_FOR_MOVEMENT"
Flags == {ACT, INUSE, CANCEL, REMOVAL, MOVE}

(* MAX_ACTIVE_CMDS is MAX_VDEVS; a vdev gets MAX_ACTIVE_CMDS / MAX_VDEVS of them. *)
MaxActiveCmds == MaxVdevs
MaxVdevActive == MaxActiveCmds \div MaxVdevs

PCs == {"idle", "start_timer", "callback", "activated", "activate_failed",
        "test_removal", "test_cancel", "dequeue", "move", "move_resume",
        "release", "cancel", "cancel_cb", "timeout_free"}

(* What a call still has to do when the calls it made return: a dequeue in *)
(* move_pending_to_active (then RELEASE_MEM), or the timeout handler.      *)
Frames == [op: {"move", "timeout"}, vdev: Vdevs, cmd: Cmds, blk: BOOLEAN, vlookup: BOOLEAN]

(* The locals of wlan_ser_cancel_non_scan_cmd. *)
CancelLocals == [cmd: Cmds \cup {NoCmd}, vdev: Vdevs \cup {NoVdev}, pdev: BOOLEAN,
                 type: Nat \cup {NoType}, nonblock: BOOLEAN, queues: Seq(BOOLEAN),
                 fresh: BOOLEAN, qsize: Int, pnode: Nodes \cup {NoNode},
                 removed: Cmds \cup {NoCmd}]
NoCancel == [cmd |-> NoCmd, vdev |-> NoVdev, pdev |-> FALSE, type |-> NoType,
             nonblock |-> FALSE, queues |-> <<>>, fresh |-> TRUE, qsize |-> 0,
             pnode |-> NoNode, removed |-> NoCmd]
-----------------------------------------------------------------------------
(* qdf_list operations *)
Elems(s) == {s[i] : i \in DOMAIN s}
Del(s, i) == [j \in 1..(Len(s) - 1) |-> IF j < i THEN s[j] ELSE s[j + 1]]
Index(s, n) == CHOOSE i \in DOMAIN s : s[i] = n
Without(s, n) == Del(s, Index(s, n))
Full(s, max) == Len(s) = max

(* wlan_serialization_add_cmd_to_queue: high priority goes to the front. *)
Insert(s, n, c) == IF c.is_high_priority THEN <<n>> \o s ELSE Append(s, n)

MatchIdType(c, d) == c.id = d.id /\ c.type = d.type
MatchIdVdev(c, d) == c # NoCmd /\ MatchIdType(c, d) /\ c.vdev = d.vdev
Present(s, c) == \E i \in DOMAIN s : MatchIdVdev(ncmd[s[i]], c)
(* wlan_serialization_find_cmd with WLAN_SER_MATCH_CMD_ID_VDEV *)
FindCmd(s, c, i) == /\ i \in DOMAIN s /\ MatchIdVdev(ncmd[s[i]], c)
                    /\ \A j \in 1..(i - 1) : ~MatchIdVdev(ncmd[s[j]], c)

(* uint16_t arithmetic of blocking_cmd_waiting *)
Word == 65536
UInt16 == 0..(Word - 1)
Inc16(x) == (x + 1) % Word
Dec16(x) == (x + Word - 1) % Word

Top(t) == Head(stack[t])
AnyVdevCmdActive == bitmap # {}

(* The last command of a vdev leaves the active queue. *)
MutClearActiveKeepsBlocking(c) == bitmap' = bitmap \ {c.vdev} /\ UNCHANGED bact
ClearActive(c) == bitmap' = bitmap \ {c.vdev} /\ bact' = (bact /\ ~c.is_blocking)

(* A node is zeroed and goes back to the pool; fl is cmd_in_use otherwise. *)
MutFreeNodeKeepsFlags(n, fl) == /\ ncmd' = [ncmd EXCEPT ![n] = NoCmd]
                                /\ flags' = fl /\ pool' = pool \cup {n}
FreeNode(n, fl) == /\ ncmd' = [ncmd EXCEPT ![n] = NoCmd]
                   /\ flags' = [fl EXCEPT ![n] = {}]
                   /\ pool' = pool \cup {n}

(* The end of a call of dequeue_cmd or activate_cmd, whose caller's frames *)
(* are s: t goes on in the caller, or has left the component.              *)
Return(t, s) ==
  /\ stack' = [stack EXCEPT ![t] = s]
  /\ pc' = [pc EXCEPT ![t] = IF s = <<>> THEN "idle"
                             ELSE IF Head(s).op = "move" THEN "move_resume"
                             ELSE "timeout_free"]
  /\ node' = [node EXCEPT ![t] = NoNode]
-----------------------------------------------------------------------------
(* wlan_serialization_request / wlan_serialization_enqueue_cmd *)

IsActiveNonScanCmdAllowed(c) ==
  IF c.is_blocking THEN ~AnyVdevCmdActive
  ELSE ~bact /\ bwait % 256 = 0 /\ c.vdev \notin bitmap  \* uint8_t copy of bwait

MutAllowedPastPending(c) == IsActiveNonScanCmdAllowed(c)
IsActiveCmdAllowed(c) == IsActiveNonScanCmdAllowed(c) /\ vpend[c.vdev] = <<>>

(* The side effect of asking whether c may be activated. *)
CountWaiting(c) ==
  bwait' = IF c.is_blocking /\ AnyVdevCmdActive THEN Inc16(bwait) ELSE bwait

MutTargetActiveOnly(c) == vact[c.vdev]
TargetVdevList(c) == IF IsActiveCmdAllowed(c) THEN vact[c.vdev] ELSE vpend[c.vdev]
NoRoom(c) == IF IsActiveCmdAllowed(c)
             THEN Full(vact[c.vdev], MaxVdevActive) \/ Full(pact, MaxActiveCmds)
             ELSE Full(vpend[c.vdev], MaxVdevPending) \/ Full(ppend, MaxPendingCmds)

(* wlan_serialization_add_cmd_to_vdev_queue disables the queue whatever    *)
(* became of the insertion.                                                *)
DisableBy(c) == qdis' = IF c.queue_disable THEN qdis \cup {c.vdev} ELSE qdis

RequestMade(t, c) ==
  /\ pc[t] = "idle" /\ c.vdev \notin qdis
  /\ live[c] < MaxLive
  /\ bwait \in 0..MaxWaiting \cup (Word - MaxWaiting)..(Word - 1)
  /\ CountWaiting(c)

(* A duplicate, or an empty pool: refused before anything is queued. *)
RequestRefused(t, c) ==
  /\ RequestMade(t, c)
  /\ Present(TargetVdevList(c), c) \/ pool = {}
  /\ UNCHANGED <<pool, pact, ppend, vact, vpend, qdis, bitmap, bact, ncmd, flags,
                 timing, locals, live, bugs>>

(* A list is full: what was inserted is taken out, the node is zeroed and  *)
(* goes back to the pool.                                                  *)
RequestListFull(t, c) ==
  /\ RequestMade(t, c)
  /\ ~Present(TargetVdevList(c), c) /\ pool # {} /\ NoRoom(c)
  /\ DisableBy(c)
  /\ UNCHANGED <<pool, pact, ppend, vact, vpend, bitmap, bact, ncmd, flags,
                 timing, locals, live, bugs>>

RequestAccepted(t, c, n) ==
  /\ RequestMade(t, c)
  /\ ~Present(TargetVdevList(c), c) /\ n \in pool /\ ~NoRoom(c)
  /\ pool' = pool \ {n}
  /\ ncmd' = [ncmd EXCEPT ![n] = c]
  /\ DisableBy(c)
  /\ live' = [live EXCEPT ![c] = @ + 1]

(* Mutant: high priority is honoured in the list of the vdev only *)
MutRequestPendingBehind(t, c) == \E n \in Nodes :
  /\ ~IsActiveCmdAllowed(c)
  /\ RequestAccepted(t, c, n)
  /\ vpend' = [vpend EXCEPT ![c.vdev] = Insert(@, n, c)]
  /\ ppend' = Append(ppend, n)
  /\ UNCHANGED <<pact, vact, bitmap, bact, flags, timing, locals, bugs>>

RequestPending(t, c) == \E n \in Nodes :
  /\ ~IsActiveCmdAllowed(c)
  /\ RequestAccepted(t, c, n)
  /\ vpend' = [vpend EXCEPT ![c.vdev] = Insert(@, n, c)]
  /\ ppend' = Insert(ppend, n, c)
  /\ UNCHANGED <<pact, vact, bitmap, bact, flags, timing, locals, bugs>>

(* wlan_ser_add_non_scan_cmd for the active queue *)
MutAddActiveNoBit(n, c) ==
  /\ vact' = [vact EXCEPT ![c.vdev] = Insert(@, n, c)]
  /\ pact' = Insert(pact, n, c)
  /\ bact' = (bact \/ c.is_blocking) /\ UNCHANGED bitmap
AddActive(n, c) ==
  /\ vact' = [vact EXCEPT ![c.vdev] = Insert(@, n, c)]
  /\ pact' = Insert(pact, n, c)
  /\ bitmap' = bitmap \cup {c.vdev}
  /\ bact' = (bact \/ c.is_blocking)

RequestActive(t, c) == \E n \in Nodes :
  /\ IsActiveCmdAllowed(c)
  /\ RequestAccepted(t, c, n)
  /\ AddActive(n, c)
  /\ flags' = [flags EXCEPT ![n] = @ \cup {ACT}]
  /\ pc' = [pc EXCEPT ![t] = "start_timer"]
  /\ node' = [node EXCEPT ![t] = n]
  /\ UNCHANGED <<ppend, vpend, stack, cx, timing, bugs>>
-----------------------------------------------------------------------------
(* wlan_serialization_activate_cmd *)

(* wlan_serialization_find_and_start_timer: a slot and a vdev reference *)
StartTimer(t) ==
  LET n == node[t]  v == ncmd[n].vdev IN
  /\ pc[t] = "start_timer"
  /\ Cardinality(timers) < TimerSlots /\ v \notin gone
  /\ timers' = timers \cup {n} /\ armed' = armed \cup {n}
  /\ ref' = [ref EXCEPT ![v] = @ + 1]
  /\ pc' = [pc EXCEPT ![t] = "callback"]
  /\ UNCHANGED <<queues, gone, msgs, node, stack, cx, live, bugs>>

StartTimerFails(t) ==
  /\ pc[t] = "start_timer"
  /\ Cardinality(timers) >= TimerSlots \/ ncmd[node[t]].vdev \in gone
  /\ pc' = [pc EXCEPT ![t] = "activate_failed"]
  /\ UNCHANGED <<queues, timing, node, stack, cx, live, bugs>>

(* cmd_cb(ACTIVATE_CMD) returns success or an error. *)
ActivateCallback(t) ==
  /\ pc[t] = "callback"
  /\ \E r \in {"activated", "activate_failed"} : pc' = [pc EXCEPT ![t] = r]
  /\ UNCHANGED <<queues, timing, node, stack, cx, live, bugs>>

(* The flag change after the callback; an error is followed by a dequeue. *)
FinishActivation(t) ==
  /\ pc[t] \in {"activated", "activate_failed"}
  /\ flags' = [flags EXCEPT ![node[t]] = (@ \ {ACT}) \cup {INUSE}]
  /\ pc' = [pc EXCEPT ![t] = IF pc[t] = "activated" THEN "test_removal" ELSE "dequeue"]
  /\ UNCHANGED <<pool, pact, ppend, vact, vpend, qdis, bitmap, bact, bwait, ncmd,
                 timing, node, stack, cx, live, bugs>>

(* The two flags are tested without the lock, through the node pointer. *)
MutTestRemovalForgets(t) ==
  /\ pc[t] = "test_removal"
  /\ pc' = [pc EXCEPT ![t] = "test_cancel"]
  /\ UNCHANGED <<queues, timing, node, stack, cx, live, bugs>>
TestRemoval(t) ==
  /\ pc[t] = "test_removal"
  /\ pc' = [pc EXCEPT ![t] = IF REMOVAL \in flags[node[t]] THEN "dequeue" ELSE "test_cancel"]
  /\ UNCHANGED <<queues, timing, node, stack, cx, live, bugs>>

MutTestCancelForgets(t) ==
  /\ pc[t] = "test_cancel"
  /\ Return(t, stack[t])
  /\ UNCHANGED <<queues, timing, cx, live, bugs>>
TestCancel(t) ==
  /\ pc[t] = "test_cancel"
  /\ IF CANCEL \in flags[node[t]]
     THEN /\ pc' = [pc EXCEPT ![t] = "cancel"]
          /\ cx' = [cx EXCEPT ![t] = [NoCancel EXCEPT !.queues = <<TRUE>>]]
          /\ UNCHANGED <<node, stack>>
     ELSE Return(t, stack[t]) /\ UNCHANGED cx
  /\ UNCHANGED <<queues, timing, live, bugs>>
-----------------------------------------------------------------------------
(* wlan_serialization_dequeue_cmd, always on the active queue *)

(* wlan_serialization_find_and_stop_timer: the slot is found by id, type   *)
(* and vdev; stopping it drops its vdev reference.                         *)
TimersOf(c) == {m \in timers : MatchIdVdev(ncmd[m], c)}
MutStopTimerForgets(c) == c = c /\ UNCHANGED <<timers, armed, ref>>
MutStopTimerKeepsSlot(c) == /\ armed' = armed \ TimersOf(c)
                            /\ ref' = [ref EXCEPT ![c.vdev] = @ - 1] /\ UNCHANGED timers
MutStopTimerKeepsRunning(c) == /\ timers' = timers \ TimersOf(c)
                               /\ ref' = [ref EXCEPT ![c.vdev] = @ - 1] /\ UNCHANGED armed
StopTimer(c) ==
  IF TimersOf(c) = {} THEN UNCHANGED <<timers, armed, ref>>
  ELSE LET m == CHOOSE m \in TimersOf(c) : TRUE IN
       /\ timers' = timers \ {m} /\ armed' = armed \ {m}
       /\ ref' = [ref EXCEPT ![c.vdev] = @ - 1]

DequeueMissing(t, c) ==
  /\ ~Present(vact[c.vdev], c)
  /\ Return(t, stack[t])
  /\ UNCHANGED <<queues, timing, cx, live, bugs>>

(* The command has not returned from activation: it is removed later. *)
DequeueMarked(t, c) == \E i \in DOMAIN vact[c.vdev] :
  LET n == vact[c.vdev][i] IN
  /\ FindCmd(vact[c.vdev], c, i) /\ ACT \in flags[n]
  /\ flags' = [flags EXCEPT ![n] = @ \cup {REMOVAL}]
  /\ Return(t, stack[t])
  /\ UNCHANGED <<pool, pact, ppend, vact, vpend, qdis, bitmap, bact, bwait, ncmd,
                 timing, cx, live, bugs>>

DequeueRemove(t, c) == \E i \in DOMAIN vact[c.vdev], j \in DOMAIN pact :
  LET n == pact[j]  d == ncmd[n] IN
  /\ FindCmd(vact[c.vdev], c, i) /\ ACT \notin flags[vact[c.vdev][i]]
  /\ FindCmd(pact, c, j)
  /\ vact' = [vact EXCEPT ![c.vdev] = Del(@, i)]
  /\ pact' = Del(pact, j)
  /\ ClearActive(d)
  /\ StopTimer(d)
  /\ FreeNode(n, flags)
  /\ stack' = [stack EXCEPT ![t] =
        <<[op |-> "move", vdev |-> d.vdev, cmd |-> d, blk |-> d.is_blocking,
           vlookup |-> FALSE]>> \o @]
  /\ pc' = [pc EXCEPT ![t] = "move"]
  /\ node' = [node EXCEPT ![t] = NoNode]
  /\ UNCHANGED <<ppend, vpend, qdis, bwait, gone, msgs, cx, live, bugs>>

DequeueCmd(t, c) == DequeueMissing(t, c) \/ DequeueMarked(t, c) \/ DequeueRemove(t, c)

(* wlan_serialization_remove_cmd *)
RemoveCmd(t, c) == pc[t] = "idle" /\ DequeueCmd(t, c)

(* activate_cmd passes a pointer into the node, the timeout handler a copy. *)
DequeueArg(t) == IF node[t] # NoNode THEN ncmd[node[t]] ELSE Top(t).cmd

Dequeue(t) ==
  /\ pc[t] = "dequeue"
  /\ IF DequeueArg(t) = NoCmd  \* a zeroed node: no vdev, so no pdev
     THEN Return(t, stack[t]) /\ UNCHANGED <<queues, timing, cx, live, bugs>>
     ELSE DequeueCmd(t, DequeueArg(t))
-----------------------------------------------------------------------------
(* wlan_ser_move_non_scan_pending_to_active *)

VdevLookup(t) == IF pc[t] = "move" THEN ~Top(t).blk /\ bwait = 0 ELSE Top(t).vlookup

(* The loop over a queue goes on: first entry, or back from an activation. *)
MoveLoop(t) == \/ pc[t] = "move"
               \/ pc[t] = "move_resume" /\ ~Top(t).vlookup /\ ~bact

BlockedAt(i) == ncmd[ppend[i]].is_blocking /\ AnyVdevCmdActive
MutStopsAtAny(i) == BlockedAt(i) \/ ncmd[ppend[i]].vdev \in Vdevs
StopsAt(i) == BlockedAt(i) \/ ncmd[ppend[i]].vdev \notin bitmap
FirstStop(r) == /\ r \in 1..(Len(ppend) + 1)
                /\ r <= Len(ppend) => StopsAt(r)
                /\ \A i \in 1..(r - 1) : ~StopsAt(i)

(* CMD_MARKED_FOR_MOVEMENT after a walk of the pdev list that stops at r:  *)
(* each node marks its successor, and clears its own mark if passed over.  *)
MovementMarks(r) == [n \in Nodes |->
  IF \E i \in 1..(r - 1) : ppend[i] = n THEN flags[n] \ {MOVE}
  ELSE IF \/ r \in 2..Len(ppend) /\ n = ppend[r]
          \/ r < Len(ppend) /\ ~BlockedAt(r) /\ n = ppend[r + 1]
       THEN flags[n] \cup {MOVE}
       ELSE flags[n]]

MutCandidateOffByOne(v) == /\ Len(vpend[v]) > 1 /\ v \notin bitmap
                           /\ MOVE \notin flags[Head(vpend[v])]
VdevCandidate(v) == /\ vpend[v] # <<>> /\ v \notin bitmap
                    /\ MOVE \notin flags[Head(vpend[v])]

(* remove_non_scan_cmd looks the command up by id, type and vdev: in a     *)
(* list without duplicates (NoDuplicates) that finds n itself.             *)
PendingToActive(t, n, marked) ==
  LET c == ncmd[n] IN
  /\ vpend' = [vpend EXCEPT ![c.vdev] = Without(@, n)]
  /\ ppend' = Without(ppend, n)
  /\ stack' = [stack EXCEPT ![t] = <<[Top(t) EXCEPT !.vlookup = VdevLookup(t)]>> \o Tail(@)]
  /\ IF Full(vact[c.vdev], MaxVdevActive) \/ Full(pact, MaxActiveCmds)
     THEN /\ pool' = pool \cup {n}  \* QDF_ASSERT(0); the command is not zeroed
          /\ flags' = marked
          /\ bugs' = bugs \cup {"move"}
          /\ pc' = [pc EXCEPT ![t] = "release"]
          /\ UNCHANGED <<pact, vact, bitmap, bact, bwait, node>>
     ELSE /\ AddActive(n, c)
          /\ flags' = [marked EXCEPT ![n] = @ \cup {ACT}]
          /\ bwait' = IF c.is_blocking THEN Dec16(bwait) ELSE bwait
          /\ pc' = [pc EXCEPT ![t] = "start_timer"]
          /\ node' = [node EXCEPT ![t] = n]
          /\ UNCHANGED <<pool, bugs>>
  /\ DisableBy(c)
  /\ UNCHANGED <<ncmd, timing, cx, live>>

MoveFromVdev(t) ==
  /\ MoveLoop(t) /\ VdevLookup(t) /\ VdevCandidate(Top(t).vdev)
  /\ PendingToActive(t, Head(vpend[Top(t).vdev]), flags)

MoveFromPdev(t) ==
  /\ MoveLoop(t) /\ ~VdevLookup(t)
  /\ \E r \in DOMAIN ppend : /\ FirstStop(r) /\ ~BlockedAt(r)
                             /\ PendingToActive(t, ppend[r], MovementMarks(r))

MoveEnds(t) ==
  /\ pc' = [pc EXCEPT ![t] = "release"]
  /\ UNCHANGED <<pool, pact, ppend, vact, vpend, qdis, bitmap, bact, bwait, ncmd,
                 timing, node, stack, cx, live, bugs>>

MoveNothingVdev(t) ==
  /\ MoveLoop(t) /\ VdevLookup(t) /\ ~VdevCandidate(Top(t).vdev)
  /\ MoveEnds(t) /\ UNCHANGED flags

MoveNothingPdev(t) ==
  /\ MoveLoop(t) /\ ~VdevLookup(t)
  /\ \E r \in 1..(Len(ppend) + 1) :
        /\ FirstStop(r)
        /\ r <= Len(ppend) => BlockedAt(r)
        /\ flags' = MovementMarks(r)
  /\ MoveEnds(t)

(* After the activation of a command taken from the vdev queue, or of a    *)
(* blocking one, the loop is left.                                         *)
MoveBreak(t) ==
  /\ pc[t] = "move_resume"
  /\ Top(t).vlookup \/ bact
  /\ MoveEnds(t) /\ UNCHANGED flags

(* cmd_cb(RELEASE_MEM_CMD), the end of dequeue_cmd *)
MutReleaseSkipped(t) ==
  /\ pc[t] = "release" /\ Return(t, Tail(stack[t]))
  /\ UNCHANGED <<queues, timing, cx, live, bugs>>
ReleaseMem(t) ==
  /\ pc[t] = "release"
  /\ live' = [live EXCEPT ![Top(t).cmd] = @ - 1]
  /\ Return(t, Tail(stack[t]))
  /\ UNCHANGED <<queues, timing, cx, bugs>>
-----------------------------------------------------------------------------
(* wlan_serialization_cancel_request, wlan_serialization_purge_*: one or   *)
(* two passes of wlan_ser_cancel_non_scan_cmd                              *)

CancelRequest(t, q) ==
  /\ pc[t] = "idle"
  /\ pc' = [pc EXCEPT ![t] = "cancel"]
  /\ cx' = [cx EXCEPT ![t] = [NoCancel EXCEPT !.cmd = q.cmd, !.vdev = q.vdev,
               !.pdev = q.pdev, !.type = q.type, !.nonblock = q.nonblock,
               !.queues = q.queues]]
  /\ UNCHANGED <<queues, timing, node, stack, live, bugs>>

OnActive(t) == Head(cx[t].queues)
CancelList(t) == IF OnActive(t) THEN pact ELSE ppend

(* The cmd argument: a pointer into the node when activate_cmd cancels. *)
CancelCmd(t) == IF node[t] # NoNode THEN ncmd[node[t]] ELSE cx[t].cmd
HasCmd(t) == node[t] # NoNode \/ cx[t].cmd # NoCmd

Selected(t, n) ==
  LET c == ncmd[n]  q == cx[t] IN
  /\ HasCmd(t) => (CancelCmd(t) # NoCmd /\ MatchIdType(c, CancelCmd(t)))
  /\ q.vdev # NoVdev => c.vdev = q.vdev
  /\ (q.type # NoType /\ q.vdev # NoVdev) => c.type = q.type
  /\ ~(q.nonblock /\ c.is_blocking)

MutActivatingIgnored(t, n) == OnActive(t) /\ n \notin Nodes
Activating(t, n) == OnActive(t) /\ ACT \in flags[n]

(* Where the walk (re)starts, and how many nodes it may still look at. *)
CursorLost(t) == cx[t].pnode # NoNode /\ cx[t].pnode \notin Elems(CancelList(t))
WalkFrom(t) == IF cx[t].pnode = NoNode THEN 1 ELSE Index(CancelList(t), cx[t].pnode) + 1
Budget(t) == IF cx[t].fresh THEN Len(CancelList(t)) ELSE cx[t].qsize
Visits(t, i) == /\ i \in DOMAIN CancelList(t)
                /\ i >= WalkFrom(t) /\ i < WalkFrom(t) + Budget(t)
Takes(t, i) == LET n == CancelList(t)[i] IN
  Visits(t, i) /\ Selected(t, n) /\ ~Activating(t, n)
FirstTake(t, i) == Takes(t, i) /\ \A j \in 1..(i - 1) : ~Takes(t, j)

(* A single cancel stops after its first victim; so does an empty list. *)
CancelOver(t) == \/ CancelList(t) = <<>> \/ Budget(t) = 0
                 \/ cx[t].removed # NoCmd /\ cx[t].vdev = NoVdev /\ ~cx[t].pdev

(* Commands being activated that the walk meets before position last. *)
CancelMarks(t, last) == [n \in Nodes |->
  IF \E i \in 1..last : /\ Visits(t, i) /\ CancelList(t)[i] = n
                        /\ Selected(t, n) /\ Activating(t, n)
  THEN flags[n] \cup {CANCEL} ELSE flags[n]]

(* What the loop does first when it has the lock again after the callbacks *)
CancelSettle(t) ==
  LET c == cx[t].removed IN
  IF c = NoCmd THEN UNCHANGED <<bitmap, bact, bwait>>
  ELSE IF OnActive(t)
       THEN ClearActive(c) /\ UNCHANGED bwait
       ELSE /\ bwait' = IF c.is_blocking THEN Dec16(bwait) ELSE bwait
            /\ UNCHANGED <<bitmap, bact>>

(* The pass is over: the next one starts, or the call returns. *)
CancelPassEnds(t) ==
  IF Len(cx[t].queues) > 1
  THEN /\ cx' = [cx EXCEPT ![t].queues = Tail(@), ![t].fresh = TRUE, ![t].qsize = 0,
                    ![t].pnode = NoNode, ![t].removed = NoCmd]
       /\ UNCHANGED <<pc, node, stack>>
  ELSE Return(t, stack[t]) /\ cx' = [cx EXCEPT ![t] = NoCancel]

CancelStop(t) ==
  /\ pc[t] = "cancel" /\ CancelSettle(t)
  /\ \/ CancelOver(t) /\ UNCHANGED flags
     \/ /\ ~CancelOver(t) /\ ~CursorLost(t)
        /\ ~\E i \in DOMAIN CancelList(t) : Takes(t, i)
        /\ flags' = CancelMarks(t, Len(CancelList(t)))
  /\ CancelPassEnds(t)
  /\ UNCHANGED <<pool, pact, ppend, vact, vpend, qdis, ncmd, timing, live, bugs>>

(* pnode stays at the last node passed over because it was not selected, *)
(* that at position p; 0: there is none in this part of the walk.         *)
Passes(t, i) == Visits(t, i) /\ ~Selected(t, CancelList(t)[i])
LastPassed(t, i, p) == /\ p \in 0..(i - 1) /\ p > 0 => Passes(t, p)
                       /\ \A j \in (p + 1)..(i - 1) : ~Passes(t, j)

CancelTake(t) == pc[t] = "cancel" /\
                 \E i \in DOMAIN CancelList(t), p \in 0..Len(CancelList(t)) :
  LET n == CancelList(t)[i]  c == ncmd[n] IN
  /\ CancelSettle(t)
  /\ ~CancelOver(t) /\ ~CursorLost(t) /\ FirstTake(t, i) /\ LastPassed(t, i, p)
  /\ IF OnActive(t)
     THEN /\ TimersOf(c) # {} /\ StopTimer(c)
          /\ pact' = Del(pact, i)
          /\ vact' = [vact EXCEPT ![c.vdev] = Without(@, n)]
          /\ UNCHANGED <<ppend, vpend>>
     ELSE /\ UNCHANGED <<timers, armed, ref, pact, vact>>
          /\ ppend' = Del(ppend, i)
          /\ vpend' = [vpend EXCEPT ![c.vdev] = Without(@, n)]
  /\ FreeNode(n, CancelMarks(t, i - 1))
  /\ cx' = [cx EXCEPT ![t].fresh = FALSE, ![t].removed = c,
              ![t].qsize = Budget(t) - (i - WalkFrom(t) + 1),
              ![t].pnode = IF p = 0 THEN @ ELSE CancelList(t)[p]]
  /\ pc' = [pc EXCEPT ![t] = "cancel_cb"]
  /\ UNCHANGED <<qdis, gone, msgs, node, stack, live, bugs>>

(* QDF_BUG(0): an active command without a timer *)
CancelNoTimer(t) == pc[t] = "cancel" /\ \E i \in DOMAIN CancelList(t) :
  /\ CancelSettle(t)
  /\ ~CancelOver(t) /\ ~CursorLost(t) /\ FirstTake(t, i)
  /\ OnActive(t) /\ TimersOf(ncmd[pact[i]]) = {}
  /\ flags' = CancelMarks(t, i - 1)
  /\ bugs' = bugs \cup {"timer"}
  /\ CancelPassEnds(t)
  /\ UNCHANGED <<pool, pact, ppend, vact, vpend, qdis, ncmd, timing, live>>

(* The walk would go on from a node that has left the list: the loop reads *)
(* the links of another list with the lock held. Nothing is said of the    *)
(* program after that.                                                     *)
CancelLost(t) ==
  /\ pc[t] = "cancel" /\ ~CancelOver(t) /\ CursorLost(t)
  /\ bugs' = bugs \cup {"cursor"}
  /\ UNCHANGED <<queues, timing, locals, live>>

(* cmd_cb(CANCEL_CMD) and cmd_cb(RELEASE_MEM_CMD) *)
CancelCallbacks(t) ==
  /\ pc[t] = "cancel_cb"
  /\ live' = [live EXCEPT ![cx[t].removed] = @ - 1]
  /\ pc' = [pc EXCEPT ![t] = "cancel"]
  /\ UNCHANGED <<queues, timing, node, stack, cx, bugs>>
-----------------------------------------------------------------------------
(* Command timers *)

(* wlan_serialization_timer_handler: posts a copy of the command *)
TimerFires(n) ==
  LET c == ncmd[n] IN
  /\ n \in armed /\ Len(msgs) < MaxMsgs
  /\ armed' = armed \ {n}
  /\ c.vdev \notin gone
  /\ msgs' = Append(msgs, c)
  /\ ref' = [ref EXCEPT ![c.vdev] = @ + 1]
  /\ UNCHANGED <<queues, timers, gone, locals, live, bugs>>

(* No vdev reference, no memory or a full scheduler queue: nothing is      *)
(* posted and the timer is not started again.                              *)
TimerLost(n) ==
  /\ n \in armed /\ MaxMsgs > 0 /\ LossyTimers
  /\ armed' = armed \ {n}
  /\ UNCHANGED <<queues, timers, ref, gone, msgs, locals, live, bugs>>

(* wlan_serialization_update_timer restarts the timer, expired or not. *)
UpdateTimer(t, c) ==
  /\ pc[t] = "idle" /\ MaxMsgs > 0 /\ TimersOf(c) # {}
  /\ armed' = armed \cup {CHOOSE m \in TimersOf(c) : TRUE}
  /\ UNCHANGED <<queues, timers, ref, gone, msgs, locals, live, bugs>>

(* wlan_serialization_generic_timer_cb: is the command still active? *)
MutTimeoutIgnoredKeepsRef ==
  /\ pc[SchedThread] = "idle" /\ msgs # <<>>
  /\ ~Present(vact[Head(msgs).vdev], Head(msgs))
  /\ msgs' = Tail(msgs)
  /\ UNCHANGED <<queues, timers, armed, ref, gone, locals, live, bugs>>
TimeoutIgnored ==
  /\ pc[SchedThread] = "idle" /\ msgs # <<>>
  /\ LET c == Head(msgs) IN
       /\ ~Present(vact[c.vdev], c)
       /\ ref' = [ref EXCEPT ![c.vdev] = @ - 1]
  /\ msgs' = Tail(msgs)
  /\ UNCHANGED <<queues, timers, armed, gone, locals, live, bugs>>

(* ... it is: cmd_cb(ACTIVE_CMD_TIMEOUT) runs, then the dequeue *)
MutTimeoutRestarts ==
  /\ pc[SchedThread] = "idle" /\ msgs # <<>>
  /\ LET c == Head(msgs) IN
       /\ Present(vact[c.vdev], c) /\ ref' = [ref EXCEPT ![c.vdev] = @ - 1]
       /\ armed' = armed \cup TimersOf(c)
  /\ msgs' = Tail(msgs)
  /\ UNCHANGED <<queues, timers, gone, locals, live, bugs>>
TimeoutHandled ==
  /\ pc[SchedThread] = "idle" /\ msgs # <<>>
  /\ LET c == Head(msgs) IN
       /\ Present(vact[c.vdev], c)
       /\ stack' = [stack EXCEPT ![SchedThread] =
            <<[op |-> "timeout", vdev |-> c.vdev, cmd |-> c, blk |-> FALSE,
               vlookup |-> FALSE]>>]
  /\ msgs' = Tail(msgs)
  /\ pc' = [pc EXCEPT ![SchedThread] = "dequeue"]
  /\ UNCHANGED <<queues, timers, armed, ref, gone, node, cx, live, bugs>>

TimeoutFree(t) ==
  /\ pc[t] = "timeout_free"
  /\ ref' = [ref EXCEPT ![Top(t).vdev] = @ - 1]
  /\ Return(t, Tail(stack[t]))
  /\ UNCHANGED <<queues, timers, armed, gone, msgs, cx, live, bugs>>
-----------------------------------------------------------------------------
(* wlan_ser_vdev_queue_disable *)
VdevQueueDisable(t, v) ==
  /\ pc[t] = "idle" /\ qdis' = qdis \cup {v}
  /\ UNCHANGED <<pool, pact, ppend, vact, vpend, bitmap, bact, bwait, ncmd, flags,
                 timing, locals, live, bugs>>

(* The object manager refuses new references to a vdev being deleted. *)
VdevLogicallyDeleted(v) ==
  /\ gone' = gone \cup {v}
  /\ UNCHANGED <<queues, timers, armed, ref, msgs, locals, live, bugs>>
-----------------------------------------------------------------------------
Init ==
  /\ pool = Nodes /\ pact = <<>> /\ ppend = <<>>
  /\ vact = [v \in Vdevs |-> <<>>] /\ vpend = [v \in Vdevs |-> <<>>]
  /\ qdis = {} /\ bitmap = {} /\ bact = FALSE /\ bwait = 0
  /\ ncmd = [n \in Nodes |-> NoCmd] /\ flags = [n \in Nodes |-> {}]
  /\ timers = {} /\ armed = {} /\ ref = [v \in Vdevs |-> 0] /\ gone = {} /\ msgs = <<>>
  /\ pc = [t \in Threads |-> "idle"] /\ node = [t \in Threads |-> NoNode]
  /\ stack = [t \in Threads |-> <<>>] /\ cx = [t \in Threads |-> NoCancel]
  /\ live = [c \in Cmds |-> 0] /\ bugs = {}

(* Steps of a call already made *)
Continue(t) ==
  \/ StartTimer(t) \/ StartTimerFails(t) \/ ActivateCallback(t) \/ FinishActivation(t)
  \/ TestRemoval(t) \/ TestCancel(t) \/ Dequeue(t)
  \/ MoveFromVdev(t) \/ MoveFromPdev(t)
  \/ MoveNothingVdev(t) \/ MoveNothingPdev(t) \/ MoveBreak(t) \/ ReleaseMem(t)
  \/ CancelStop(t) \/ CancelTake(t) \/ CancelNoTimer(t) \/ CancelLost(t)
  \/ CancelCallbacks(t) \/ TimeoutFree(t)

(* Calls that may be made *)
Call(t) ==
  \/ \E c \in Cmds : \/ RequestRefused(t, c) \/ RequestListFull(t, c)
                     \/ RequestPending(t, c) \/ RequestActive(t, c)
  \/ \E c \in Removals : RemoveCmd(t, c) \/ UpdateTimer(t, c)
  \/ \E q \in Cancels : CancelRequest(t, q)
  \/ \E v \in Disables : VdevQueueDisable(t, v)

Timeout == TimeoutIgnored \/ TimeoutHandled

Environment == \/ \E n \in Nodes : TimerFires(n) \/ TimerLost(n)
               \/ \E v \in Deletions : VdevLogicallyDeleted(v)

(* A context is lost inside the lock. *)
Halted == "cursor" \in bugs /\ UNCHANGED vars

Running == /\ "cursor" \notin bugs
           /\ \/ \E t \in Threads : Continue(t) \/ Call(t)
              \/ Timeout \/ Environment

Next == Running \/ Halted

Spec == Init /\ [][Next]_vars
-----------------------------------------------------------------------------
ListTypes ==
  /\ pool \subseteq Nodes
  /\ pact \in Seq(Nodes) /\ ppend \in Seq(Nodes)
  /\ vact \in [Vdevs -> Seq(Nodes)] /\ vpend \in [Vdevs -> Seq(Nodes)]
  /\ ncmd \in [Nodes -> Cmds \cup {NoCmd}]
  /\ flags \in [Nodes -> SUBSET Flags]
StatusTypes ==
  /\ qdis \subseteq Vdevs /\ bitmap \subseteq Vdevs
  /\ bact \in BOOLEAN /\ bwait \in UInt16
  /\ bugs \subseteq {"move", "timer", "cursor"} /\ live \in [Cmds -> Int]
TimerTypes ==
  /\ timers \subseteq Nodes /\ armed \subseteq timers
  /\ ref \in [Vdevs -> Int] /\ gone \subseteq Vdevs /\ msgs \in Seq(Cmds)
ThreadTypes ==
  /\ pc \in [Threads -> PCs] /\ node \in [Threads -> Nodes \cup {NoNode}]
  /\ stack \in [Threads -> Seq(Frames)]
CancelTypes == cx \in [Threads -> CancelLocals]

(* Every variable keeps the type of the C object it stands for; in         *)
(* particular the 16-bit blocking_cmd_waiting, and no step of a thread     *)
(* reads a local, a frame or a list node that is not there.                *)
TypeOK == ListTypes /\ StatusTypes /\ TimerTypes /\ ThreadTypes /\ CancelTypes

(* t has taken a command off the active lists in a cancel and has not yet  *)
(* cleared the vdev's bit.                                                 *)
Settling(t) == cx[t].removed # NoCmd /\ OnActive(t)

(* vdev_active_cmd_bitmap says exactly which vdevs have a command in their *)
(* active list, except while a cancel of that command runs its callbacks;  *)
(* and there is never more than one.                                       *)
BitmapExact == \A v \in Vdevs :
  /\ Len(vact[v]) <= 1
  /\ v \in bitmap <=> \/ vact[v] # <<>>
                      \/ \E t \in Threads : Settling(t) /\ cx[t].removed.vdev = v

(* r has its nodes in the order in which s has them, each once. *)
SameOrder(r, s) == \A i, j \in DOMAIN r, k, l \in DOMAIN s :
  (r[i] = s[k] /\ r[j] = s[l]) => (i < j <=> k < l)

(* The list of a vdev is what remains of the pdev's list when the nodes of *)
(* other vdevs are left out, in the same order.                            *)
ListsAgree == \A v \in Vdevs :
  /\ Elems(vact[v]) = {n \in Elems(pact) : ncmd[n].vdev = v} /\ SameOrder(vact[v], pact)
  /\ Elems(vpend[v]) = {n \in Elems(ppend) : ncmd[n].vdev = v} /\ SameOrder(vpend[v], ppend)

Injective(s) == \A i, j \in DOMAIN s : s[i] = s[j] => i = j

(* Every node is in exactly one of the pool, the active and the pending    *)
(* list, and a node in the pool is zeroed.                                 *)
NodesAccounted ==
  /\ Injective(pact) /\ Injective(ppend)
  /\ Elems(pact) \cap Elems(ppend) = {} /\ pool \cap (Elems(pact) \cup Elems(ppend)) = {}
  /\ Nodes = pool \cup Elems(pact) \cup Elems(ppend)
  /\ \A n \in Nodes : n \in pool <=> ncmd[n] = NoCmd
  /\ \A n \in pool : flags[n] = {}

(* The calls of dequeue_cmd that are still to make c's RELEASE_MEM         *)
(* callback: a thread and the depth, from the bottom, of the call's frame. *)
Frame(t, d) == stack[t][Len(stack[t]) + 1 - d]
Unreleased(c) == UNION {{t} \X {d \in DOMAIN stack[t] : /\ Frame(t, d).op = "move"
                                                        /\ Frame(t, d).cmd = c} : t \in Threads}

(* Every accepted request is released exactly once: a command's accepted   *)
(* and unreleased requests are those queued and those whose RELEASE_MEM    *)
(* callback some thread is still to make.                                  *)
MemoryAccounted == \A c \in Cmds :
  live[c] = Cardinality({n \in Nodes : ncmd[n] = c})
          + Cardinality(Unreleased(c))
          + Cardinality({t \in Threads : pc[t] = "cancel_cb" /\ cx[t].removed = c})

(* The QDF_ASSERT(0) of the move to the active queue is not reached: a     *)
(* command taken from a pending list always finds room in the active ones. *)
NoMoveAssert == "move" \notin bugs

ActivationPCs == {"start_timer", "callback", "activated", "activate_failed"}

(* A command between its move to the active queue and the end of its       *)
(* ACTIVATE callback stays put: its node is neither freed nor reused, and  *)
(* exactly one thread activates it.                                        *)
ActivationPinned ==
  /\ \A t \in Threads : pc[t] \in ActivationPCs =>
        /\ node[t] \in Elems(pact) /\ ACT \in flags[node[t]]
        /\ \A u \in Threads \ {t} : pc[u] \in ActivationPCs => node[u] # node[t]
  /\ \A n \in Nodes : ACT \in flags[n] =>
        \E t \in Threads : pc[t] \in ActivationPCs /\ node[t] = n

(* Timers run for active commands only, and an active command without one  *)
(* is about to get it or about to be dequeued by the thread that failed.   *)
TimersOfActive ==
  /\ timers \subseteq Elems(pact)
  /\ \A n \in Elems(pact) \ timers : \E t \in Threads :
        node[t] = n /\ pc[t] \in {"start_timer", "activate_failed", "dequeue"}

(* A thread that starts a timer always finds a free slot. *)
TimerSlotFree == \A t \in Threads : pc[t] = "start_timer" => Cardinality(timers) < TimerSlots

(* The references held on a vdev are those of its timers, of its posted    *)
(* timeouts and of the timeout being handled.                              *)
RefsBalanced == \A v \in Vdevs :
  ref[v] = Cardinality({n \in timers : ncmd[n].vdev = v})
         + Cardinality({i \in DOMAIN msgs : msgs[i].vdev = v})
         + Cardinality({t \in Threads : \E i \in DOMAIN stack[t] :
               stack[t][i].op = "timeout" /\ stack[t][i].vdev = v})

(* blocking_cmd_active is not left set once no blocking command is active. *)
BlockingFlagSound == bact =>
  \/ \E n \in Elems(pact) : ncmd[n].is_blocking
  \/ \E t \in Threads : Settling(t) /\ cx[t].removed.is_blocking

(* No list holds two commands that the lookups cannot tell apart. *)
NoDuplicates == \A s \in {pact, ppend} : \A i, j \in DOMAIN s :
  MatchIdVdev(ncmd[s[i]], ncmd[s[j]]) => i = j
-----------------------------------------------------------------------------
(* The parts that make the invariants above inductive. *)

(* The locals a thread relies on at each point are there. *)
ThreadShape(t) ==
  /\ pc[t] \in {"move", "move_resume", "release", "timeout_free"} => stack[t] # <<>>
  /\ (pc[t] = "dequeue" /\ node[t] = NoNode) => stack[t] # <<>>
  /\ pc[t] \in ActivationPCs \cup {"test_removal", "test_cancel"} => node[t] \in Nodes
  /\ pc[t] \in {"cancel", "cancel_cb"} => cx[t].queues # <<>>
  /\ pc[t] = "cancel_cb" => cx[t].removed # NoCmd
  /\ pc[t] \notin {"cancel", "cancel_cb"} => cx[t].removed = NoCmd
Shape == \A t \in Threads : ThreadShape(t)

(* A vdev's lists hold the nodes of the pdev's lists that are the vdev's. *)
VdevLists == \A v \in Vdevs :
  /\ Elems(vact[v]) = {n \in Elems(pact) : ncmd[n].vdev = v}
  /\ Elems(vpend[v]) = {n \in Elems(ppend) : ncmd[n].vdev = v}
  /\ Injective(vpend[v])

(* While a cancel settles, its vdev has no active command and no other     *)
(* cancel settles for it.                                                  *)
SettlingAlone == \A t \in Threads : Settling(t) =>
  /\ vact[cx[t].removed.vdev] = <<>>
  /\ \A u \in Threads \ {t} : Settling(u) => cx[u].removed.vdev # cx[t].removed.vdev

(* A timer slot points to a node of the active list. *)
TimersListed == timers \subseteq Elems(pact)

IndInv == /\ TypeOK /\ Shape /\ NodesAccounted /\ VdevLists /\ BitmapExact
          /\ SettlingAlone /\ ActivationPinned /\ TimersListed /\ NoMoveAssert
=============================================================================
