---------------------- MODULE SerializationQueueProofs ----------------------
(***************************************************************************)
(* What the lists of the serialization component hold, whatever threads    *)
(* interleave: no two commands that a lookup cannot tell apart, the same   *)
(* order in a vdev's list and in the pdev's, a timer for every command     *)
(* that runs and a free slot for the next one; and that with these lists   *)
(* the component implements a queue of commands per vdev.                  *)
(***************************************************************************)
EXTENDS SerializationProofs, SerializationClaims

-----------------------------------------------------------------------------
(* What a step does to the lists, to the timer slots, to the threads that  *)
(* answer for a command without a timer and to blocking_cmd_active         *)

ListsUnchanged == UNCHANGED <<pact, ppend, vact, vpend, ncmd>>

(* u answers for its node, or is about to. *)
TimerPCs == {"start_timer", "callback", "activated", "activate_failed", "dequeue"}
Elsewhere(u) == \/ pc'[u] = pc[u] /\ node'[u] = node[u]
                \/ pc[u] \notin TimerPCs /\ pc'[u] \notin {"start_timer", "callback", "activated"}

(* u has taken a blocking command off the active lists and not settled. *)
Held(u) == Settling(u) /\ cx[u].removed.is_blocking
FlagKept == bact' => bact /\ \A u \in Threads : Held(u) => Held(u)'

(* No command enters, leaves or changes its list. *)
Aside == /\ ListsUnchanged /\ UNCHANGED timers /\ FlagKept
         /\ \A u \in Threads : Elsewhere(u)

(* A command goes on with its activation. *)
Activates(t) == \/ StartTimer(t) \/ StartTimerFails(t)
                \/ ActivateCallback(t) \/ FinishActivation(t)

(* A dequeue finds nothing that it may remove. *)
GivesUp(t) == /\ ListsUnchanged /\ UNCHANGED timers /\ FlagKept
              /\ pc[t] = "dequeue" /\ pc'[t] \notin {"start_timer", "callback", "activated"}
              /\ node[t] \in Elems(pact) => ACT \in flags[node[t]]
              /\ \A u \in Threads \ {t} : Elsewhere(u)

(* A command is queued as pending. *)
Enqueues(c, n) ==
  /\ n \in pool /\ ~Present(vpend[c.vdev], c)
  /\ ncmd' = [ncmd EXCEPT ![n] = c]
  /\ vpend' = [vpend EXCEPT ![c.vdev] = Insert(@, n, c)]
  /\ ppend' = Insert(ppend, n, c)
  /\ UNCHANGED <<pact, vact, timers>> /\ FlagKept
  /\ \A u \in Threads : Elsewhere(u)

(* t makes n active and goes on to start its timer. *)
Runs(t, n, c) ==
  /\ vact[c.vdev] = <<>>
  /\ vact' = [vact EXCEPT ![c.vdev] = Insert(@, n, c)]
  /\ pact' = Insert(pact, n, c)
  /\ bact' = (bact \/ c.is_blocking) /\ UNCHANGED <<timers, cx>>
  /\ pc[t] \notin TimerPCs /\ pc' = [pc EXCEPT ![t] = "start_timer"]
  /\ node' = [node EXCEPT ![t] = n]

(* A command is made active at once. *)
Starts(t, c, n) ==
  /\ n \in pool /\ vpend[c.vdev] = <<>> /\ Runs(t, n, c)
  /\ ncmd' = [ncmd EXCEPT ![n] = c]
  /\ UNCHANGED <<ppend, vpend>>

(* A pending command is made active. *)
Promotes(t, n) == LET v == ncmd[n].vdev IN
  /\ n \in Elems(ppend) /\ v \notin bitmap /\ Runs(t, n, ncmd[n])
  /\ \/ n = Head(vpend[v])
     \/ \E r \in DOMAIN ppend : ppend[r] = n /\ FirstStop(r)
  /\ vpend' = [vpend EXCEPT ![v] = Without(@, n)]
  /\ ppend' = Without(ppend, n)
  /\ UNCHANGED ncmd

(* An active command is removed or cancelled. *)
Ends(j) == LET n == pact[j] IN
  /\ j \in DOMAIN pact /\ ACT \notin flags[n]
  /\ pact' = Del(pact, j)
  /\ vact' = [vact EXCEPT ![ncmd[n].vdev] = <<>>]
  /\ ncmd' = [ncmd EXCEPT ![n] = NoCmd]
  /\ timers' = timers \ {n}
  /\ FlagKept /\ ((bact' /\ ncmd[n].is_blocking) => \E u \in Threads : Held(u)')
  /\ UNCHANGED <<ppend, vpend>>
  /\ \A u \in Threads :
       \/ Elsewhere(u)
       \/ /\ pc[u] = "dequeue" /\ pc'[u] = "move"
          /\ node[u] \in Elems(pact) => node[u] = n

(* A pending command is cancelled. *)
Withdraws(i) == LET n == ppend[i] IN
  /\ i \in DOMAIN ppend
  /\ ppend' = Del(ppend, i)
  /\ vpend' = [vpend EXCEPT ![ncmd[n].vdev] = Without(@, n)]
  /\ ncmd' = [ncmd EXCEPT ![n] = NoCmd]
  /\ UNCHANGED <<pact, vact, timers>> /\ FlagKept
  /\ \A u \in Threads : Elsewhere(u)

QueueStep == \/ Aside
             \/ \E t \in Threads : Activates(t) \/ GivesUp(t)
             \/ \E c \in Cmds, n \in Nodes : Enqueues(c, n)
             \/ \E t \in Threads, c \in Cmds, n \in Nodes : Starts(t, c, n)
             \/ \E t \in Threads, n \in Nodes : Promotes(t, n)
             \/ \E j \in DOMAIN pact : Ends(j)
             \/ \E i \in DOMAIN ppend : Withdraws(i)

-----------------------------------------------------------------------------
(* Every step is one of these. *)

(* The blocking flag and the commands being settled are left alone. *)
LEMMA FlagAlone ==
  ASSUME UNCHANGED <<bact, cx>>
  PROVE  FlagKept
  BY DEF FlagKept, Held, Settling, OnActive

(* What a thread that returns leaves behind. *)
LEMMA ReturnElsewhere ==
  ASSUME IndInv, NEW t \in Threads, NEW s \in Seq(Frames), Return(t, s)
  PROVE  /\ pc'[t] \notin {"start_timer", "callback", "activated"}
         /\ \A u \in Threads \ {t} : Elsewhere(u)
         /\ pc[t] \notin TimerPCs => Elsewhere(t)
  BY ReturnShape DEF Elsewhere

(* A thread goes on outside the part where it answers for its node. *)
LEMMA PcElsewhere ==
  ASSUME IndInv, NEW t \in Threads, pc[t] \notin TimerPCs,
         NEW p, p \notin {"start_timer", "callback", "activated"},
         pc' = [pc EXCEPT ![t] = p], UNCHANGED node
  PROVE  \A u \in Threads : Elsewhere(u)
  BY DEF IndInv, TypeOK, ThreadTypes, Elsewhere

(* Threads that are not concerned. *)
LEMMA AllElsewhere ==
  ASSUME UNCHANGED <<pc, node>>
  PROVE  \A u \in Threads : Elsewhere(u)
  BY DEF Elsewhere

(* Requests that are refused and calls that only disable a queue. *)
LEMMA DeniedAside ==
  ASSUME NEW t \in Threads, NEW c,
         \/ RequestRefused(t, c) \/ RequestListFull(t, c) \/ UpdateTimer(t, c)
         \/ VdevQueueDisable(t, c)
  PROVE  Aside
<1>1. ListsUnchanged /\ UNCHANGED <<timers, bact, cx, pc, node>>
  BY DEF RequestRefused, RequestListFull, UpdateTimer, VdevQueueDisable, ListsUnchanged,
         queues, timing, locals
<1> QED  BY <1>1, FlagAlone, AllElsewhere DEF Aside

(* The timers' and the object manager's steps. *)
LEMMA TimerAside ==
  ASSUME NEW n, TimerFires(n) \/ TimerLost(n) \/ VdevLogicallyDeleted(n) \/ TimeoutIgnored
  PROVE  Aside
<1>1. ListsUnchanged /\ UNCHANGED <<timers, bact, cx, pc, node>>
  BY DEF TimerFires, TimerLost, VdevLogicallyDeleted, TimeoutIgnored, ListsUnchanged,
         queues, locals
<1> QED  BY <1>1, FlagAlone, AllElsewhere DEF Aside

(* The handler of a timeout goes on to dequeue. *)
LEMMA HandledAside ==
  ASSUME IndInv, TimeoutHandled
  PROVE  Aside
<1>1. /\ ListsUnchanged /\ UNCHANGED <<timers, bact, cx, node>> /\ pc[SchedThread] = "idle"
      /\ pc' = [pc EXCEPT ![SchedThread] = "dequeue"]
  BY DEF TimeoutHandled, ListsUnchanged, queues
<1>2. pc[SchedThread] \notin TimerPCs
  BY <1>1 DEF TimerPCs
<1> QED  BY <1>1, <1>2, FlagAlone, PcElsewhere, ThreadAssumption DEF Aside

(* Steps that move a thread along. *)
LEMMA AlongAside ==
  ASSUME IndInv, NEW t \in Threads,
         \/ TestRemoval(t) \/ MoveNothingVdev(t) \/ MoveNothingPdev(t) \/ MoveBreak(t)
         \/ CancelLost(t) \/ CancelCallbacks(t)
  PROVE  Aside
<1>1. CASE TestRemoval(t)
  <2>1. PICK p \in {"dequeue", "test_cancel"} : pc' = [pc EXCEPT ![t] = p]
    BY <1>1 DEF TestRemoval
  <2>2. /\ ListsUnchanged /\ UNCHANGED <<timers, bact, cx, node>> /\ pc[t] \notin TimerPCs
    BY <1>1 DEF TestRemoval, ListsUnchanged, queues, timing, TimerPCs
  <2> QED  BY <2>1, <2>2, FlagAlone, PcElsewhere DEF Aside
<1>2. CASE MoveNothingVdev(t) \/ MoveNothingPdev(t) \/ MoveBreak(t)
  <2>1. /\ ListsUnchanged /\ UNCHANGED <<timers, bact, cx, node>>
        /\ pc' = [pc EXCEPT ![t] = "release"] /\ pc[t] \in {"move", "move_resume"}
    BY <1>2 DEF MoveNothingVdev, MoveNothingPdev, MoveBreak, MoveEnds, MoveLoop,
                ListsUnchanged, timing
  <2>2. pc[t] \notin TimerPCs
    BY <2>1 DEF TimerPCs
  <2> QED  BY <2>1, <2>2, FlagAlone, PcElsewhere DEF Aside
<1>3. CASE CancelLost(t)
  <2>1. ListsUnchanged /\ UNCHANGED <<timers, bact, cx, pc, node>>
    BY <1>3 DEF CancelLost, ListsUnchanged, queues, timing, locals
  <2> QED  BY <2>1, FlagAlone, AllElsewhere DEF Aside
<1>4. CASE CancelCallbacks(t)
  <2>1. /\ ListsUnchanged /\ UNCHANGED <<timers, bact, cx, node>>
        /\ pc' = [pc EXCEPT ![t] = "cancel"] /\ pc[t] = "cancel_cb"
    BY <1>4 DEF CancelCallbacks, ListsUnchanged, queues, timing
  <2>2. pc[t] \notin TimerPCs
    BY <2>1 DEF TimerPCs
  <2> QED  BY <2>1, <2>2, FlagAlone, PcElsewhere DEF Aside
<1> QED  BY <1>1, <1>2, <1>3, <1>4

(* Calls that return, and the test that may start a cancel. *)
LEMMA ReturnAside ==
  ASSUME IndInv, NEW t \in Threads, TestCancel(t) \/ ReleaseMem(t) \/ TimeoutFree(t)
  PROVE  Aside
<1>1. /\ ListsUnchanged /\ UNCHANGED <<timers, bact>>
      /\ pc[t] \in {"test_cancel", "release", "timeout_free"}
  BY DEF TestCancel, ReleaseMem, TimeoutFree, ListsUnchanged, queues, timing
<1>2. pc[t] \notin TimerPCs
  BY <1>1 DEF TimerPCs
<1>3. cx[t].removed = NoCmd /\ cx \in [Threads -> CancelLocals]
  BY <1>1 DEF IndInv, Shape, ThreadShape, TypeOK, CancelTypes
<1>4. FlagKept
  <2>1. cx' = cx \/ cx' = [cx EXCEPT ![t] = [NoCancel EXCEPT !.queues = <<TRUE>>]]
    BY DEF TestCancel, ReleaseMem, TimeoutFree
  <2>2. \A u \in Threads \ {t} : cx'[u] = cx[u]
    BY <1>3, <2>1
  <2>3. \A u \in Threads \ {t} : Held(u) => Held(u)'
    BY <2>2 DEF Held, Settling, OnActive
  <2> QED  BY <1>1, <1>3, <2>3 DEF FlagKept, Held, Settling
<1>5. CASE pc' = [pc EXCEPT ![t] = "cancel"] /\ UNCHANGED node
  BY <1>1, <1>2, <1>4, <1>5, PcElsewhere DEF Aside
<1>6. CASE \E s \in Seq(Frames) : Return(t, s)
  BY <1>1, <1>2, <1>4, <1>6, ReturnElsewhere DEF Aside
<1>7. stack[t] \in Seq(Frames) /\ (pc[t] # "test_cancel" => stack[t] # <<>>)
  BY <1>1 DEF IndInv, TypeOK, ThreadTypes, Shape, ThreadShape
<1>8. pc[t] # "test_cancel" => Tail(stack[t]) \in Seq(Frames)
  BY <1>7
<1> QED  BY <1>5, <1>6, <1>7, <1>8 DEF TestCancel, ReleaseMem, TimeoutFree

(* A cancel is asked for. *)
LEMMA CancelRequestAside ==
  ASSUME IndInv, NEW t \in Threads, NEW q, CancelRequest(t, q)
  PROVE  Aside
<1>1. /\ ListsUnchanged /\ UNCHANGED <<timers, bact, node>> /\ pc[t] = "idle"
      /\ pc' = [pc EXCEPT ![t] = "cancel"]
  BY DEF CancelRequest, ListsUnchanged, queues, timing
<1>2. pc[t] \notin TimerPCs
  BY <1>1 DEF TimerPCs
<1>3. cx[t].removed = NoCmd /\ cx \in [Threads -> CancelLocals]
  BY <1>1 DEF IndInv, Shape, ThreadShape, TypeOK, CancelTypes
<1>4. \A u \in Threads \ {t} : cx'[u] = cx[u]
  BY <1>3 DEF CancelRequest
<1>5. \A u \in Threads \ {t} : Held(u) => Held(u)'
  BY <1>4 DEF Held, Settling, OnActive
<1>6. FlagKept
  BY <1>1, <1>3, <1>5 DEF FlagKept, Held, Settling
<1> QED  BY <1>1, <1>2, <1>6, PcElsewhere DEF Aside

(* A command that is settled is no longer held, and the flag is cleared. *)
LEMMA SettleFlag ==
  ASSUME IndInv, NEW t \in Threads, CancelSettle(t), \A u \in Threads \ {t} : cx'[u] = cx[u]
  PROVE  FlagKept
<1>1. \A u \in Threads \ {t} : Held(u) => Held(u)'
  BY DEF Held, Settling, OnActive
<1>2. bact' => bact /\ ~Held(t)
  <2>1. CASE cx[t].removed = NoCmd
    BY <2>1 DEF CancelSettle, Held, Settling
  <2>2. CASE cx[t].removed # NoCmd /\ OnActive(t)
    BY <2>2 DEF CancelSettle, ClearActive, Held
  <2>3. CASE cx[t].removed # NoCmd /\ ~OnActive(t)
    BY <2>3 DEF CancelSettle, Held, Settling
  <2> QED  BY <2>1, <2>2, <2>3
<1> QED  BY <1>1, <1>2 DEF FlagKept

(* A pass of a cancel ends. *)
LEMMA CancelEndsAside ==
  ASSUME IndInv, NEW t \in Threads, CancelStop(t) \/ CancelNoTimer(t)
  PROVE  Aside
<1>1. /\ ListsUnchanged /\ UNCHANGED timers /\ pc[t] = "cancel" /\ CancelSettle(t)
      /\ CancelPassEnds(t)
  BY DEF CancelStop, CancelNoTimer, ListsUnchanged, timing
<1>2. FlagKept
  BY <1>1, PassEndsShape, SettleFlag
<1>3. pc[t] \notin TimerPCs /\ stack[t] \in Seq(Frames)
  BY <1>1 DEF TimerPCs, IndInv, TypeOK, ThreadTypes
<1>4. \A u \in Threads : Elsewhere(u)
  <2>1. UNCHANGED <<pc, node>> \/ Return(t, stack[t])
    BY <1>1 DEF CancelPassEnds
  <2> QED  BY <1>3, <2>1, AllElsewhere, ReturnElsewhere
<1> QED  BY <1>1, <1>2, <1>4 DEF Aside

(* The timer that is stopped is the removed command's own. *)
LEMMA StopsOwn ==
  ASSUME IndInv, NEW n \in Elems(pact), StopTimer(ncmd[n])
  PROVE  timers' = timers \ {n}
<1> DEFINE c == ncmd[n]
           m == CHOOSE x \in TimersOf(c) : TRUE
<1>1. timers \subseteq Elems(pact) /\ c # NoCmd
  BY ListedCmds, CmdTypes DEF IndInv, TimersListed
<1>2. \A x \in TimersOf(c) : x = n
  <2> SUFFICES ASSUME NEW x \in TimersOf(c)  PROVE x = n
    OBVIOUS
  <2>1. x \in Elems(pact) /\ ncmd[x].vdev = ncmd[n].vdev
    BY <1>1 DEF TimersOf, MatchIdVdev
  <2> QED  BY <2>1, ActiveOfVdev
<1>3. CASE TimersOf(c) = {}
  <2>1. n \notin timers
    BY <1>1, <1>3 DEF TimersOf, MatchIdVdev, MatchIdType
  <2> QED  BY <1>3, <2>1 DEF StopTimer
<1>4. CASE TimersOf(c) # {}
  <2>1. m = n
    BY <1>2, <1>4
  <2>2. timers' = timers \ {m}
    BY <1>4 DEF StopTimer
  <2> QED  BY <2>1, <2>2
<1> QED  BY <1>3, <1>4

(* A request queued as pending. *)
LEMMA PendingEnqueues ==
  ASSUME IndInv, NEW t \in Threads, NEW c \in Cmds, RequestPending(t, c)
  PROVE  \E n \in Nodes : Enqueues(c, n)
<1>1. PICK n \in Nodes :
        /\ ~IsActiveCmdAllowed(c) /\ RequestAccepted(t, c, n)
        /\ vpend' = [vpend EXCEPT ![c.vdev] = Insert(@, n, c)]
        /\ ppend' = Insert(ppend, n, c)
        /\ UNCHANGED <<pact, vact, timers, bact, cx, pc, node>>
  BY DEF RequestPending, timing, locals
<1>2. /\ n \in pool /\ ~Present(TargetVdevList(c), c) /\ ncmd' = [ncmd EXCEPT ![n] = c]
  BY <1>1 DEF RequestAccepted
<1>3. TargetVdevList(c) = vpend[c.vdev]
  BY <1>1 DEF TargetVdevList
<1> QED  BY <1>1, <1>2, <1>3, FlagAlone, AllElsewhere DEF Enqueues

(* A request queued as active. *)
LEMMA ActiveStarts ==
  ASSUME IndInv, NEW t \in Threads, NEW c \in Cmds, RequestActive(t, c)
  PROVE  \E n \in Nodes : Starts(t, c, n)
<1>1. PICK n \in Nodes :
        /\ IsActiveCmdAllowed(c) /\ RequestAccepted(t, c, n) /\ AddActive(n, c)
        /\ pc' = [pc EXCEPT ![t] = "start_timer"] /\ node' = [node EXCEPT ![t] = n]
        /\ UNCHANGED <<ppend, vpend, timers, cx>>
  BY DEF RequestActive, timing
<1>2. n \in pool /\ ncmd' = [ncmd EXCEPT ![n] = c] /\ pc[t] = "idle"
  BY <1>1 DEF RequestAccepted, RequestMade
<1>3. vpend[c.vdev] = <<>> /\ c.vdev \notin bitmap /\ c.vdev \in Vdevs
  BY <1>1, CmdTypes DEF IsActiveCmdAllowed, IsActiveNonScanCmdAllowed, AnyVdevCmdActive
<1>4. vact[c.vdev] = <<>>
  BY <1>3 DEF IndInv, BitmapExact
<1>5. pc[t] \notin TimerPCs
  BY <1>2 DEF TimerPCs
<1>6. Runs(t, n, c)
  BY <1>1, <1>4, <1>5 DEF Runs, AddActive
<1> QED  BY <1>1, <1>2, <1>3, <1>6 DEF Starts

(* A pending command that is moved. *)
LEMMA MovePromotes ==
  ASSUME IndInv, NEW t \in Threads, pc[t] \in {"move", "move_resume"},
         NEW n \in Elems(ppend), ncmd[n].vdev \notin bitmap, NEW marked,
         PendingToActive(t, n, marked),
         \/ n = Head(vpend[ncmd[n].vdev])
         \/ \E r \in DOMAIN ppend : ppend[r] = n /\ FirstStop(r)
  PROVE  Promotes(t, n)
<1> DEFINE c == ncmd[n]
<1>1. c.vdev \in Vdevs
  BY ListedCmds
<1>2. vact[c.vdev] = <<>>
  BY <1>1 DEF IndInv, BitmapExact
<1>3. ~(Full(vact[c.vdev], MaxVdevActive) \/ Full(pact, MaxActiveCmds))
  BY <1>1, <1>2, ActiveRoom
<1>4. /\ vpend' = [vpend EXCEPT ![c.vdev] = Without(@, n)] /\ ppend' = Without(ppend, n)
      /\ AddActive(n, c) /\ pc' = [pc EXCEPT ![t] = "start_timer"]
      /\ node' = [node EXCEPT ![t] = n] /\ UNCHANGED <<ncmd, timers, cx>>
  BY <1>3 DEF PendingToActive, timing
<1>5. pc[t] \notin TimerPCs
  BY DEF TimerPCs
<1>6. Runs(t, n, c)
  BY <1>2, <1>4, <1>5 DEF Runs, AddActive
<1> QED  BY <1>4, <1>6 DEF Promotes

(* ... from the vdev's list or from the pdev's *)
LEMMA MovesPromote ==
  ASSUME IndInv, NEW t \in Threads, MoveFromVdev(t) \/ MoveFromPdev(t)
  PROVE  \E n \in Nodes : Promotes(t, n)
<1>0. pc[t] \in {"move", "move_resume"}
  BY DEF MoveFromVdev, MoveFromPdev, MoveLoop
<1>1. CASE MoveFromVdev(t)
  <2> DEFINE v == Top(t).vdev
             n == Head(vpend[v])
  <2>1. VdevCandidate(v) /\ PendingToActive(t, n, flags)
    BY <1>1 DEF MoveFromVdev
  <2>2. v \in Vdevs
    <3>1. stack[t] \in Seq(Frames) /\ stack[t] # <<>>
      BY <1>0 DEF IndInv, TypeOK, ThreadTypes, Shape, ThreadShape
    <3>2. Top(t) \in Frames
      BY <3>1 DEF Top
    <3> QED  BY <3>2 DEF Frames
  <2>3. n \in Elems(vpend[v])
    BY <2>1, <2>2, ElemsProps DEF VdevCandidate, IndInv, TypeOK, ListTypes
  <2>4. n \in Elems(ppend) /\ ncmd[n].vdev = v
    BY <2>2, <2>3 DEF IndInv, VdevLists
  <2>5. Promotes(t, n)
    BY <1>0, <2>1, <2>4, MovePromotes DEF VdevCandidate
  <2> QED  BY <2>4, <2>5, ListedCmds
<1>2. CASE MoveFromPdev(t)
  <2>1. PICK r \in DOMAIN ppend : FirstStop(r) /\ ~BlockedAt(r)
                                  /\ PendingToActive(t, ppend[r], MovementMarks(r))
    BY <1>2 DEF MoveFromPdev
  <2>2. ppend[r] \in Elems(ppend) /\ r <= Len(ppend)
    BY DEF IndInv, TypeOK, ListTypes, Elems
  <2>3. ncmd[ppend[r]].vdev \notin bitmap
    BY <2>1, <2>2 DEF FirstStop, StopsAt
  <2>4. Promotes(t, ppend[r])
    BY <1>0, <2>1, <2>2, <2>3, MovePromotes
  <2> QED  BY <2>2, <2>4, ListedCmds
<1> QED  BY <1>1, <1>2

(* A dequeue that removes the command it was asked to remove. *)
LEMMA DequeueEnds ==
  ASSUME IndInv, NEW t \in Threads, NEW c \in Cmds, DequeueRemove(t, c),
         \/ pc[t] = "idle"
         \/ pc[t] = "dequeue" /\ (node[t] # NoNode => c = ncmd[node[t]])
  PROVE  \E j \in DOMAIN pact : Ends(j)
<1>1. PICK i \in DOMAIN vact[c.vdev], j \in DOMAIN pact :
        /\ FindCmd(vact[c.vdev], c, i) /\ ACT \notin flags[vact[c.vdev][i]]
        /\ FindCmd(pact, c, j)
        /\ vact' = [vact EXCEPT ![c.vdev] = Del(@, i)]
        /\ pact' = Del(pact, j)
        /\ ClearActive(ncmd[pact[j]]) /\ StopTimer(ncmd[pact[j]]) /\ FreeNode(pact[j], flags)
        /\ pc' = [pc EXCEPT ![t] = "move"]
        /\ node' = [node EXCEPT ![t] = NoNode]
        /\ UNCHANGED <<ppend, vpend, cx>>
  BY DEF DequeueRemove
<1> DEFINE n == pact[j]
           v == c.vdev
<1>2. n \in Elems(pact) /\ ncmd[n].vdev = v /\ v \in Vdevs /\ n \in Elems(vact[v])
  <2>1. n \in Elems(pact)
    BY DEF Elems
  <2> QED  BY <1>1, <2>1, ListedCmds DEF FindCmd, MatchIdVdev
<1>3. vact[v] \in Seq(Nodes) /\ Len(vact[v]) <= 1 /\ vact[v][i] \in Elems(vact[v])
  BY <1>2 DEF IndInv, TypeOK, ListTypes, BitmapExact, Elems
<1>4. ACT \notin flags[n]
  BY <1>1, <1>2, <1>3, ElemsProps
<1>5. Del(vact[v], i) = <<>>
  <2>1. \A s \in Seq(Nodes) : \A k \in DOMAIN s : Len(s) <= 1 => Del(s, k) = <<>>
    BY LastOneOut
  <2> QED  BY <1>3, <2>1, Zenon
<1>6. vact' = [vact EXCEPT ![ncmd[n].vdev] = <<>>]
  BY <1>1, <1>2, <1>5
<1>7. timers' = timers \ {n} /\ ncmd' = [ncmd EXCEPT ![n] = NoCmd]
  BY <1>1, <1>2, StopsOwn DEF FreeNode
<1>8. FlagKept /\ ~(bact' /\ ncmd[n].is_blocking)
  BY <1>1 DEF ClearActive, FlagKept, Held, Settling, OnActive
<1>9. ASSUME NEW u \in Threads
      PROVE  \/ Elsewhere(u)
             \/ /\ pc[u] = "dequeue" /\ pc'[u] = "move"
                /\ node[u] \in Elems(pact) => node[u] = n
  <2>1. CASE u # t
    BY <1>1, <2>1 DEF IndInv, TypeOK, ThreadTypes, Elsewhere
  <2>2. CASE u = t /\ pc[t] = "idle"
    BY <1>1, <2>2 DEF IndInv, TypeOK, ThreadTypes, Elsewhere, TimerPCs
  <2>3. CASE u = t /\ pc[t] = "dequeue" /\ (node[t] # NoNode => c = ncmd[node[t]])
    <3>1. pc'[t] = "move"
      BY <1>1 DEF IndInv, TypeOK, ThreadTypes
    <3>2. node[t] \in Elems(pact) => node[t] = n
      <4>1. NoNode \notin Elems(pact)
        BY NodeAssumption, ElemsProps DEF IndInv, TypeOK, ListTypes
      <4> QED  BY <1>2, <2>3, <4>1, ActiveOfVdev
    <3> QED  BY <2>3, <3>1, <3>2
  <2> QED  BY <2>1, <2>2, <2>3
<1>10. Ends(j)
  BY <1>1, <1>4, <1>6, <1>7, <1>8, <1>9 DEF Ends
<1> QED  BY <1>10

(* A dequeue that removes nothing, from activate_cmd or the timeout handler. *)
LEMMA DequeueGivesUp ==
  ASSUME IndInv, NEW t \in Threads, NEW c \in Cmds, pc[t] = "dequeue",
         node[t] # NoNode => c = ncmd[node[t]],
         DequeueMissing(t, c) \/ DequeueMarked(t, c)
  PROVE  GivesUp(t)
<1>1. /\ ListsUnchanged /\ UNCHANGED <<timers, bact, cx>> /\ Return(t, stack[t])
  BY DEF DequeueMissing, DequeueMarked, ListsUnchanged, queues, timing
<1>2. stack[t] \in Seq(Frames)
  BY DEF IndInv, TypeOK, ThreadTypes
<1>3. ASSUME node[t] \in Elems(pact)  PROVE ACT \in flags[node[t]]
  <2> DEFINE n == node[t]
             s == vact[c.vdev]
  <2>1. n # NoNode /\ c = ncmd[n] /\ c # NoCmd /\ c.vdev \in Vdevs /\ n \in Elems(s)
    BY <1>3, NodeAssumption, ElemsProps, ListedCmds, CmdTypes
    DEF IndInv, TypeOK, ListTypes
  <2>2. s \in Seq(Nodes) /\ Len(s) <= 1
    BY <2>1 DEF IndInv, TypeOK, ListTypes, BitmapExact
  <2>3. Present(s, c)
    BY <2>1 DEF Present, Elems, MatchIdVdev, MatchIdType
  <2>4. PICK i \in DOMAIN s : ACT \in flags[s[i]]
    BY <2>3 DEF DequeueMissing, DequeueMarked
  <2>5. s[i] = n
    BY <2>1, <2>2, <2>4, ElemsProps DEF Elems
  <2> QED  BY <2>4, <2>5
<1> QED  BY <1>1, <1>2, <1>3, FlagAlone, ReturnElsewhere DEF GivesUp

(* A removal asked for by an owner that removes nothing. *)
LEMMA RemoveAside ==
  ASSUME IndInv, NEW t \in Threads, NEW c \in Cmds, pc[t] = "idle",
         DequeueMissing(t, c) \/ DequeueMarked(t, c)
  PROVE  Aside
<1>1. /\ ListsUnchanged /\ UNCHANGED <<timers, bact, cx>> /\ Return(t, stack[t])
  BY DEF DequeueMissing, DequeueMarked, ListsUnchanged, queues, timing
<1>2. stack[t] \in Seq(Frames) /\ pc[t] \notin TimerPCs
  BY DEF IndInv, TypeOK, ThreadTypes, TimerPCs
<1> QED  BY <1>1, <1>2, FlagAlone, ReturnElsewhere DEF Aside

(* The dequeue of activate_cmd and of the timeout handler. *)
LEMMA DequeueEffect ==
  ASSUME IndInv, NEW t \in Threads, Dequeue(t)
  PROVE  GivesUp(t) \/ \E j \in DOMAIN pact : Ends(j)
<1>0. pc[t] = "dequeue"
  BY DEF Dequeue
<1>1. CASE DequeueArg(t) = NoCmd
  <2>1. /\ ListsUnchanged /\ UNCHANGED <<timers, bact, cx>> /\ Return(t, stack[t])
    BY <1>1 DEF Dequeue, ListsUnchanged, queues, timing
  <2>2. stack[t] \in Seq(Frames)
    BY DEF IndInv, TypeOK, ThreadTypes
  <2>3. node[t] \notin Elems(pact)
    <3>1. ASSUME node[t] \in Elems(pact)  PROVE FALSE
      <4>1. node[t] # NoNode /\ ncmd[node[t]] # NoCmd
        BY <3>1, NodeAssumption, ElemsProps, ListedCmds, CmdTypes
        DEF IndInv, TypeOK, ListTypes
      <4> QED  BY <1>1, <4>1 DEF DequeueArg
    <3> QED  BY <3>1
  <2> QED  BY <1>0, <2>1, <2>2, <2>3, FlagAlone, ReturnElsewhere DEF GivesUp
<1>2. CASE DequeueArg(t) # NoCmd
  <2> DEFINE c == DequeueArg(t)
  <2>1. c \in Cmds
    <3>1. CASE node[t] # NoNode
      BY <1>2, <3>1 DEF DequeueArg, IndInv, TypeOK, ListTypes, ThreadTypes
    <3>2. CASE node[t] = NoNode
      <4>1. stack[t] \in Seq(Frames) /\ stack[t] # <<>>
        BY <3>2 DEF Dequeue, IndInv, TypeOK, ThreadTypes, Shape, ThreadShape
      <4>2. Top(t) \in Frames
        BY <4>1 DEF Top
      <4> QED  BY <3>2, <4>2 DEF DequeueArg, Frames
    <3> QED  BY <3>1, <3>2
  <2>2. node[t] # NoNode => c = ncmd[node[t]]
    BY DEF DequeueArg
  <2>3. DequeueCmd(t, c)
    BY <1>2 DEF Dequeue
  <2> HIDE DEF c
  <2> QED  BY <1>0, <2>1, <2>2, <2>3, DequeueGivesUp, DequeueEnds DEF DequeueCmd
<1> QED  BY <1>1, <1>2

(* The removal an owner asks for. *)
LEMMA RemoveEffect ==
  ASSUME IndInv, NEW t \in Threads, NEW c \in Cmds, RemoveCmd(t, c)
  PROVE  Aside \/ \E j \in DOMAIN pact : Ends(j)
<1>1. pc[t] = "idle" /\ DequeueCmd(t, c)
  BY DEF RemoveCmd
<1> QED  BY <1>1, RemoveAside, DequeueEnds DEF DequeueCmd

(* What a cancel that takes a command does. *)
Cancelled(t, s, i) ==
  /\ CancelSettle(t) /\ Takes(t, i)
  /\ OnActive(t) => /\ StopTimer(ncmd[s[i]])
                    /\ pact' = Del(pact, i)
                    /\ vact' = [vact EXCEPT ![ncmd[s[i]].vdev] = Without(@, s[i])]
                    /\ UNCHANGED <<ppend, vpend>>
  /\ ~OnActive(t) => /\ UNCHANGED <<timers, ref, pact, vact>>
                     /\ ppend' = Del(ppend, i)
                     /\ vpend' = [vpend EXCEPT ![ncmd[s[i]].vdev] = Without(@, s[i])]
  /\ FreeNode(s[i], CancelMarks(t, i - 1))
  /\ cx'[t].removed = ncmd[s[i]] /\ cx'[t].queues = cx[t].queues
  /\ \A u \in Threads \ {t} : cx'[u] = cx[u]
  /\ pc' = [pc EXCEPT ![t] = "cancel_cb"]
  /\ UNCHANGED <<node, stack, live, msgs>>

(* What a cancel that takes a command does. *)
LEMMA CancelTakes ==
  ASSUME IndInv, NEW t \in Threads, CancelTake(t)
  PROVE  \E i \in DOMAIN CancelList(t) : Cancelled(t, CancelList(t), i)
<1> DEFINE s == CancelList(t)
<1>1. PICK i \in DOMAIN s, p \in 0..Len(s) :
        /\ CancelSettle(t) /\ Takes(t, i)
        /\ IF OnActive(t)
           THEN /\ StopTimer(ncmd[s[i]])
                /\ pact' = Del(pact, i)
                /\ vact' = [vact EXCEPT ![ncmd[s[i]].vdev] = Without(@, s[i])]
                /\ UNCHANGED <<ppend, vpend>>
           ELSE /\ UNCHANGED <<timers, armed, ref, pact, vact>>
                /\ ppend' = Del(ppend, i)
                /\ vpend' = [vpend EXCEPT ![ncmd[s[i]].vdev] = Without(@, s[i])]
        /\ FreeNode(s[i], CancelMarks(t, i - 1))
        /\ cx' = [cx EXCEPT ![t].fresh = FALSE, ![t].removed = ncmd[s[i]],
                    ![t].qsize = Budget(t) - (i - WalkFrom(t) + 1),
                    ![t].pnode = IF p = 0 THEN @ ELSE s[p]]
        /\ pc' = [pc EXCEPT ![t] = "cancel_cb"]
        /\ UNCHANGED node
  BY DEF CancelTake, FirstTake
<1>2. UNCHANGED <<stack, live, msgs>>
  BY DEF CancelTake
<1>3. cx \in [Threads -> CancelLocals] /\ cx[t] \in CancelLocals
  BY DEF IndInv, TypeOK, CancelTypes
<1>4. /\ cx'[t].removed = ncmd[s[i]] /\ cx'[t].queues = cx[t].queues
      /\ \A u \in Threads \ {t} : cx'[u] = cx[u]
  BY <1>1, <1>3 DEF CancelLocals
<1>5. Cancelled(t, s, i)
  <2> HIDE DEF s
  <2> QED  BY <1>1, <1>2, <1>4 DEF Cancelled
<1> QED  BY <1>5

(* A cancel takes a command. *)
LEMMA CancelEffect ==
  ASSUME IndInv, NEW t \in Threads, CancelTake(t)
  PROVE  \/ \E j \in DOMAIN pact : Ends(j)
         \/ \E i \in DOMAIN ppend : Withdraws(i)
<1> DEFINE s == CancelList(t)
<1>1. PICK i \in DOMAIN s : Cancelled(t, s, i)
  BY CancelTakes
<1> DEFINE n == s[i]
           c == ncmd[n]
<1>2. pc[t] = "cancel"
  BY DEF CancelTake
<1>3. pc[t] \notin TimerPCs
  BY <1>2 DEF TimerPCs
<1>4. \A u \in Threads : Elsewhere(u)
  BY <1>1, <1>3, PcElsewhere DEF Cancelled
<1>5. cx'[t].removed = c /\ cx'[t].queues = cx[t].queues /\ \A u \in Threads \ {t} : cx'[u] = cx[u]
  BY <1>1 DEF Cancelled
<1>6. FlagKept
  BY <1>1, <1>5, SettleFlag DEF Cancelled
<1>7. ncmd' = [ncmd EXCEPT ![n] = NoCmd]
  BY <1>1 DEF Cancelled, FreeNode
<1>8. CASE OnActive(t)
  <2>1. /\ s = pact /\ i \in DOMAIN pact /\ n \in Elems(pact) /\ StopTimer(c)
        /\ pact' = Del(pact, i)
        /\ vact' = [vact EXCEPT ![c.vdev] = Without(@, n)] /\ UNCHANGED <<ppend, vpend>>
    BY <1>1, <1>8 DEF Cancelled, CancelList, Elems
  <2>2. c \in Cmds /\ c # NoCmd /\ c.vdev \in Vdevs /\ n \in Elems(vact[c.vdev])
    BY <2>1, ListedCmds, CmdTypes
  <2>3. Without(vact[c.vdev], n) = <<>>
    <3>1. vact[c.vdev] \in Seq(Nodes) /\ Len(vact[c.vdev]) <= 1
      BY <2>2 DEF IndInv, TypeOK, ListTypes, BitmapExact
    <3>2. \A r \in Seq(Nodes) : Len(r) <= 1 => \A u \in Elems(r) : Without(r, u) = <<>>
      BY LastOneOut
    <3> QED  BY <2>2, <3>1, <3>2, Zenon
  <2>4. vact' = [vact EXCEPT ![c.vdev] = <<>>]
    BY <2>1, <2>3
  <2>5. timers' = timers \ {n}
    BY <2>1, StopsOwn
  <2>6. ACT \notin flags[n]
    BY <1>1, <1>8 DEF Cancelled, Takes, Activating
  <2>7. c.is_blocking => Held(t)'
    BY <1>5, <1>8, <2>2 DEF Held, Settling, OnActive
  <2>8. n = pact[i]
    BY <2>1
  <2> HIDE DEF n, s
  <2>9. Ends(i)
    BY <1>4, <1>6, <1>7, <2>1, <2>4, <2>5, <2>6, <2>7, <2>8 DEF Ends
  <2> QED  BY <2>1, <2>9
<1>9. CASE ~OnActive(t)
  <2>1. /\ s = ppend /\ i \in DOMAIN ppend /\ UNCHANGED <<timers, pact, vact>>
        /\ ppend' = Del(ppend, i) /\ vpend' = [vpend EXCEPT ![c.vdev] = Without(@, n)]
    BY <1>1, <1>9 DEF Cancelled, CancelList
  <2>2. n = ppend[i]
    BY <2>1
  <2> HIDE DEF n, s
  <2>3. Withdraws(i)
    BY <1>4, <1>6, <1>7, <2>1, <2>2 DEF Withdraws
  <2> QED  BY <2>1, <2>3
<1> QED  BY <1>8, <1>9

(* Every step of the component is one of these. *)
LEMMA StepEffects ==
  ASSUME IndInv, [Next]_vars
  PROVE  QueueStep
<1>1. CASE UNCHANGED vars
  <2>1. ListsUnchanged /\ UNCHANGED <<timers, bact, cx, pc, node>>
    BY <1>1 DEF vars, queues, timing, locals, ListsUnchanged
  <2> QED  BY <2>1, FlagAlone, AllElsewhere DEF Aside, QueueStep
<1>2. ASSUME NEW t \in Threads, Continue(t)  PROVE QueueStep
  <2>1. CASE \/ StartTimer(t) \/ StartTimerFails(t) \/ ActivateCallback(t) \/ FinishActivation(t)
    BY <2>1 DEF QueueStep, Activates
  <2>2. CASE \/ TestRemoval(t) \/ MoveNothingVdev(t) \/ MoveNothingPdev(t) \/ MoveBreak(t)
             \/ CancelLost(t) \/ CancelCallbacks(t)
    BY <2>2, AlongAside DEF QueueStep
  <2>3. CASE TestCancel(t) \/ ReleaseMem(t) \/ TimeoutFree(t)
    BY <2>3, ReturnAside DEF QueueStep
  <2>4. CASE CancelStop(t) \/ CancelNoTimer(t)
    BY <2>4, CancelEndsAside DEF QueueStep
  <2>5. CASE Dequeue(t)
    BY <2>5, DequeueEffect DEF QueueStep
  <2>6. CASE MoveFromVdev(t) \/ MoveFromPdev(t)
    BY <2>6, MovesPromote DEF QueueStep
  <2>7. CASE CancelTake(t)
    BY <2>7, CancelEffect DEF QueueStep
  <2> QED  BY <1>2, <2>1, <2>2, <2>3, <2>4, <2>5, <2>6, <2>7 DEF Continue
<1>3. ASSUME NEW t \in Threads, Call(t)  PROVE QueueStep
  <2>1. ASSUME NEW c \in Cmds, \/ RequestRefused(t, c) \/ RequestListFull(t, c)
                               \/ RequestPending(t, c) \/ RequestActive(t, c)
        PROVE  QueueStep
    BY <2>1, DeniedAside, PendingEnqueues, ActiveStarts DEF QueueStep
  <2>2. ASSUME NEW c \in Removals, RemoveCmd(t, c) \/ UpdateTimer(t, c)  PROVE QueueStep
    BY <2>2, RequestAssumption, RemoveEffect, DeniedAside DEF QueueStep
  <2>3. ASSUME NEW q \in Cancels, CancelRequest(t, q)  PROVE QueueStep
    BY <2>3, CancelRequestAside DEF QueueStep
  <2>4. ASSUME NEW v \in Disables, VdevQueueDisable(t, v)  PROVE QueueStep
    BY <2>4, DeniedAside DEF QueueStep
  <2> QED  BY <1>3, <2>1, <2>2, <2>3, <2>4 DEF Call
<1>4. CASE Timeout
  BY <1>4, TimerAside, HandledAside DEF Timeout, QueueStep
<1>5. CASE Environment
  BY <1>5, TimerAside DEF Environment, QueueStep
<1> QED  BY <1>1, <1>2, <1>3, <1>4, <1>5 DEF Next, Running, Halted

-----------------------------------------------------------------------------
(* The order of the lists *)

(* Inserting into the longer list does not disturb the shorter one... *)
LEMMA OrderInsertOther ==
  ASSUME NEW S, NEW r \in Seq(S), NEW s \in Seq(S), NEW n \in S, NEW c,
         n \notin Elems(r), SameOrder(r, s)
  PROVE  SameOrder(r, Insert(s, n, c))
<1> DEFINE q == Insert(s, n, c)
<1>1. Len(r) \in Nat /\ DOMAIN r = 1..Len(r) /\ Len(s) \in Nat /\ DOMAIN s = 1..Len(s)
  OBVIOUS
<1>2. q \in Seq(S) /\ Len(q) = Len(s) + 1 /\ DOMAIN q = 1..(Len(s) + 1)
  <2>1. q \in Seq(S) /\ Len(q) = Len(s) + 1
    BY InsertProps
  <2> HIDE DEF q
  <2> QED  BY <2>1
<1>3. CASE c.is_high_priority
  <2>1. \A k \in DOMAIN q : q[k] # n => k - 1 \in DOMAIN s /\ q[k] = s[k - 1]
    <3>1. q = <<n>> \o s
      BY <1>3 DEF Insert
    <3> QED  BY <1>2, <3>1
  <2> HIDE DEF q
  <2> SUFFICES ASSUME NEW i \in DOMAIN r, NEW j \in DOMAIN r, NEW k \in DOMAIN q,
                      NEW l \in DOMAIN q, r[i] = q[k], r[j] = q[l]
               PROVE  i < j <=> k < l
    BY DEF SameOrder, q
  <2>2. k - 1 \in DOMAIN s /\ r[i] = s[k - 1] /\ l - 1 \in DOMAIN s /\ r[j] = s[l - 1]
    BY <2>1 DEF Elems
  <2>3. i < j <=> k - 1 < l - 1
    BY <2>2 DEF SameOrder
  <2> QED  BY <1>2, <2>3
<1>4. CASE ~c.is_high_priority
  <2>1. \A k \in DOMAIN q : q[k] # n => k \in DOMAIN s /\ q[k] = s[k]
    <3>1. q = Append(s, n)
      BY <1>4 DEF Insert
    <3> QED  BY <1>2, <3>1
  <2> HIDE DEF q
  <2> SUFFICES ASSUME NEW i \in DOMAIN r, NEW j \in DOMAIN r, NEW k \in DOMAIN q,
                      NEW l \in DOMAIN q, r[i] = q[k], r[j] = q[l]
               PROVE  i < j <=> k < l
    BY DEF SameOrder, q
  <2>2. k \in DOMAIN s /\ r[i] = s[k] /\ l \in DOMAIN s /\ r[j] = s[l]
    BY <2>1 DEF Elems
  <2> QED  BY <2>2 DEF SameOrder
<1> QED  BY <1>3, <1>4

(* ... and inserting at the same end of both keeps their order. *)
LEMMA OrderInsert ==
  ASSUME NEW S, NEW r \in Seq(S), NEW s \in Seq(S), NEW n \in S, NEW c,
         n \notin Elems(r), n \notin Elems(s), SameOrder(r, s)
  PROVE  SameOrder(Insert(r, n, c), Insert(s, n, c))
<1> DEFINE p == Insert(r, n, c)
           q == Insert(s, n, c)
<1>1. Len(r) \in Nat /\ DOMAIN r = 1..Len(r) /\ Len(s) \in Nat /\ DOMAIN s = 1..Len(s)
  OBVIOUS
<1>2. /\ DOMAIN p = 1..(Len(r) + 1) /\ DOMAIN q = 1..(Len(s) + 1)
  <2>1. p \in Seq(S) /\ Len(p) = Len(r) + 1 /\ q \in Seq(S) /\ Len(q) = Len(s) + 1
    BY InsertProps
  <2> HIDE DEF p, q
  <2> QED  BY <2>1
<1>3. CASE c.is_high_priority
  <2>1. /\ \A k \in DOMAIN p : p[k] = IF k = 1 THEN n ELSE r[k - 1]
        /\ \A k \in DOMAIN q : q[k] = IF k = 1 THEN n ELSE s[k - 1]
    <3>1. p = <<n>> \o r /\ q = <<n>> \o s
      BY <1>3 DEF Insert
    <3> QED  BY <1>2, <3>1
  <2> HIDE DEF p, q
  <2>2. /\ \A k \in DOMAIN p : k # 1 => k - 1 \in DOMAIN r /\ p[k] = r[k - 1] /\ p[k] # n
        /\ \A k \in DOMAIN q : k # 1 => k - 1 \in DOMAIN s /\ q[k] = s[k - 1] /\ q[k] # n
    BY <1>1, <1>2, <2>1 DEF Elems
  <2> SUFFICES ASSUME NEW i \in DOMAIN p, NEW j \in DOMAIN p, NEW k \in DOMAIN q,
                      NEW l \in DOMAIN q, p[i] = q[k], p[j] = q[l]
               PROVE  i < j <=> k < l
    BY DEF SameOrder, p, q
  <2>3. (i = 1 <=> k = 1) /\ (j = 1 <=> l = 1)
    BY <2>1, <2>2
  <2>4. CASE i = 1 \/ j = 1
    BY <1>2, <2>3, <2>4
  <2>5. CASE i # 1 /\ j # 1
    <3>1. /\ i - 1 \in DOMAIN r /\ j - 1 \in DOMAIN r /\ k - 1 \in DOMAIN s /\ l - 1 \in DOMAIN s
          /\ r[i - 1] = s[k - 1] /\ r[j - 1] = s[l - 1]
      BY <2>2, <2>3, <2>5
    <3>2. i - 1 < j - 1 <=> k - 1 < l - 1
      BY <3>1 DEF SameOrder
    <3> QED  BY <1>2, <3>2
  <2> QED  BY <2>4, <2>5
<1>4. CASE ~c.is_high_priority
  <2> DEFINE a == Len(r) + 1
             b == Len(s) + 1
  <2>1. /\ \A k \in DOMAIN p : p[k] = IF k = a THEN n ELSE r[k]
        /\ \A k \in DOMAIN q : q[k] = IF k = b THEN n ELSE s[k]
    <3>1. p = Append(r, n) /\ q = Append(s, n)
      BY <1>4 DEF Insert
    <3> QED  BY <1>2, <3>1
  <2> HIDE DEF p, q
  <2>2. /\ \A k \in DOMAIN p : k # a => k \in DOMAIN r /\ k < a /\ p[k] = r[k] /\ p[k] # n
        /\ \A k \in DOMAIN q : k # b => k \in DOMAIN s /\ k < b /\ q[k] = s[k] /\ q[k] # n
    BY <1>1, <1>2, <2>1 DEF Elems
  <2> SUFFICES ASSUME NEW i \in DOMAIN p, NEW j \in DOMAIN p, NEW k \in DOMAIN q,
                      NEW l \in DOMAIN q, p[i] = q[k], p[j] = q[l]
               PROVE  i < j <=> k < l
    BY DEF SameOrder, p, q
  <2>3. (i = a <=> k = b) /\ (j = a <=> l = b)
    BY <2>1, <2>2
  <2>4. CASE i = a \/ j = a
    BY <1>1, <1>2, <2>2, <2>3, <2>4
  <2>5. CASE i # a /\ j # a
    <3>1. /\ i \in DOMAIN r /\ j \in DOMAIN r /\ k \in DOMAIN s /\ l \in DOMAIN s
          /\ r[i] = s[k] /\ r[j] = s[l]
      BY <2>2, <2>3, <2>5
    <3> QED  BY <3>1 DEF SameOrder
  <2> QED  BY <2>4, <2>5
<1> QED  BY <1>3, <1>4

(* The places of a list out of which one node was taken are, in order,     *)
(* places of that list.                                                    *)
LEMMA DelPlaces ==
  ASSUME NEW S, NEW s \in Seq(S), NEW x \in DOMAIN s
  PROVE  \E f \in [DOMAIN Del(s, x) -> DOMAIN s] :
           /\ \A i \in DOMAIN Del(s, x) : Del(s, x)[i] = s[f[i]]
           /\ \A i, j \in DOMAIN Del(s, x) : i < j <=> f[i] < f[j]
<1> DEFINE r == Del(s, x)
           f == [i \in DOMAIN r |-> IF i < x THEN i ELSE i + 1]
<1>1. Len(s) \in Nat /\ DOMAIN s = 1..Len(s) /\ x \in Nat
  OBVIOUS
<1>2. /\ DOMAIN r = 1..(Len(s) - 1)
      /\ \A j \in DOMAIN r : r[j] = IF j < x THEN s[j] ELSE s[j + 1]
  BY DEF Del
<1> HIDE DEF r
<1>3. f \in [DOMAIN r -> DOMAIN s]
  BY <1>1, <1>2
<1>4. \A i \in DOMAIN r : r[i] = s[f[i]]
  BY <1>1, <1>2
<1>5. \A i, j \in DOMAIN r : i < j <=> f[i] < f[j]
  BY <1>1, <1>2
<1> HIDE DEF f
<1> QED  BY <1>3, <1>4, <1>5 DEF r

(* Taking a node out of either list keeps the order. *)
LEMMA OrderDel ==
  ASSUME NEW S, NEW r \in Seq(S), NEW s \in Seq(S), SameOrder(r, s)
  PROVE  /\ \A x \in DOMAIN r : SameOrder(Del(r, x), s)
         /\ \A x \in DOMAIN s : SameOrder(r, Del(s, x))
<1>1. ASSUME NEW x \in DOMAIN r  PROVE SameOrder(Del(r, x), s)
  <2> DEFINE p == Del(r, x)
  <2>1. PICK f \in [DOMAIN p -> DOMAIN r] :
              /\ \A i \in DOMAIN p : p[i] = r[f[i]]
              /\ \A i, j \in DOMAIN p : i < j <=> f[i] < f[j]
    BY DelPlaces
  <2> HIDE DEF p
  <2>2. SameOrder(p, s)
    BY <2>1 DEF SameOrder
  <2> QED  BY <2>2 DEF p
<1>2. ASSUME NEW x \in DOMAIN s  PROVE SameOrder(r, Del(s, x))
  <2> DEFINE p == Del(s, x)
  <2>1. PICK f \in [DOMAIN p -> DOMAIN s] :
              /\ \A i \in DOMAIN p : p[i] = s[f[i]]
              /\ \A i, j \in DOMAIN p : i < j <=> f[i] < f[j]
    BY DelPlaces
  <2> HIDE DEF p
  <2>2. SameOrder(r, p)
    BY <2>1 DEF SameOrder
  <2> QED  BY <2>2 DEF p
<1> QED  BY <1>1, <1>2

(* So does taking the same node out of both. *)
LEMMA OrderWithout ==
  ASSUME NEW S, NEW r \in Seq(S), NEW s \in Seq(S), SameOrder(r, s), NEW n \in Elems(s)
  PROVE  /\ SameOrder(r, Without(s, n))
         /\ n \in Elems(r) => SameOrder(Without(r, n), Without(s, n))
<1>1. Index(s, n) \in DOMAIN s
  BY DEF Index, Elems
<1>2. SameOrder(r, Without(s, n))
  BY <1>1, OrderDel DEF Without
<1>3. ASSUME n \in Elems(r)  PROVE SameOrder(Without(r, n), Without(s, n))
  <2>1. Index(r, n) \in DOMAIN r
    BY <1>3 DEF Index, Elems
  <2>2. Without(s, n) \in Seq(S)
    BY WithoutProps
  <2> QED  BY <1>2, <2>1, <2>2, OrderDel DEF Without
<1> QED  BY <1>2, <1>3

-----------------------------------------------------------------------------
(* The invariants, beside IndInv *)

(* No two pending commands are the same to a lookup. *)
PendingDistinct == \A m, n \in Elems(ppend) : MatchIdVdev(ncmd[m], ncmd[n]) => m = n

(* The pending commands of a vdev are in the order of the pdev's list. *)
PendingOrdered == \A v \in Vdevs : SameOrder(vpend[v], ppend)

(* A command that waits for its timer has none, one whose ACTIVATE         *)
(* callback runs or has succeeded has one.                                 *)
TimersStarted == \A t \in Threads :
  /\ pc[t] = "start_timer" => node[t] \notin timers
  /\ pc[t] \in {"callback", "activated"} => node[t] \in timers

QueueInv == /\ PendingDistinct /\ PendingOrdered /\ TimersStarted
            /\ TimersOfActive /\ BlockingFlagSound

(* What the whole invariant says of the active lists: they hold at most    *)
(* one command of a vdev.                                                  *)
LEMMA ListsFollow ==
  ASSUME IndInv, PendingDistinct, PendingOrdered
  PROVE  NoDuplicates /\ ListsAgree
<1>1. pact \in Seq(Nodes) /\ ppend \in Seq(Nodes) /\ Injective(pact) /\ Injective(ppend)
  BY DEF IndInv, TypeOK, ListTypes, NodesAccounted
<1>2. NoDuplicates
  <2> SUFFICES ASSUME NEW s \in {pact, ppend}, NEW i \in DOMAIN s, NEW j \in DOMAIN s,
                      MatchIdVdev(ncmd[s[i]], ncmd[s[j]])
               PROVE  i = j
    BY DEF NoDuplicates
  <2>1. s[i] \in Elems(s) /\ s[j] \in Elems(s)
    BY DEF Elems
  <2>2. s[i] = s[j]
    <3>1. CASE s = pact
      BY <2>1, <3>1, ActiveOfVdev DEF MatchIdVdev
    <3>2. CASE s = ppend
      BY <2>1, <3>2 DEF PendingDistinct
    <3> QED  BY <3>1, <3>2
  <2> QED  BY <1>1, <2>2 DEF Injective
<1>3. ASSUME NEW v \in Vdevs  PROVE SameOrder(vact[v], pact)
  <2>1. vact[v] \in Seq(Nodes) /\ Len(vact[v]) <= 1
    BY DEF IndInv, TypeOK, ListTypes, BitmapExact
  <2>2. \A i, j \in DOMAIN vact[v] : i = j
    BY <2>1
  <2>3. \A i \in DOMAIN vact[v] : i \in Int
    BY <2>1
  <2>4. \A k \in DOMAIN pact : k \in Int
    BY <1>1
  <2> QED  BY <1>1, <2>2, <2>3, <2>4 DEF SameOrder, Injective
<1>4. ListsAgree
  BY <1>3 DEF PendingOrdered, IndInv, VdevLists, ListsAgree
<1> QED  BY <1>2, <1>4

(* The head of a vdev's pending list is the command a move promotes,       *)
(* whichever list it walks.                                                *)
LEMMA PromotesHead ==
  ASSUME IndInv, PendingOrdered, NEW t, NEW n, Promotes(t, n)
  PROVE  n = Head(vpend[ncmd[n].vdev])
<1> DEFINE v == ncmd[n].vdev
<1>1. n \in Elems(ppend) /\ v \notin bitmap
  BY DEF Promotes
<1>2. /\ v \in Vdevs /\ n \in Elems(vpend[v]) /\ ppend \in Seq(Nodes) /\ vpend[v] \in Seq(Nodes)
  BY <1>1, ListedCmds DEF IndInv, TypeOK, ListTypes
<1>3. SUFFICES ASSUME NEW r \in DOMAIN ppend, ppend[r] = n, FirstStop(r)
               PROVE  n = Head(vpend[v])
  BY DEF Promotes
<1> DEFINE h == vpend[v][1]
<1>4. 1 \in DOMAIN vpend[v] /\ h = Head(vpend[v]) /\ h \in Elems(vpend[v])
  BY <1>2 DEF Elems
<1>5. PICK k \in DOMAIN ppend : h = ppend[k]
  <2>1. h \in Elems(ppend)
    BY <1>2, <1>4 DEF IndInv, VdevLists
  <2> QED  BY <2>1 DEF Elems
<1>6. ncmd[h].vdev = v
  BY <1>2, <1>4 DEF IndInv, VdevLists
<1>7. StopsAt(k)
  BY <1>1, <1>5, <1>6 DEF StopsAt
<1>8. k \in Int /\ r \in Int /\ k >= 1
  BY <1>2
<1>9. ~(k < r)
  <2>1. k < r => k \in 1..(r - 1)
    BY <1>8
  <2> QED  BY <1>3, <1>7, <2>1 DEF FirstStop
<1>10. PICK j \in DOMAIN vpend[v] : vpend[v][j] = n
  BY <1>2 DEF Elems
<1>11. 1 < j <=> k < r
  BY <1>2, <1>3, <1>4, <1>5, <1>10 DEF PendingOrdered, SameOrder
<1>12. j = 1
  BY <1>2, <1>9, <1>10, <1>11
<1> QED  BY <1>4, <1>10, <1>12

(* What each kind of step does to the pending lists *)

(* The nodes of the pending list and their commands, after each step. *)
LEMMA PendingAfter ==
  ASSUME IndInv, QueueStep
  PROVE  \/ UNCHANGED <<ppend, vpend>> /\ \A n \in Elems(ppend) : ncmd'[n] = ncmd[n]
         \/ \E c \in Cmds, n \in Nodes : Enqueues(c, n)
         \/ \E n \in Elems(ppend) :
              /\ \A m \in Elems(ppend) \ {n} : ncmd'[m] = ncmd[m]
              /\ \E i \in DOMAIN ppend : ppend[i] = n /\ ppend' = Del(ppend, i)
              /\ vpend' = [vpend EXCEPT ![ncmd[n].vdev] = Without(@, n)]
<1>0. /\ ncmd \in [Nodes -> Cmds \cup {NoCmd}] /\ ppend \in Seq(Nodes)
      /\ Elems(ppend) \subseteq Nodes
  BY ElemsProps DEF IndInv, TypeOK, ListTypes
<1>1. CASE \/ Aside \/ \E t \in Threads : Activates(t) \/ GivesUp(t)
  BY <1>1 DEF Aside, GivesUp, Activates, ListsUnchanged, StartTimer, StartTimerFails,
              ActivateCallback, FinishActivation, queues
<1>2. CASE \E t \in Threads, c \in Cmds, n \in Nodes : Starts(t, c, n)
  <2>1. PICK t \in Threads, c \in Cmds, n \in Nodes : Starts(t, c, n)
    BY <1>2
  <2>2. n \notin Elems(ppend)
    BY <2>1 DEF Starts, IndInv, NodesAccounted
  <2> QED  BY <1>0, <2>1, <2>2 DEF Starts
<1>3. CASE \E t \in Threads, n \in Nodes : Promotes(t, n)
  <2>1. PICK t \in Threads, n \in Nodes : Promotes(t, n)
    BY <1>3
  <2>2. n \in Elems(ppend) /\ ppend' = Without(ppend, n)
    BY <2>1 DEF Promotes
  <2>3. Index(ppend, n) \in DOMAIN ppend /\ ppend[Index(ppend, n)] = n
    BY <2>2 DEF Index, Elems
  <2>4. \E i \in DOMAIN ppend : ppend[i] = n /\ ppend' = Del(ppend, i)
    BY <2>2, <2>3 DEF Without
  <2> QED  BY <2>1, <2>2, <2>4 DEF Promotes
<1>4. CASE \E j \in DOMAIN pact : Ends(j)
  <2>1. PICK j \in DOMAIN pact : Ends(j)
    BY <1>4
  <2>2. pact[j] \notin Elems(ppend)
    BY DEF IndInv, NodesAccounted, Elems
  <2> QED  BY <1>0, <2>1, <2>2 DEF Ends
<1>5. CASE \E i \in DOMAIN ppend : Withdraws(i)
  <2>1. PICK i \in DOMAIN ppend : Withdraws(i)
    BY <1>5
  <2>2. ppend[i] \in Elems(ppend)
    BY DEF Elems
  <2> QED  BY <1>0, <2>1, <2>2 DEF Withdraws
<1> QED  BY <1>1, <1>2, <1>3, <1>4, <1>5 DEF QueueStep

(* Pending commands stay distinct: a new one is looked up first. *)
LEMMA DistinctStep ==
  ASSUME IndInv, PendingDistinct, QueueStep
  PROVE  PendingDistinct'
<1>0. ppend \in Seq(Nodes) /\ Injective(ppend) /\ ncmd \in [Nodes -> Cmds \cup {NoCmd}]
  BY DEF IndInv, TypeOK, ListTypes, NodesAccounted
<1>1. CASE UNCHANGED <<ppend, vpend>> /\ \A n \in Elems(ppend) : ncmd'[n] = ncmd[n]
  <2> SUFFICES ASSUME NEW m \in Elems(ppend), NEW n \in Elems(ppend),
                      MatchIdVdev(ncmd'[m], ncmd'[n])
               PROVE  m = n
    BY <1>1 DEF PendingDistinct
  <2>1. MatchIdVdev(ncmd[m], ncmd[n])
    BY <1>1
  <2> QED  BY <2>1 DEF PendingDistinct
<1>2. ASSUME NEW c \in Cmds, NEW n \in Nodes, Enqueues(c, n)  PROVE PendingDistinct'
  <2>1. /\ n \in pool /\ ~Present(vpend[c.vdev], c) /\ ncmd' = [ncmd EXCEPT ![n] = c]
        /\ ppend' = Insert(ppend, n, c)
    BY <1>2 DEF Enqueues
  <2>2. n \notin Elems(ppend) /\ Elems(ppend') = Elems(ppend) \cup {n}
    BY <1>0, <2>1, InsertProps DEF IndInv, NodesAccounted
  <2>3. ncmd'[n] = c /\ \A m \in Elems(ppend) : ncmd'[m] = ncmd[m]
    BY <1>0, <2>1, <2>2, ElemsProps
  <2>4. \A m \in Elems(ppend) : ~MatchIdVdev(ncmd[m], c) /\ ~MatchIdVdev(c, ncmd[m])
    <3> SUFFICES ASSUME NEW m \in Elems(ppend), MatchIdVdev(ncmd[m], c) \/ MatchIdVdev(c, ncmd[m])
                 PROVE  FALSE
      OBVIOUS
    <3>1. ncmd[m] \in Cmds /\ ncmd[m] # NoCmd /\ m \in Elems(vpend[ncmd[m].vdev])
      BY ListedCmds, CmdTypes
    <3>2. MatchIdVdev(ncmd[m], c) /\ ncmd[m].vdev = c.vdev
      BY <3>1 DEF MatchIdVdev, MatchIdType
    <3> QED  BY <2>1, <3>1, <3>2 DEF Present, Elems
  <2>5. ASSUME NEW m \in Elems(ppend'), NEW k \in Elems(ppend'), MatchIdVdev(ncmd'[m], ncmd'[k])
        PROVE  m = k
    <3>1. CASE m = n \/ k = n
      BY <2>2, <2>3, <2>4, <2>5, <3>1
    <3>2. CASE m # n /\ k # n
      <4>1. m \in Elems(ppend) /\ k \in Elems(ppend)
        BY <2>2, <3>2
      <4>2. MatchIdVdev(ncmd[m], ncmd[k])
        BY <2>3, <2>5, <4>1
      <4> QED  BY <4>1, <4>2 DEF PendingDistinct
    <3> QED  BY <3>1, <3>2
  <2> QED  BY <2>5 DEF PendingDistinct
<1>3. ASSUME NEW n \in Elems(ppend),
             \A m \in Elems(ppend) \ {n} : ncmd'[m] = ncmd[m],
             \E i \in DOMAIN ppend : ppend[i] = n /\ ppend' = Del(ppend, i)
      PROVE  PendingDistinct'
  <2>1. Elems(ppend') = Elems(ppend) \ {n}
    BY <1>0, <1>3, DelProps
  <2>2. ASSUME NEW m \in Elems(ppend'), NEW k \in Elems(ppend'), MatchIdVdev(ncmd'[m], ncmd'[k])
        PROVE  m = k
    <3>1. m \in Elems(ppend) \ {n} /\ k \in Elems(ppend) \ {n}
      BY <2>1
    <3>2. MatchIdVdev(ncmd[m], ncmd[k])
      BY <1>3, <2>2, <3>1
    <3> QED  BY <3>1, <3>2 DEF PendingDistinct
  <2> QED  BY <2>2 DEF PendingDistinct
<1> QED  BY <1>1, <1>2, <1>3, PendingAfter

(* The order is kept: both lists grow at the same end and lose the same    *)
(* node.                                                                   *)
LEMMA OrderedStep ==
  ASSUME IndInv, PendingOrdered, QueueStep
  PROVE  PendingOrdered'
<1>0. ppend \in Seq(Nodes) /\ vpend \in [Vdevs -> Seq(Nodes)] /\ Injective(ppend)
  BY DEF IndInv, TypeOK, ListTypes, NodesAccounted
<1>1. CASE UNCHANGED <<ppend, vpend>>
  BY <1>1 DEF PendingOrdered
<1>2. ASSUME NEW c \in Cmds, NEW n \in Nodes, Enqueues(c, n), NEW v \in Vdevs
      PROVE  SameOrder(vpend'[v], ppend')
  <2>1. /\ n \in pool /\ vpend' = [vpend EXCEPT ![c.vdev] = Insert(vpend[c.vdev], n, c)]
        /\ ppend' = Insert(ppend, n, c)
    BY <1>2 DEF Enqueues
  <2>2. /\ n \notin Elems(ppend) /\ n \notin Elems(vpend[v])
        /\ vpend[v] \in Seq(Nodes) /\ SameOrder(vpend[v], ppend)
    BY <1>0, <1>2, <2>1 DEF IndInv, NodesAccounted, VdevLists, PendingOrdered
  <2>3. CASE v = c.vdev
    <3>1. vpend'[v] = Insert(vpend[v], n, c)
      BY <1>0, <2>1, <2>3
    <3> QED  BY <1>0, <2>1, <2>2, <3>1, OrderInsert
  <2>4. CASE v # c.vdev
    <3>1. vpend'[v] = vpend[v]
      BY <1>0, <2>1, <2>4
    <3> QED  BY <1>0, <2>1, <2>2, <3>1, OrderInsertOther
  <2> QED  BY <2>3, <2>4
<1>3. ASSUME NEW n \in Elems(ppend), NEW i \in DOMAIN ppend, ppend[i] = n,
             ppend' = Del(ppend, i),
             vpend' = [vpend EXCEPT ![ncmd[n].vdev] = Without(vpend[ncmd[n].vdev], n)],
             NEW v \in Vdevs
      PROVE  SameOrder(vpend'[v], ppend')
  <2>1. /\ ncmd[n].vdev \in Vdevs /\ n \in Elems(vpend[ncmd[n].vdev])
        /\ vpend[v] \in Seq(Nodes) /\ SameOrder(vpend[v], ppend)
    BY <1>0, ListedCmds DEF PendingOrdered
  <2>2. SameOrder(vpend[v], ppend') /\ ppend' \in Seq(Nodes)
    BY <1>0, <1>3, <2>1, OrderDel, DelProps
  <2>3. CASE v = ncmd[n].vdev
    <3>1. vpend'[v] = Without(vpend[v], n)
      BY <1>0, <1>3, <2>3
    <3>2. Index(vpend[v], n) \in DOMAIN vpend[v]
      BY <2>1, <2>3 DEF Index, Elems
    <3> QED  BY <1>0, <2>1, <2>2, <3>1, <3>2, OrderDel DEF Without
  <2>4. CASE v # ncmd[n].vdev
    <3>1. vpend'[v] = vpend[v]
      BY <1>0, <1>3, <2>4
    <3> QED  BY <2>2, <3>1
  <2> QED  BY <2>3, <2>4
<1> QED  BY <1>1, <1>2, <1>3, PendingAfter DEF PendingOrdered

(* blocking_cmd_active is set with a blocking command and cleared when it  *)
(* is dequeued or its cancel settles.                                      *)
LEMMA FlagStep ==
  ASSUME IndInv, BlockingFlagSound, QueueStep
  PROVE  BlockingFlagSound'
<1>0. /\ pact \in Seq(Nodes) /\ ncmd \in [Nodes -> Cmds \cup {NoCmd}]
      /\ Elems(pact) \subseteq Nodes /\ Injective(pact)
  BY ElemsProps DEF IndInv, TypeOK, ListTypes, NodesAccounted
<1>1. SUFFICES ASSUME bact'
               PROVE  \/ \E n \in Elems(pact') : ncmd'[n].is_blocking
                      \/ \E t \in Threads : Held(t)'
  BY DEF BlockingFlagSound, Held
<1>2. bact => \/ \E n \in Elems(pact) : ncmd[n].is_blocking
              \/ \E t \in Threads : Held(t)
  BY DEF BlockingFlagSound, Held
<1>3. CASE /\ UNCHANGED pact /\ FlagKept
           /\ \A n \in Elems(pact) : ncmd'[n] = ncmd[n]
  BY <1>1, <1>2, <1>3 DEF FlagKept
<1>4. CASE Aside \/ \E t \in Threads : GivesUp(t)
  BY <1>3, <1>4 DEF Aside, GivesUp, ListsUnchanged
<1>5. ASSUME NEW t \in Threads, Activates(t)
      PROVE  /\ UNCHANGED pact /\ FlagKept
             /\ \A n \in Elems(pact) : ncmd'[n] = ncmd[n]
  <2>1. UNCHANGED <<pact, ncmd, bact, cx>>
    BY <1>5 DEF Activates, StartTimer, StartTimerFails, ActivateCallback, FinishActivation,
                queues
  <2> QED  BY <2>1, FlagAlone
<1>6. ASSUME NEW c \in Cmds, NEW n \in Nodes, Enqueues(c, n)
      PROVE  /\ UNCHANGED pact /\ FlagKept
             /\ \A m \in Elems(pact) : ncmd'[m] = ncmd[m]
  <2>1. n \notin Elems(pact)
    BY <1>6 DEF Enqueues, IndInv, NodesAccounted
  <2> QED  BY <1>0, <1>6, <2>1 DEF Enqueues
<1>7. ASSUME NEW i \in DOMAIN ppend, Withdraws(i)
      PROVE  /\ UNCHANGED pact /\ FlagKept
             /\ \A m \in Elems(pact) : ncmd'[m] = ncmd[m]
  <2>1. ppend[i] \notin Elems(pact)
    BY DEF IndInv, NodesAccounted, Elems
  <2> QED  BY <1>0, <1>7, <2>1 DEF Withdraws
<1>8. ASSUME NEW t \in Threads, NEW c \in Cmds, NEW n \in Nodes, Runs(t, n, c),
             n \notin Elems(pact), ncmd'[n] = c, \A m \in Elems(pact) : ncmd'[m] = ncmd[m]
      PROVE  \/ \E m \in Elems(pact') : ncmd'[m].is_blocking
             \/ \E u \in Threads : Held(u)'
  <2>1. pact' = Insert(pact, n, c) /\ bact' = (bact \/ c.is_blocking) /\ UNCHANGED cx
    BY <1>8 DEF Runs
  <2>2. Elems(pact') = Elems(pact) \cup {n}
    BY <1>0, <2>1, InsertProps
  <2>3. \A u \in Threads : Held(u)' <=> Held(u)
    BY <2>1 DEF Held, Settling, OnActive
  <2>4. CASE bact
    BY <1>2, <1>8, <2>2, <2>3, <2>4
  <2>5. CASE c.is_blocking
    BY <1>8, <2>2, <2>5
  <2> QED  BY <1>1, <2>1, <2>4, <2>5
<1>9. ASSUME NEW t \in Threads, NEW c \in Cmds, NEW n \in Nodes, Starts(t, c, n)
      PROVE  \/ \E m \in Elems(pact') : ncmd'[m].is_blocking
             \/ \E u \in Threads : Held(u)'
  <2>1. n \notin Elems(pact)
    BY <1>9 DEF Starts, IndInv, NodesAccounted
  <2> QED  BY <1>0, <1>8, <1>9, <2>1 DEF Starts
<1>10. ASSUME NEW t \in Threads, NEW n \in Nodes, Promotes(t, n)
       PROVE  \/ \E m \in Elems(pact') : ncmd'[m].is_blocking
              \/ \E u \in Threads : Held(u)'
  <2>1. n \notin Elems(pact) /\ ncmd[n] \in Cmds
    BY <1>10, ListedCmds DEF Promotes, IndInv, NodesAccounted
  <2> QED  BY <1>8, <1>10, <2>1 DEF Promotes
<1>11. ASSUME NEW j \in DOMAIN pact, Ends(j)
       PROVE  \/ \E m \in Elems(pact') : ncmd'[m].is_blocking
              \/ \E u \in Threads : Held(u)'
  <2> DEFINE n == pact[j]
  <2>1. Elems(pact') = Elems(pact) \ {n}
    BY <1>0, <1>11, DelProps DEF Ends
  <2>2. \A m \in Elems(pact') : ncmd'[m] = ncmd[m]
    BY <1>0, <1>11, <2>1 DEF Ends
  <2>3. /\ FlagKept
        /\ ncmd[n].is_blocking => \E u \in Threads : Held(u)'
    BY <1>1, <1>11 DEF Ends
  <2>4. CASE ncmd[n].is_blocking
    BY <2>3, <2>4
  <2>5. CASE ~ncmd[n].is_blocking
    <3>1. \/ \E m \in Elems(pact) : ncmd[m].is_blocking
          \/ \E u \in Threads : Held(u)
      BY <1>1, <1>2, <2>3 DEF FlagKept
    <3> QED  BY <1>1, <2>1, <2>2, <2>3, <2>5, <3>1 DEF FlagKept
  <2> QED  BY <2>4, <2>5
<1> QED  BY <1>3, <1>4, <1>5, <1>6, <1>7, <1>9, <1>10, <1>11 DEF QueueStep

(* Every active command has its timer or a thread that answers for it. *)
LEMMA TimersStep ==
  ASSUME IndInv, IndInv', TimersStarted, TimersOfActive, QueueStep
  PROVE  TimersStarted' /\ TimersOfActive'
<1>0. /\ pact \in Seq(Nodes) /\ pc \in [Threads -> PCs] /\ Injective(pact)
      /\ node \in [Threads -> Nodes \cup {NoNode}] /\ timers \subseteq Elems(pact)
      /\ (timers \subseteq Elems(pact))'
  BY DEF IndInv, TypeOK, ListTypes, ThreadTypes, NodesAccounted, TimersListed
<1>a. \A n \in Elems(pact) \ timers : \E t \in Threads :
        node[t] = n /\ pc[t] \in {"start_timer", "activate_failed", "dequeue"}
  BY DEF TimersOfActive
<1>b. \A t \in Threads : /\ pc[t] = "start_timer" => node[t] \notin timers
                         /\ pc[t] \in {"callback", "activated"} => node[t] \in timers
  BY DEF TimersStarted
<1>c. \A t \in Threads : pc[t] \in ActivationPCs =>
        /\ node[t] \in Elems(pact) /\ ACT \in flags[node[t]]
        /\ \A u \in Threads \ {t} : pc[u] \in ActivationPCs => node[u] # node[t]
  BY DEF IndInv, ActivationPinned
<1>1. CASE UNCHANGED <<pact, timers>> /\ \A u \in Threads : Elsewhere(u)
  <2>1. TimersStarted'
    BY <1>1, <1>b DEF TimersStarted, Elsewhere
  <2>2. TimersOfActive'
    BY <1>0, <1>1, <1>a DEF TimersOfActive, Elsewhere, TimerPCs
  <2> QED  BY <2>1, <2>2
<1>2. CASE \/ Aside \/ (\E c \in Cmds, n \in Nodes : Enqueues(c, n))
           \/ \E i \in DOMAIN ppend : Withdraws(i)
  BY <1>1, <1>2 DEF Aside, ListsUnchanged, Enqueues, Withdraws
<1>3. ASSUME NEW t \in Threads, GivesUp(t)  PROVE TimersStarted' /\ TimersOfActive'
  <2>1. /\ UNCHANGED <<pact, timers>> /\ pc[t] = "dequeue"
        /\ pc'[t] \notin {"start_timer", "callback", "activated"}
        /\ node[t] \in Elems(pact) => ACT \in flags[node[t]]
        /\ \A u \in Threads \ {t} : Elsewhere(u)
    BY <1>3 DEF GivesUp, ListsUnchanged
  <2>2. TimersStarted'
    BY <1>b, <2>1 DEF TimersStarted, Elsewhere
  <2>3. ASSUME NEW m \in Elems(pact) \ timers
        PROVE  \E u \in Threads \ {t} : /\ node[u] = m
                                        /\ pc[u] \in {"start_timer", "activate_failed", "dequeue"}
    <3>1. PICK u \in Threads : node[u] = m /\ pc[u] \in {"start_timer", "activate_failed", "dequeue"}
      BY <1>a, <2>3
    <3>2. CASE u # t
      BY <3>1, <3>2
    <3>3. CASE u = t
      <4>1. ACT \in flags[m] /\ m \in Nodes
        BY <1>0, <2>1, <2>3, <3>1, <3>3, ElemsProps
      <4>2. PICK w \in Threads : pc[w] \in ActivationPCs /\ node[w] = m
        BY <4>1 DEF IndInv, ActivationPinned
      <4>3. pc[w] \in {"start_timer", "activate_failed"} /\ w # t
        BY <1>b, <2>1, <2>3, <4>2 DEF ActivationPCs
      <4> QED  BY <4>2, <4>3
    <3> QED  BY <3>2, <3>3
  <2>4. TimersOfActive'
    BY <1>0, <2>1, <2>3 DEF TimersOfActive, Elsewhere, TimerPCs
  <2> QED  BY <2>2, <2>4
<1>4. ASSUME NEW t \in Threads, Activates(t)  PROVE TimersStarted' /\ TimersOfActive'
  <2>0. UNCHANGED <<pact, node>>
    BY <1>4 DEF Activates, StartTimer, StartTimerFails, ActivateCallback, FinishActivation,
                queues
  <2>1. CASE StartTimer(t)
    <3>1. /\ pc[t] = "start_timer" /\ pc' = [pc EXCEPT ![t] = "callback"]
          /\ timers' = timers \cup {node[t]}
      BY <2>1 DEF StartTimer
    <3>2. TimersStarted'
      BY <1>0, <1>b, <1>c, <2>0, <3>1 DEF TimersStarted, ActivationPCs
    <3>3. TimersOfActive'
      BY <1>0, <1>a, <2>0, <3>1 DEF TimersOfActive
    <3> QED  BY <3>2, <3>3
  <2>2. CASE StartTimerFails(t)
    <3>1. /\ pc[t] = "start_timer" /\ pc' = [pc EXCEPT ![t] = "activate_failed"]
          /\ UNCHANGED timers
      BY <2>2 DEF StartTimerFails, timing
    <3>2. TimersStarted'
      BY <1>0, <1>b, <2>0, <3>1 DEF TimersStarted
    <3>3. TimersOfActive'
      BY <1>0, <1>a, <2>0, <3>1 DEF TimersOfActive
    <3> QED  BY <3>2, <3>3
  <2>3. CASE ActivateCallback(t)
    <3>1. PICK r \in {"activated", "activate_failed"} : pc' = [pc EXCEPT ![t] = r]
      BY <2>3 DEF ActivateCallback
    <3>2. pc[t] = "callback" /\ UNCHANGED timers
      BY <2>3 DEF ActivateCallback, timing
    <3>3. TimersStarted'
      BY <1>0, <1>b, <2>0, <3>1, <3>2 DEF TimersStarted
    <3>4. TimersOfActive'
      BY <1>0, <1>a, <2>0, <3>1, <3>2 DEF TimersOfActive
    <3> QED  BY <3>3, <3>4
  <2>4. CASE FinishActivation(t)
    <3>1. /\ pc[t] \in {"activated", "activate_failed"} /\ UNCHANGED timers
          /\ pc' = [pc EXCEPT ![t] = IF pc[t] = "activated" THEN "test_removal" ELSE "dequeue"]
      BY <2>4 DEF FinishActivation, timing
    <3>2. TimersStarted'
      BY <1>0, <1>b, <2>0, <3>1 DEF TimersStarted
    <3>3. TimersOfActive'
      BY <1>0, <1>a, <2>0, <3>1 DEF TimersOfActive
    <3> QED  BY <3>2, <3>3
  <2> QED  BY <1>4, <2>1, <2>2, <2>3, <2>4 DEF Activates
<1>5. ASSUME NEW t \in Threads, NEW n \in Nodes, NEW c, Runs(t, n, c), n \notin Elems(pact)
      PROVE  TimersStarted' /\ TimersOfActive'
  <2>1. /\ pact' = Insert(pact, n, c) /\ UNCHANGED timers /\ pc[t] \notin TimerPCs
        /\ pc' = [pc EXCEPT ![t] = "start_timer"] /\ node' = [node EXCEPT ![t] = n]
    BY <1>5 DEF Runs
  <2>2. Elems(pact') = Elems(pact) \cup {n}
    BY <1>0, <2>1, InsertProps
  <2>3. TimersStarted'
    BY <1>0, <1>5, <1>b, <2>1 DEF TimersStarted
  <2>4. TimersOfActive'
    BY <1>0, <1>a, <2>1, <2>2 DEF TimersOfActive, TimerPCs
  <2> QED  BY <2>3, <2>4
<1>6. ASSUME NEW t \in Threads, NEW c \in Cmds, NEW n \in Nodes, Starts(t, c, n)
      PROVE  TimersStarted' /\ TimersOfActive'
  BY <1>5, <1>6 DEF Starts, IndInv, NodesAccounted
<1>7. ASSUME NEW t \in Threads, NEW n \in Nodes, Promotes(t, n)
      PROVE  TimersStarted' /\ TimersOfActive'
  BY <1>5, <1>7 DEF Promotes, IndInv, NodesAccounted
<1>8. ASSUME NEW j \in DOMAIN pact, Ends(j)  PROVE TimersStarted' /\ TimersOfActive'
  <2> DEFINE n == pact[j]
  <2>1. /\ ACT \notin flags[n] /\ timers' = timers \ {n} /\ pact' = Del(pact, j)
        /\ \A u \in Threads :
             \/ Elsewhere(u)
             \/ /\ pc[u] = "dequeue" /\ pc'[u] = "move"
                /\ node[u] \in Elems(pact) => node[u] = n
    BY <1>8 DEF Ends
  <2>2. Elems(pact') = Elems(pact) \ {n}
    BY <1>0, <2>1, DelProps
  <2> HIDE DEF n
  <2>3. TimersStarted'
    BY <1>b, <1>c, <2>1 DEF TimersStarted, Elsewhere, ActivationPCs
  <2>4. TimersOfActive'
    <3> SUFFICES ASSUME NEW m \in Elems(pact') \ timers'
                 PROVE  \E t \in Threads :
                          /\ node'[t] = m
                          /\ pc'[t] \in {"start_timer", "activate_failed", "dequeue"}
      BY <1>0 DEF TimersOfActive
    <3>1. m \in Elems(pact) /\ m \notin timers /\ m # n
      BY <2>1, <2>2
    <3>2. PICK u \in Threads : node[u] = m /\ pc[u] \in {"start_timer", "activate_failed", "dequeue"}
      BY <1>a, <3>1
    <3>3. node'[u] = node[u] /\ pc'[u] = pc[u]
      BY <2>1, <3>1, <3>2 DEF Elsewhere, TimerPCs
    <3> QED  BY <3>2, <3>3
  <2> QED  BY <2>3, <2>4
<1> QED  BY <1>2, <1>3, <1>4, <1>6, <1>7, <1>8 DEF QueueStep

(* The queues as created. *)
LEMMA QueuesInitially == Init => QueueInv
<1> SUFFICES ASSUME Init  PROVE QueueInv
  OBVIOUS
<1>1. Elems(<<>>) = {}
  BY DEF Elems
<1>2. PendingDistinct
  BY <1>1 DEF Init, PendingDistinct
<1>3. PendingOrdered
  BY DEF Init, PendingOrdered, SameOrder
<1>4. TimersStarted
  BY DEF Init, TimersStarted
<1>5. TimersOfActive
  BY <1>1 DEF Init, TimersOfActive
<1>6. BlockingFlagSound
  BY DEF Init, BlockingFlagSound
<1> QED  BY <1>2, <1>3, <1>4, <1>5, <1>6 DEF QueueInv

(* Every step preserves what holds of the queues. *)
LEMMA QueuesPreserved == IndInv /\ IndInv' /\ QueueInv /\ [Next]_vars => QueueInv'
<1> SUFFICES ASSUME IndInv, IndInv', QueueInv, [Next]_vars  PROVE QueueInv'
  OBVIOUS
<1>1. QueueStep
  BY StepEffects
<1> QED  BY <1>1, DistinctStep, OrderedStep, FlagStep, TimersStep DEF QueueInv

(* QueueInv holds in every state of every execution. *)
THEOREM QueuesInductive == Spec => [](IndInv /\ QueueInv)
<1>1. IndInv /\ QueueInv /\ [Next]_vars => (IndInv /\ QueueInv)'
  BY Preserved, QueuesPreserved
<1>2. Init => IndInv /\ QueueInv
  BY Initially, QueuesInitially
<1> QED  BY <1>1, <1>2, PTL DEF Spec

(* The timers in use belong to other vdevs than the command that needs     *)
(* one.                                                                    *)
LEMMA SlotFollows ==
  ASSUME IndInv, TimersStarted, NEW t \in Threads, pc[t] = "start_timer"
  PROVE  Cardinality(timers) < TimerSlots
<1> DEFINE n == node[t]
           v == ncmd[n].vdev
           f == [m \in timers |-> ncmd[m].vdev]
<1>1. n \in Elems(pact) /\ n \notin timers /\ timers \subseteq Elems(pact)
  BY DEF IndInv, ActivationPinned, ActivationPCs, TimersListed, TimersStarted
<1>2. v \in Vdevs
  BY <1>1, ListedCmds
<1>3. \A m \in timers : ncmd[m].vdev \in Vdevs \ {v}
  BY <1>1, ListedCmds, ActiveOfVdev
<1>4. f \in [timers -> Vdevs \ {v}]
  BY <1>3
<1>5. \A l, m \in timers : f[l] = f[m] => l = m
  BY <1>1, ActiveOfVdev
<1> HIDE DEF f, v
<1>6. /\ IsFiniteSet(Vdevs \ {v}) /\ Cardinality(Vdevs \ {v}) = Cardinality(Vdevs) - 1
      /\ Cardinality(Vdevs) \in Nat
  BY <1>2, FS_RemoveElement, FS_CardinalityType, VdevAssumption
<1>7. IsFiniteSet(timers) /\ Cardinality(timers) <= Cardinality(Vdevs \ {v})
  <2>1. f \in Injection(timers, Vdevs \ {v})
    BY <1>4, <1>5 DEF Injection, IsInjective
  <2> QED  BY <1>6, <2>1, FS_Injection
<1>8. Cardinality(timers) \in Nat
  BY <1>7, FS_CardinalityType
<1> QED  BY <1>6, <1>7, <1>8, SizeAssumption

(* No list ever holds two commands that the lookups by id, type and vdev   *)
(* cannot tell apart, so that a removal finds the command it means.        *)
THEOREM CommandsDistinct == Spec => []NoDuplicates
<1>1. IndInv /\ QueueInv => NoDuplicates
  BY ListsFollow DEF QueueInv
<1> QED  BY <1>1, QueuesInductive, PTL

(* The list of a vdev is at every time what the pdev's list holds of that  *)
(* vdev, in the same order, although insertions, moves and cancels work on *)
(* the two lists one after the other and search them separately.           *)
THEOREM ListsConsistent == Spec => []ListsAgree
<1>1. IndInv /\ QueueInv => ListsAgree
  BY ListsFollow DEF QueueInv
<1> QED  BY <1>1, QueuesInductive, PTL

(* A timer runs for active commands only, and an active command has one    *)
(* unless a thread is about to start it or to dequeue the command.         *)
THEOREM TimersMatchActive == Spec => []TimersOfActive
<1>1. IndInv /\ QueueInv => TimersOfActive
  BY DEF QueueInv
<1> QED  BY <1>1, QueuesInductive, PTL

(* wlan_serialization_find_and_start_timer never fails for want of a slot. *)
THEOREM SlotAvailable == Spec => []TimerSlotFree
<1>1. IndInv /\ QueueInv => TimerSlotFree
  BY SlotFollows DEF QueueInv, TimerSlotFree
<1> QED  BY <1>1, QueuesInductive, PTL

(* blocking_cmd_active does not outlive the blocking commands.             *)
THEOREM BlockingFlagCorrect == Spec => []BlockingFlagSound
<1>1. IndInv /\ QueueInv => BlockingFlagSound
  BY DEF QueueInv
<1> QED  BY <1>1, QueuesInductive, PTL

-----------------------------------------------------------------------------
(* The component implements a queue of commands per vdev *)

(* The commands that g gives to the nodes of s *)
CmdsOf(s, g) == [i \in DOMAIN s |-> g[s[i]]]

(* They are as many as the nodes. *)
LEMMA CmdsOfType ==
  ASSUME NEW s \in Seq(Nodes), NEW g \in [Nodes -> Cmds \cup {NoCmd}]
  PROVE  /\ CmdsOf(s, g) \in Seq(Cmds \cup {NoCmd}) /\ Len(CmdsOf(s, g)) = Len(s)
         /\ \A i \in 1..Len(s) : CmdsOf(s, g)[i] = g[s[i]]
<1> DEFINE T == Cmds \cup {NoCmd}
           q == CmdsOf(s, g)
           k == Len(s)
<1>1. DOMAIN s = 1..k /\ k \in Nat /\ \A i \in 1..k : s[i] \in Nodes
  OBVIOUS
<1>2. q \in [1..k -> T]
  BY <1>1 DEF CmdsOf
<1>3. \A i \in 1..k : q[i] = g[s[i]]
  BY <1>1 DEF CmdsOf
<1> HIDE DEF T, q, k
<1>4. q \in Seq(T) /\ Len(q) = k
  BY <1>1, <1>2
<1> QED  BY <1>3, <1>4 DEF T, q, k

(* They depend on the nodes of the list only. *)
LEMMA CmdsOfSame ==
  ASSUME NEW s, NEW g, NEW h, \A n \in Elems(s) : g[n] = h[n]
  PROVE  CmdsOf(s, g) = CmdsOf(s, h)
  BY DEF CmdsOf, Elems

(* An insertion of a node queues its command. *)
LEMMA CmdsOfInsert ==
  ASSUME NEW s \in Seq(Nodes), NEW n \in Nodes, NEW g \in [Nodes -> Cmds \cup {NoCmd}]
  PROVE  CmdsOf(Insert(s, n, g[n]), g) = IF g[n].is_high_priority THEN <<g[n]>> \o CmdsOf(s, g)
                                         ELSE Append(CmdsOf(s, g), g[n])
<1> DEFINE T == Cmds \cup {NoCmd}
<1>1. PICK c \in T : c = g[n]
  OBVIOUS
<1>2. PICK q : q = CmdsOf(s, g)
  OBVIOUS
<1>3. PICK r : r = Insert(s, n, c)
  OBVIOUS
<1>4. PICK p : p = CmdsOf(r, g)
  OBVIOUS
<1>5. PICK k \in Nat : k = Len(s)
  OBVIOUS
<1>6. q \in Seq(T) /\ Len(q) = k /\ \A i \in 1..k : q[i] = g[s[i]]
  BY <1>2, <1>5, CmdsOfType
<1>7. r \in Seq(Nodes) /\ Len(r) = k + 1
  BY <1>3, <1>5, InsertProps
<1>8. p \in Seq(T) /\ Len(p) = k + 1 /\ \A i \in 1..(k + 1) : p[i] = g[r[i]]
  <2>1. /\ CmdsOf(r, g) \in Seq(T) /\ Len(CmdsOf(r, g)) = Len(r)
        /\ \A i \in 1..Len(r) : CmdsOf(r, g)[i] = g[r[i]]
    BY <1>7, CmdsOfType
  <2> QED  BY <1>4, <1>7, <2>1
<1> HIDE DEF T
<1>9. CASE c.is_high_priority
  <2>1. \A i \in 1..(k + 1) : r[i] = IF i = 1 THEN n ELSE s[i - 1]
    BY <1>3, <1>5, <1>9 DEF Insert
  <2>2. <<c>> \o q \in Seq(T) /\ Len(<<c>> \o q) = k + 1
    BY <1>1, <1>6
  <2>3. \A i \in 1..(k + 1) : (<<c>> \o q)[i] = IF i = 1 THEN c ELSE q[i - 1]
    BY <1>6
  <2>4. ASSUME NEW i \in 1..(k + 1)  PROVE p[i] = (<<c>> \o q)[i]
    <3>1. CASE i = 1
      BY <1>1, <1>8, <2>1, <2>3, <3>1
    <3>2. CASE i # 1
      <4>1. i - 1 \in 1..k
        BY <3>2
      <4>2. q[i - 1] = g[s[i - 1]]
        BY <1>6, <4>1
      <4> QED  BY <1>8, <2>1, <2>3, <3>2, <4>2
    <3> QED  BY <3>1, <3>2
  <2>5. p = <<c>> \o q
    BY <1>8, <2>2, <2>4
  <2> QED  BY <1>1, <1>2, <1>3, <1>4, <1>9, <2>5
<1>10. CASE ~c.is_high_priority
  <2>1. \A i \in 1..(k + 1) : r[i] = IF i = k + 1 THEN n ELSE s[i]
    BY <1>3, <1>5, <1>10 DEF Insert
  <2>2. Append(q, c) \in Seq(T) /\ Len(Append(q, c)) = k + 1
    BY <1>1, <1>6
  <2>3. \A i \in 1..(k + 1) : Append(q, c)[i] = IF i = k + 1 THEN c ELSE q[i]
    BY <1>6
  <2>4. ASSUME NEW i \in 1..(k + 1)  PROVE p[i] = Append(q, c)[i]
    <3>1. i # k + 1 => q[i] = g[s[i]]
      BY <1>6
    <3> QED  BY <1>1, <1>8, <2>1, <2>3, <3>1
  <2>5. p = Append(q, c)
    BY <1>8, <2>2, <2>4
  <2> QED  BY <1>1, <1>2, <1>3, <1>4, <1>10, <2>5
<1> QED  BY <1>9, <1>10

(* Taking a node out takes its command out. *)
LEMMA CmdsOfDel ==
  ASSUME NEW s \in Seq(Nodes), NEW i \in DOMAIN s, NEW g \in [Nodes -> Cmds \cup {NoCmd}]
  PROVE  CmdsOf(Del(s, i), g) = [j \in 1..(Len(CmdsOf(s, g)) - 1) |->
                                   IF j < i THEN CmdsOf(s, g)[j] ELSE CmdsOf(s, g)[j + 1]]
<1> DEFINE q == CmdsOf(s, g)
<1>1. Len(q) = Len(s) /\ \A k \in DOMAIN s : q[k] = g[s[k]]
  BY CmdsOfType DEF CmdsOf
<1>2. DOMAIN s = 1..Len(s) /\ Len(s) \in Nat /\ i \in 1..Len(s)
  OBVIOUS
<1> HIDE DEF q
<1>3. \A j \in 1..(Len(s) - 1) : j \in DOMAIN s /\ j + 1 \in DOMAIN s
  BY <1>2
<1>4. DOMAIN Del(s, i) = 1..(Len(s) - 1)
  BY DEF Del
<1>5. \A j \in 1..(Len(s) - 1) : Del(s, i)[j] = IF j < i THEN s[j] ELSE s[j + 1]
  BY DEF Del
<1> QED  BY <1>1, <1>3, <1>4, <1>5 DEF CmdsOf, q

(* The first node of a list without repetitions. *)
LEMMA WithoutHead ==
  ASSUME NEW S, NEW s \in Seq(S), s # <<>>, Injective(s)
  PROVE  1 \in DOMAIN s /\ Without(s, Head(s)) = Del(s, 1)
<1>1. 1 \in DOMAIN s /\ s[1] = Head(s)
  OBVIOUS
<1>2. Index(s, Head(s)) \in DOMAIN s /\ s[Index(s, Head(s))] = Head(s)
  BY <1>1 DEF Index
<1>3. Index(s, Head(s)) = 1
  BY <1>1, <1>2 DEF Injective
<1> QED  BY <1>1, <1>3 DEF Without

(* Taking out the first of a sequence leaves its tail. *)
LEMMA DelFirst ==
  ASSUME NEW S, NEW s \in Seq(S), s # <<>>
  PROVE  Tail(s) = [j \in 1..(Len(s) - 1) |-> IF j < 1 THEN s[j] ELSE s[j + 1]]
<1> DEFINE r == [j \in 1..(Len(s) - 1) |-> IF j < 1 THEN s[j] ELSE s[j + 1]]
<1>1. Len(s) \in Nat \ {0} /\ DOMAIN s = 1..Len(s)
  OBVIOUS
<1>2. Tail(s) \in Seq(S) /\ Len(Tail(s)) = Len(s) - 1
  OBVIOUS
<1>3. \A j \in 1..(Len(s) - 1) : Tail(s)[j] = s[j + 1]
  OBVIOUS
<1>4. r \in [1..(Len(s) - 1) -> S] /\ \A j \in 1..(Len(s) - 1) : r[j] = s[j + 1]
  BY <1>1
<1>5. r \in Seq(S) /\ Len(r) = Len(s) - 1
  <2> DEFINE k == Len(s) - 1
  <2>1. k \in Nat /\ r \in [1..k -> S]
    BY <1>1, <1>4
  <2> HIDE DEF k, r
  <2> QED  BY <2>1 DEF k
<1> HIDE DEF r
<1>6. Tail(s) = r
  BY <1>2, <1>3, <1>4, <1>5
<1> QED  BY <1>6 DEF r

(* What a vdev runs and what waits on it change only with its lists. *)
LEMMA RunningSame ==
  ASSUME IndInv, NEW v \in Vdevs, vact'[v] = vact[v], \A n \in Elems(vact[v]) : ncmd'[n] = ncmd[n]
  PROVE  RunningOn(v)' = RunningOn(v)
<1>1. vact[v] \in Seq(Nodes)
  BY DEF IndInv, TypeOK, ListTypes
<1>2. vact[v] # <<>> => vact[v][1] \in Elems(vact[v])
  BY <1>1 DEF Elems
<1> QED  BY <1>2 DEF RunningOn

(* A queue that nothing happens to. *)
LEMMA WaitingSame ==
  ASSUME NEW v \in Vdevs, vpend'[v] = vpend[v], \A n \in Elems(vpend[v]) : ncmd'[n] = ncmd[n]
  PROVE  WaitingOn(v)' = WaitingOn(v)
  BY DEF WaitingOn, Elems

(* A vdev without active command runs none. *)
LEMMA RunningNone ==
  ASSUME IndInv, NEW v \in Vdevs
  PROVE  RunningOn(v) = NoCmd <=> vact[v] = <<>>
<1>1. vact[v] \in Seq(Nodes) /\ pact \in Seq(Nodes)
  BY DEF IndInv, TypeOK, ListTypes
<1>2. ASSUME vact[v] # <<>>  PROVE ncmd[vact[v][1]] # NoCmd
  <2>1. vact[v][1] \in Elems(vact[v])
    BY <1>1, <1>2 DEF Elems
  <2>2. vact[v][1] \in Elems(pact)
    BY <2>1 DEF IndInv, VdevLists
  <2> QED  BY <2>2, ListedCmds, CmdTypes
<1> QED  BY <1>2 DEF RunningOn

(* How the steps of the lists map to steps of the queue. *)
LEMMA AsideRefines ==
  ASSUME IndInv, ListsUnchanged
  PROVE  UNCHANGED Queue!vars
<1>1. \A v \in Vdevs : RunningOn(v)' = RunningOn(v) /\ WaitingOn(v)' = WaitingOn(v)
  BY DEF ListsUnchanged, RunningOn, WaitingOn
<1> QED  BY <1>1 DEF Queue!vars

(* A command that is queued as pending is enqueued, *)
LEMMA EnqueuesRefines ==
  ASSUME IndInv, NEW c \in Cmds, NEW n \in Nodes, Enqueues(c, n)
  PROVE  Queue!Enqueue(c)
<1>0. /\ ncmd \in [Nodes -> Cmds \cup {NoCmd}] /\ c.vdev \in Vdevs
      /\ vact \in [Vdevs -> Seq(Nodes)] /\ vpend \in [Vdevs -> Seq(Nodes)]
  BY CmdTypes DEF IndInv, TypeOK, ListTypes
<1>1. /\ ncmd' = [ncmd EXCEPT ![n] = c] /\ UNCHANGED vact /\ n \in pool
      /\ vpend' = [vpend EXCEPT ![c.vdev] = Insert(vpend[c.vdev], n, c)]
  BY DEF Enqueues
<1>2. \A v \in Vdevs : n \notin Elems(vact[v]) /\ n \notin Elems(vpend[v])
  BY <1>1 DEF IndInv, NodesAccounted, VdevLists
<1>3. \A v \in Vdevs : Elems(vact[v]) \subseteq Nodes /\ Elems(vpend[v]) \subseteq Nodes
  BY <1>0, ElemsProps
<1>4. \A v \in Vdevs : /\ \A m \in Elems(vact[v]) : ncmd'[m] = ncmd[m]
                       /\ \A m \in Elems(vpend[v]) : ncmd'[m] = ncmd[m]
  BY <1>0, <1>1, <1>2, <1>3
<1>5. \A v \in Vdevs : RunningOn(v)' = RunningOn(v)
  BY <1>1, <1>4, RunningSame
<1>6. \A v \in Vdevs \ {c.vdev} : WaitingOn(v)' = WaitingOn(v)
  BY <1>0, <1>1, <1>4, WaitingSame
<1>7. WaitingOn(c.vdev)' = IF c.is_high_priority THEN <<c>> \o WaitingOn(c.vdev)
                           ELSE Append(WaitingOn(c.vdev), c)
  <2>1. PICK g : g = ncmd'
    OBVIOUS
  <2>2. PICK s \in Seq(Nodes) : s = vpend[c.vdev]
    BY <1>0
  <2>3. g \in [Nodes -> Cmds \cup {NoCmd}] /\ g[n] = c
    BY <1>0, <1>1, <2>1
  <2>4. CmdsOf(Insert(s, n, c), g) = IF c.is_high_priority THEN <<c>> \o CmdsOf(s, g)
                                     ELSE Append(CmdsOf(s, g), c)
    <3>1. CmdsOf(Insert(s, n, g[n]), g) = IF g[n].is_high_priority
                                          THEN <<g[n]>> \o CmdsOf(s, g)
                                          ELSE Append(CmdsOf(s, g), g[n])
      BY <2>3, CmdsOfInsert
    <3> QED  BY <2>3, <3>1
  <2>5. CmdsOf(s, g) = CmdsOf(s, ncmd)
    BY <1>0, <1>4, <2>1, <2>2, CmdsOfSame
  <2>6. WaitingOn(c.vdev) = CmdsOf(s, ncmd)
    BY <2>2 DEF WaitingOn, CmdsOf
  <2>7. vpend'[c.vdev] = Insert(s, n, c)
    BY <1>0, <1>1, <2>2
  <2>8. WaitingOn(c.vdev)' = CmdsOf(Insert(s, n, c), g)
    BY <2>1, <2>7 DEF WaitingOn, CmdsOf
  <2> QED  BY <2>4, <2>5, <2>6, <2>8
<1> HIDE DEF RunningOn, WaitingOn
<1> QED  BY <1>0, <1>5, <1>6, <1>7 DEF Queue!Enqueue

(* ... one that is made active at once is started, *)
LEMMA StartsRefines ==
  ASSUME IndInv, NEW t, NEW c \in Cmds, NEW n \in Nodes, Starts(t, c, n)
  PROVE  Queue!Start(c)
<1>0. /\ ncmd \in [Nodes -> Cmds \cup {NoCmd}] /\ c.vdev \in Vdevs
      /\ vact \in [Vdevs -> Seq(Nodes)] /\ vpend \in [Vdevs -> Seq(Nodes)]
  BY CmdTypes DEF IndInv, TypeOK, ListTypes
<1>1. /\ ncmd' = [ncmd EXCEPT ![n] = c] /\ UNCHANGED vpend /\ n \in pool
      /\ vact' = [vact EXCEPT ![c.vdev] = Insert(vact[c.vdev], n, c)]
      /\ vact[c.vdev] = <<>> /\ vpend[c.vdev] = <<>>
  BY DEF Starts, Runs
<1>2. \A v \in Vdevs : n \notin Elems(vact[v]) /\ n \notin Elems(vpend[v])
  BY <1>1 DEF IndInv, NodesAccounted, VdevLists
<1>3. \A v \in Vdevs : Elems(vact[v]) \subseteq Nodes /\ Elems(vpend[v]) \subseteq Nodes
  BY <1>0, ElemsProps
<1>4. \A v \in Vdevs : /\ \A m \in Elems(vact[v]) : ncmd'[m] = ncmd[m]
                       /\ \A m \in Elems(vpend[v]) : ncmd'[m] = ncmd[m]
  BY <1>0, <1>1, <1>2, <1>3
<1>5. \A v \in Vdevs : WaitingOn(v)' = WaitingOn(v)
  BY <1>1, <1>4, WaitingSame
<1>6. \A v \in Vdevs \ {c.vdev} : RunningOn(v)' = RunningOn(v)
  BY <1>0, <1>1, <1>4, RunningSame
<1>7. RunningOn(c.vdev)' = c
  <2>1. vact'[c.vdev] = <<n>>
    BY <1>0, <1>1 DEF Insert
  <2> QED  BY <1>0, <1>1, <2>1 DEF RunningOn
<1>8. RunningOn(c.vdev) = NoCmd /\ WaitingOn(c.vdev) = <<>>
  BY <1>1 DEF RunningOn, WaitingOn
<1> HIDE DEF RunningOn, WaitingOn
<1> QED  BY <1>0, <1>5, <1>6, <1>7, <1>8 DEF Queue!Start

(* ... the end of an active one is the end of what runs, *)
LEMMA EndsRefines ==
  ASSUME IndInv, NEW j \in DOMAIN pact, Ends(j)
  PROVE  Queue!Finish(ncmd[pact[j]].vdev) /\ ncmd[pact[j]].vdev \in Vdevs
<1>1. PICK n \in Elems(pact) : n = pact[j]
  BY DEF Elems
<1>2. PICK d \in Vdevs : d = ncmd[n].vdev
  BY <1>1, ListedCmds
<1>0. /\ ncmd \in [Nodes -> Cmds \cup {NoCmd}] /\ n \in Nodes
      /\ vact \in [Vdevs -> Seq(Nodes)] /\ vpend \in [Vdevs -> Seq(Nodes)]
  BY ElemsProps DEF IndInv, TypeOK, ListTypes
<1>3. /\ ncmd' = [ncmd EXCEPT ![n] = NoCmd] /\ UNCHANGED vpend
      /\ vact' = [vact EXCEPT ![d] = <<>>]
  BY <1>1, <1>2 DEF Ends
<1>4. \A u \in Vdevs : /\ \A m \in Elems(vact[u]) : u # d => m # n
                       /\ \A m \in Elems(vpend[u]) : m # n
  BY <1>2 DEF IndInv, NodesAccounted, VdevLists
<1>5. \A u \in Vdevs : Elems(vact[u]) \subseteq Nodes /\ Elems(vpend[u]) \subseteq Nodes
  BY <1>0, ElemsProps
<1>6. \A u \in Vdevs : WaitingOn(u)' = WaitingOn(u)
  BY <1>0, <1>3, <1>4, <1>5, WaitingSame
<1>7. \A u \in Vdevs \ {d} : RunningOn(u)' = RunningOn(u)
  BY <1>0, <1>3, <1>4, <1>5, RunningSame
<1>8. RunningOn(d)' = NoCmd
  BY <1>0, <1>3 DEF RunningOn
<1>9. RunningOn(d) # NoCmd
  <2>1. n \in Elems(vact[d])
    BY <1>2 DEF IndInv, VdevLists
  <2>2. vact[d] # <<>>
    BY <2>1 DEF Elems
  <2> QED  BY <2>2, RunningNone
<1> HIDE DEF RunningOn, WaitingOn
<1>10. Queue!Finish(d)
  <2>1. [v \in Vdevs |-> RunningOn(v)][d] # NoCmd
    BY <1>9
  <2>2. [v \in Vdevs |-> RunningOn(v)]' = [[v \in Vdevs |-> RunningOn(v)] EXCEPT ![d] = NoCmd]
    BY <1>7, <1>8
  <2>3. UNCHANGED [v \in Vdevs |-> WaitingOn(v)]
    BY <1>6
  <2> QED  BY <2>1, <2>2, <2>3 DEF Queue!Finish
<1> QED  BY <1>1, <1>2, <1>10

(* ... a pending one that is made active is the first of its vdev, *)
LEMMA PromotesRefines ==
  ASSUME IndInv, PendingOrdered, NEW t, NEW n \in Nodes, Promotes(t, n)
  PROVE  Queue!Promote(ncmd[n].vdev) /\ ncmd[n].vdev \in Vdevs
<1>1. PICK d : d = ncmd[n].vdev
  OBVIOUS
<1>2. /\ n \in Elems(ppend) /\ vact[d] = <<>> /\ UNCHANGED ncmd
      /\ vact' = [vact EXCEPT ![d] = Insert(vact[d], n, ncmd[n])]
      /\ vpend' = [vpend EXCEPT ![d] = Without(vpend[d], n)]
  BY <1>1 DEF Promotes, Runs
<1>3. d \in Vdevs /\ n \in Elems(vpend[d])
  BY <1>1, <1>2, ListedCmds DEF IndInv, VdevLists
<1>4. /\ ncmd \in [Nodes -> Cmds \cup {NoCmd}]
      /\ vact \in [Vdevs -> Seq(Nodes)] /\ vpend \in [Vdevs -> Seq(Nodes)]
  BY DEF IndInv, TypeOK, ListTypes
<1>5. PICK s \in Seq(Nodes) : s = vpend[d]
  BY <1>3, <1>4
<1>6. s # <<>> /\ Injective(s) /\ n = Head(s)
  <2>1. s # <<>>
    BY <1>3, <1>5 DEF Elems
  <2> QED  BY <1>1, <1>3, <1>5, <2>1, PromotesHead DEF IndInv, VdevLists
<1>7. 1 \in DOMAIN s /\ vpend'[d] = Del(s, 1)
  <2>1. 1 \in DOMAIN s /\ Without(s, Head(s)) = Del(s, 1)
    BY <1>6, WithoutHead
  <2> QED  BY <1>2, <1>3, <1>4, <1>5, <1>6, <2>1
<1>8. PICK q : q = CmdsOf(s, ncmd)
  OBVIOUS
<1> DEFINE T == Cmds \cup {NoCmd}
<1>10. q \in Seq(T) /\ Len(q) = Len(s) /\ q # <<>> /\ Head(q) = ncmd[n]
  <2>1. q \in Seq(T) /\ Len(q) = Len(s) /\ \A i \in 1..Len(s) : q[i] = ncmd[s[i]]
    BY <1>4, <1>8, CmdsOfType
  <2>2. q # <<>> /\ q[1] = ncmd[s[1]] /\ s[1] = n
    BY <1>6, <2>1
  <2>3. Head(q) = q[1]
    BY <2>1, <2>2
  <2> QED  BY <2>1, <2>2, <2>3
<1>11. WaitingOn(d) = q
  BY <1>5, <1>8 DEF WaitingOn, CmdsOf
<1>12. WaitingOn(d)' = Tail(q)
  <2>1. WaitingOn(d)' = CmdsOf(Del(s, 1), ncmd)
    BY <1>2, <1>7 DEF WaitingOn, CmdsOf
  <2>2. CmdsOf(Del(s, 1), ncmd) = [j \in 1..(Len(CmdsOf(s, ncmd)) - 1) |->
            IF j < 1 THEN CmdsOf(s, ncmd)[j] ELSE CmdsOf(s, ncmd)[j + 1]]
    BY <1>4, <1>7, CmdsOfDel
  <2>3. Tail(q) = [j \in 1..(Len(q) - 1) |-> IF j < 1 THEN q[j] ELSE q[j + 1]]
    BY <1>10, DelFirst
  <2> QED  BY <1>8, <2>1, <2>2, <2>3
<1>13. \A u \in Vdevs \ {d} : WaitingOn(u)' = WaitingOn(u) /\ RunningOn(u)' = RunningOn(u)
  BY <1>2, <1>4, WaitingSame, RunningSame
<1>14. RunningOn(d) = NoCmd /\ RunningOn(d)' = ncmd[n]
  <2>1. vact'[d] = <<n>>
    BY <1>2, <1>3, <1>4 DEF Insert
  <2>2. vact'[d] # <<>> /\ vact'[d][1] = n
    BY <2>1
  <2>3. RunningOn(d)' = ncmd[n]
    BY <1>2, <2>2 DEF RunningOn
  <2>4. RunningOn(d) = NoCmd
    BY <1>2 DEF RunningOn
  <2> QED  BY <2>3, <2>4
<1> HIDE DEF T
<1>15. Queue!Promote(d)
  <2>1. [v \in Vdevs |-> RunningOn(v)][d] = NoCmd /\ [v \in Vdevs |-> WaitingOn(v)][d] = q
    BY <1>3, <1>11, <1>14
  <2>2. [v \in Vdevs |-> RunningOn(v)]' = [[v \in Vdevs |-> RunningOn(v)] EXCEPT ![d] = Head(q)]
    BY <1>3, <1>10, <1>13, <1>14
  <2>3. [v \in Vdevs |-> WaitingOn(v)]' = [[v \in Vdevs |-> WaitingOn(v)] EXCEPT ![d] = Tail(q)]
    BY <1>3, <1>12, <1>13
  <2> QED  BY <1>10, <2>1, <2>2, <2>3 DEF Queue!Promote
<1> QED  BY <1>1, <1>3, <1>15

(* ... and a pending one that is cancelled is withdrawn. *)
LEMMA WithdrawsRefines ==
  ASSUME IndInv, NEW i \in DOMAIN ppend, Withdraws(i)
  PROVE  \E v \in Vdevs : \E k \in DOMAIN WaitingOn(v) : Queue!Withdraw(v, k)
<1>1. PICK n \in Elems(ppend) : n = ppend[i]
  BY DEF Elems
<1>2. PICK d \in Vdevs : d = ncmd[n].vdev
  BY <1>1, ListedCmds
<1>3. /\ ncmd' = [ncmd EXCEPT ![n] = NoCmd] /\ UNCHANGED vact
      /\ vpend' = [vpend EXCEPT ![d] = Without(vpend[d], n)]
  BY <1>1, <1>2 DEF Withdraws
<1>4. /\ ncmd \in [Nodes -> Cmds \cup {NoCmd}] /\ n \in Nodes
      /\ vact \in [Vdevs -> Seq(Nodes)] /\ vpend \in [Vdevs -> Seq(Nodes)]
  BY ElemsProps DEF IndInv, TypeOK, ListTypes
<1>5. PICK s \in Seq(Nodes) : s = vpend[d]
  BY <1>4
<1>6. n \in Elems(s) /\ Injective(s)
  BY <1>2, <1>5 DEF IndInv, VdevLists
<1>7. PICK k \in DOMAIN s : k = Index(s, n)
  BY <1>6 DEF Index, Elems
<1>8. vpend'[d] = Del(s, k) /\ n \notin Elems(Del(s, k)) /\ Elems(Del(s, k)) \subseteq Nodes
  <2>1. Without(s, n) = Del(s, k)
    BY <1>7 DEF Without
  <2>2. Elems(Without(s, n)) = Elems(s) \ {n}
    BY <1>6, WithoutProps
  <2>3. Elems(s) \subseteq Nodes
    BY ElemsProps
  <2> QED  BY <1>3, <1>4, <1>5, <2>1, <2>2, <2>3
<1>9. \A u \in Vdevs : /\ \A m \in Elems(vact[u]) : m # n
                       /\ \A m \in Elems(vpend[u]) : u # d => m # n
  BY <1>2 DEF IndInv, NodesAccounted, VdevLists
<1>10. \A u \in Vdevs : Elems(vact[u]) \subseteq Nodes /\ Elems(vpend[u]) \subseteq Nodes
  BY <1>4, ElemsProps
<1>11. \A u \in Vdevs : RunningOn(u)' = RunningOn(u)
  BY <1>3, <1>4, <1>9, <1>10, RunningSame
<1>12. \A u \in Vdevs \ {d} : WaitingOn(u)' = WaitingOn(u)
  BY <1>3, <1>4, <1>9, <1>10, WaitingSame
<1>13. PICK q : q = CmdsOf(s, ncmd)
  OBVIOUS
<1>14. WaitingOn(d) = q
  BY <1>5, <1>13 DEF WaitingOn, CmdsOf
<1>15. WaitingOn(d)' = [j \in 1..(Len(q) - 1) |-> IF j < k THEN q[j] ELSE q[j + 1]]
  <2>1. PICK g : g = ncmd'
    OBVIOUS
  <2>2. WaitingOn(d)' = CmdsOf(Del(s, k), g)
    BY <1>8, <2>1 DEF WaitingOn, CmdsOf
  <2>3. \A m \in Elems(Del(s, k)) : g[m] = ncmd[m]
    BY <1>3, <1>4, <1>8, <2>1
  <2>4. CmdsOf(Del(s, k), g) = CmdsOf(Del(s, k), ncmd)
    BY <2>3, CmdsOfSame
  <2>6. CmdsOf(Del(s, k), ncmd) = [j \in 1..(Len(CmdsOf(s, ncmd)) - 1) |->
            IF j < k THEN CmdsOf(s, ncmd)[j] ELSE CmdsOf(s, ncmd)[j + 1]]
    BY <1>4, CmdsOfDel
  <2> QED  BY <1>13, <2>2, <2>4, <2>6
<1>16. k \in DOMAIN q
  BY <1>13 DEF CmdsOf
<1>17. Queue!Withdraw(d, k)
  <2>1. [v \in Vdevs |-> WaitingOn(v)][d] = q
    BY <1>14
  <2>2. UNCHANGED [v \in Vdevs |-> RunningOn(v)]
    BY <1>11
  <2>3. [v \in Vdevs |-> WaitingOn(v)]' = [[v \in Vdevs |-> WaitingOn(v)] EXCEPT
            ![d] = [j \in 1..(Len(q) - 1) |-> IF j < k THEN q[j] ELSE q[j + 1]]]
    BY <1>12, <1>15
  <2> QED  BY <1>16, <2>1, <2>2, <2>3 DEF Queue!Withdraw
<1> QED  BY <1>14, <1>16, <1>17

(* Every step of the component is a step of the queue or leaves it alone. *)
LEMMA StepRefines ==
  ASSUME IndInv, QueueInv, [Next]_vars
  PROVE  [Queue!Next]_(Queue!vars)
<1>0. QueueStep
  BY StepEffects
<1>1. CASE \/ Aside \/ \E t \in Threads : Activates(t) \/ GivesUp(t)
  <2>1. ListsUnchanged
    BY <1>1 DEF Aside, GivesUp, Activates, ListsUnchanged, StartTimer, StartTimerFails,
                ActivateCallback, FinishActivation, queues
  <2> QED  BY <2>1, AsideRefines
<1>2. ASSUME NEW c \in Cmds, NEW n \in Nodes, Enqueues(c, n)
      PROVE  Queue!Next
  <2>1. Queue!Enqueue(c)
    BY <1>2, EnqueuesRefines
  <2> QED  BY <2>1 DEF Queue!Next
<1>3. ASSUME NEW t \in Threads, NEW c \in Cmds, NEW n \in Nodes, Starts(t, c, n)
      PROVE  Queue!Next
  <2>1. Queue!Start(c)
    BY <1>3, StartsRefines
  <2> QED  BY <2>1 DEF Queue!Next
<1>4. ASSUME NEW t \in Threads, NEW n \in Nodes, Promotes(t, n)
      PROVE  Queue!Next
  <2>1. PICK d \in Vdevs : Queue!Promote(d)
    BY <1>4, PromotesRefines DEF QueueInv
  <2> QED  BY <2>1 DEF Queue!Next
<1>5. ASSUME NEW j \in DOMAIN pact, Ends(j)
      PROVE  Queue!Next
  <2>1. PICK d \in Vdevs : Queue!Finish(d)
    BY <1>5, EndsRefines
  <2> QED  BY <2>1 DEF Queue!Next
<1>6. ASSUME NEW i \in DOMAIN ppend, Withdraws(i)
      PROVE  Queue!Next
  <2>1. PICK d \in Vdevs : \E k \in DOMAIN WaitingOn(d) : Queue!Withdraw(d, k)
    BY <1>6, WithdrawsRefines
  <2>2. DOMAIN WaitingOn(d) = DOMAIN [v \in Vdevs |-> WaitingOn(v)][d]
    OBVIOUS
  <2> QED  BY <2>1, <2>2 DEF Queue!Next
<1> QED  BY <1>0, <1>1, <1>2, <1>3, <1>4, <1>5, <1>6 DEF QueueStep

(* Whatever the threads, the callbacks, the timers and the cancels do, the *)
(* component is a queue of commands per vdev: at most one runs, those that *)
(* wait run in the order in which they were queued, none runs twice and    *)
(* none disappears without having run or having been withdrawn.            *)
THEOREM QueueImplemented == Spec => ImplementsQueue
<1>1. Init => Queue!Init
  BY DEF Init, Queue!Init, RunningOn, WaitingOn
<1>2. IndInv /\ QueueInv /\ [Next]_vars => [Queue!Next]_(Queue!vars)
  BY StepRefines
<1> QED  BY <1>1, <1>2, QueuesInductive, PTL DEF Spec, Queue!Spec, ImplementsQueue
=============================================================================
