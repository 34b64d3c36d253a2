---------------------- MODULE SerializationCallsProofs ----------------------
(***************************************************************************)
(* What the calls in progress owe, whatever threads interleave: every      *)
(* accepted request is released exactly once, the references on a vdev are *)
(* those of its timers and timeouts, and, without blocking commands and    *)
(* cancels, a vdev with waiting commands is never left unattended.         *)
(***************************************************************************)
EXTENDS SerializationQueueProofs, Counting

-----------------------------------------------------------------------------
(* What a step does to the calls in progress *)

(* Where a call whose callers' frames are s returns to. *)
After(s) == IF s = <<>> THEN "idle"
            ELSE IF Head(s).op = "move" THEN "move_resume" ELSE "timeout_free"

(* u is at a point that says something of its frames. *)
FramePCs == {"idle", "move", "move_resume", "release", "timeout_free"}

(* u goes on where it was, or to a point that its frames allow. *)
Follows(u) == \/ pc'[u] = pc[u] \/ pc'[u] \notin FramePCs
              \/ pc'[u] = "release" /\ pc[u] \in {"move", "move_resume"}
              \/ pc'[u] = After(stack[u])

(* The calls that u is in stay what they are. *)
SameCall(f, g) == g.op = f.op /\ g.vdev = f.vdev /\ g.cmd = f.cmd
SameCalls(u) == /\ Len(stack'[u]) = Len(stack[u])
                /\ \A i \in DOMAIN stack[u] : SameCall(stack[u][i], stack'[u][i])

(* u has cancelled c and is to make its RELEASE_MEM callback. *)
Reporting(u, c) == pc[u] = "cancel_cb" /\ cx[u].removed = c
Reports == \A u \in Threads, c \in Cmds : Reporting(u, c)' <=> Reporting(u, c)

(* No call begins or ends, nothing is counted. *)
Quiet == /\ UNCHANGED <<ncmd, live, timers, ref, msgs>> /\ Reports
         /\ \A u \in Threads : Follows(u) /\ SameCalls(u)

(* A request is accepted. *)
Accepts(c, n) == /\ n \in pool /\ ncmd' = [ncmd EXCEPT ![n] = c]
                 /\ live' = [live EXCEPT ![c] = @ + 1]
                 /\ UNCHANGED <<timers, ref, msgs, stack>> /\ Reports
                 /\ \A u \in Threads : Follows(u)

(* The timer of an active command, if it has one, is stopped. *)
Stopped(n) == IF n \in timers
              THEN timers' = timers \ {n} /\ ref' = [ref EXCEPT ![ncmd[n].vdev] = @ - 1]
              ELSE UNCHANGED <<timers, ref>>

(* t removes an active command. *)
Removes(t, n) == LET d == ncmd[n] IN
  /\ n \in Elems(pact) /\ Stopped(n) /\ ncmd' = [ncmd EXCEPT ![n] = NoCmd]
  /\ pc[t] \in {"idle", "dequeue"} /\ pc' = [pc EXCEPT ![t] = "move"]
  /\ stack' = [stack EXCEPT ![t] =
        <<[op |-> "move", vdev |-> d.vdev, cmd |-> d, blk |-> d.is_blocking,
           vlookup |-> FALSE]>> \o @]
  /\ UNCHANGED <<cx, live, msgs>>

(* t cancels a command. *)
CancelsOne(t, n) ==
  /\ \/ n \in Elems(pact) /\ Stopped(n)
     \/ n \in Elems(ppend) /\ UNCHANGED <<timers, ref>>
  /\ ncmd' = [ncmd EXCEPT ![n] = NoCmd]
  /\ pc[t] = "cancel" /\ pc' = [pc EXCEPT ![t] = "cancel_cb"]
  /\ cx'[t].removed = ncmd[n] /\ \A u \in Threads \ {t} : cx'[u] = cx[u]
  /\ UNCHANGED <<stack, live, msgs>>

CallStep == \/ Quiet
            \/ \E c \in Cmds, n \in Nodes : Accepts(c, n)
            \/ \E t \in Threads, n \in Nodes : Removes(t, n) \/ CancelsOne(t, n)
            \/ \E t \in Threads : \/ StartTimer(t) \/ ReleaseMem(t)
                                  \/ CancelCallbacks(t) \/ TimeoutFree(t)
            \/ \E n \in Nodes : TimerFires(n)
            \/ TimeoutIgnored \/ TimeoutHandled

-----------------------------------------------------------------------------
(* Every step is one of these. *)

(* Calls that are left alone. *)
LEMMA CallsAlone ==
  ASSUME UNCHANGED stack
  PROVE  \A u \in Threads : SameCalls(u)
  BY DEF SameCalls, SameCall

(* No callback of a cancel is due or made. *)
LEMMA ReportsAlone ==
  ASSUME NEW t \in Threads, pc[t] # "cancel_cb", pc'[t] # "cancel_cb",
         \A u \in Threads \ {t} : pc'[u] = pc[u] /\ cx'[u] = cx[u]
  PROVE  Reports
  BY DEF Reports, Reporting

(* A thread whose program counter is set, in the frames it was in. *)
LEMMA PcQuiet ==
  ASSUME IndInv, NEW t \in Threads, NEW p, pc' = [pc EXCEPT ![t] = p], pc[t] # "cancel_cb",
         p # "cancel_cb", p \notin FramePCs \/ (p = "release" /\ pc[t] \in {"move", "move_resume"}),
         \A u \in Threads \ {t} : cx'[u] = cx[u]
  PROVE  Reports /\ \A u \in Threads : Follows(u)
<1>1. pc'[t] = p /\ \A u \in Threads \ {t} : pc'[u] = pc[u]
  BY DEF IndInv, TypeOK, ThreadTypes
<1>2. Reports
  BY <1>1, ReportsAlone
<1> QED  BY <1>1, <1>2 DEF Follows

(* A call returns. *)
LEMMA ReturnQuiet ==
  ASSUME IndInv, NEW t \in Threads, Return(t, stack[t]), pc[t] # "cancel_cb",
         \A u \in Threads \ {t} : cx'[u] = cx[u]
  PROVE  /\ Reports /\ \A u \in Threads : Follows(u) /\ SameCalls(u)
<1>1. stack' = stack /\ pc'[t] = After(stack[t]) /\ \A u \in Threads \ {t} : pc'[u] = pc[u]
  BY DEF IndInv, TypeOK, ThreadTypes, Return, After
<1>2. pc'[t] # "cancel_cb"
  BY <1>1 DEF After
<1>3. Reports
  BY <1>1, <1>2, ReportsAlone
<1> QED  BY <1>1, <1>3, CallsAlone DEF Follows

(* Steps of no thread's call. *)
LEMMA IdleQuiet ==
  ASSUME UNCHANGED <<ncmd, live, timers, ref, msgs, pc, stack, cx>>
  PROVE  Quiet
  BY CallsAlone DEF Quiet, Reports, Reporting, Follows

(* Requests that are refused and steps around the calls. *)
LEMMA AroundQuiet ==
  ASSUME NEW t, NEW c,
         \/ RequestRefused(t, c) \/ RequestListFull(t, c) \/ UpdateTimer(t, c)
         \/ VdevQueueDisable(t, c) \/ TimerLost(c) \/ VdevLogicallyDeleted(c)
         \/ UNCHANGED vars \/ CancelLost(t)
  PROVE  Quiet
<1>1. UNCHANGED <<ncmd, live, timers, ref, msgs, pc, stack, cx>>
  BY DEF RequestRefused, RequestListFull, UpdateTimer, VdevQueueDisable, TimerLost,
         VdevLogicallyDeleted, CancelLost, vars, queues, timing, locals
<1> QED  BY <1>1, IdleQuiet

(* Steps that move a thread along. *)
LEMMA AlongQuiet ==
  ASSUME IndInv, NEW t \in Threads,
         \/ StartTimerFails(t) \/ ActivateCallback(t) \/ FinishActivation(t) \/ TestRemoval(t)
         \/ MoveNothingVdev(t) \/ MoveNothingPdev(t) \/ MoveBreak(t)
  PROVE  Quiet
<1>1. UNCHANGED <<ncmd, live, timers, ref, msgs, stack, cx>>
  BY DEF StartTimerFails, ActivateCallback, FinishActivation, TestRemoval, MoveNothingVdev,
         MoveNothingPdev, MoveBreak, MoveEnds, queues, timing
<1>2. PICK p : /\ pc' = [pc EXCEPT ![t] = p]
               /\ \/ p \in {"activated", "activate_failed", "test_removal", "dequeue", "test_cancel"}
                  \/ p = "release" /\ pc[t] \in {"move", "move_resume"}
  BY DEF StartTimerFails, ActivateCallback, FinishActivation, TestRemoval, MoveNothingVdev,
         MoveNothingPdev, MoveBreak, MoveEnds, MoveLoop
<1>3. pc[t] # "cancel_cb"
  BY DEF StartTimerFails, ActivateCallback, FinishActivation, TestRemoval, MoveNothingVdev,
         MoveNothingPdev, MoveBreak, MoveLoop
<1>4. Reports /\ \A u \in Threads : Follows(u)
  BY <1>1, <1>2, <1>3, PcQuiet DEF FramePCs
<1> QED  BY <1>1, <1>4, CallsAlone DEF Quiet

(* A dequeue that removes nothing. *)
LEMMA DequeueQuiet ==
  ASSUME IndInv, NEW t \in Threads, NEW c, pc[t] \in {"idle", "dequeue"},
         \/ DequeueMissing(t, c) \/ DequeueMarked(t, c)
         \/ Return(t, stack[t]) /\ UNCHANGED <<queues, timing, cx, live, bugs>>
  PROVE  Quiet
<1>1. Return(t, stack[t]) /\ UNCHANGED <<ncmd, live, timers, ref, msgs, cx>>
  BY DEF DequeueMissing, DequeueMarked, queues, timing
<1> QED  BY <1>1, ReturnQuiet DEF Quiet

(* The test that may start a cancel. *)
LEMMA TestCancelQuiet ==
  ASSUME IndInv, NEW t \in Threads, TestCancel(t)
  PROVE  Quiet
<1>1. UNCHANGED <<ncmd, live, timers, ref, msgs>> /\ pc[t] = "test_cancel"
  BY DEF TestCancel, queues, timing
<1>2. CASE CANCEL \in flags[node[t]]
  <2>1. pc' = [pc EXCEPT ![t] = "cancel"] /\ UNCHANGED stack
        /\ cx' = [cx EXCEPT ![t] = [NoCancel EXCEPT !.queues = <<TRUE>>]]
    BY <1>2 DEF TestCancel
  <2>2. \A u \in Threads \ {t} : cx'[u] = cx[u]
    BY <2>1 DEF IndInv, TypeOK, CancelTypes
  <2>3. Reports /\ \A u \in Threads : Follows(u)
    BY <1>1, <2>1, <2>2, PcQuiet DEF FramePCs
  <2> QED  BY <1>1, <2>1, <2>3, CallsAlone DEF Quiet
<1>3. CASE CANCEL \notin flags[node[t]]
  BY <1>1, <1>3, ReturnQuiet DEF TestCancel, Quiet
<1> QED  BY <1>2, <1>3

(* A cancel is asked for. *)
LEMMA CancelRequestQuiet ==
  ASSUME IndInv, NEW t \in Threads, NEW q, CancelRequest(t, q)
  PROVE  Quiet
<1>1. UNCHANGED <<ncmd, live, timers, ref, msgs, stack>> /\ pc[t] = "idle"
      /\ pc' = [pc EXCEPT ![t] = "cancel"]
  BY DEF CancelRequest, queues, timing
<1>2. \A u \in Threads \ {t} : cx'[u] = cx[u]
  BY DEF CancelRequest, IndInv, TypeOK, CancelTypes
<1>3. Reports /\ \A u \in Threads : Follows(u)
  BY <1>1, <1>2, PcQuiet DEF FramePCs
<1> QED  BY <1>1, <1>3, CallsAlone DEF Quiet

(* A pass of a cancel ends. *)
LEMMA CancelEndsQuiet ==
  ASSUME IndInv, NEW t \in Threads, CancelStop(t) \/ CancelNoTimer(t)
  PROVE  Quiet
<1>1. /\ UNCHANGED <<ncmd, live, timers, ref, msgs>> /\ pc[t] = "cancel" /\ CancelPassEnds(t)
  BY DEF CancelStop, CancelNoTimer, timing
<1>2. \A u \in Threads \ {t} : cx'[u] = cx[u]
  BY <1>1, PassEndsShape
<1>3. CASE UNCHANGED <<pc, stack>>
  <2>1. Reports
    BY <1>1, <1>2, <1>3, ReportsAlone
  <2> QED  BY <1>1, <1>3, <2>1, CallsAlone DEF Quiet, Follows
<1>4. CASE Return(t, stack[t])
  BY <1>1, <1>2, <1>4, ReturnQuiet DEF Quiet
<1> QED  BY <1>1, <1>3, <1>4 DEF CancelPassEnds

(* A pending command is moved: the frame of the move notes how. *)
LEMMA MoveQuiet ==
  ASSUME IndInv, NEW t \in Threads, MoveFromVdev(t) \/ MoveFromPdev(t)
  PROVE  Quiet
<1>1. PICK n, marked : PendingToActive(t, n, marked)
  BY DEF MoveFromVdev, MoveFromPdev
<1>2. /\ UNCHANGED <<ncmd, live, timers, ref, msgs, cx>>
      /\ stack' = [stack EXCEPT ![t] = <<[Top(t) EXCEPT !.vlookup = VdevLookup(t)]>> \o Tail(stack[t])]
  BY <1>1 DEF PendingToActive, timing
<1>3. pc[t] \in {"move", "move_resume"}
  BY DEF MoveFromVdev, MoveFromPdev, MoveLoop
<1>4. PICK s \in Seq(Frames) : s = stack[t] /\ s # <<>>
  BY <1>3 DEF IndInv, TypeOK, ThreadTypes, Shape, ThreadShape
<1>5. PICK g : g = [Top(t) EXCEPT !.vlookup = VdevLookup(t)]
  OBVIOUS
<1>6. SameCall(s[1], g) /\ Top(t) = s[1]
  <2>1. Top(t) = s[1] /\ s[1] \in Frames
    BY <1>4 DEF Top
  <2> QED  BY <1>5, <2>1 DEF SameCall, Frames
<1>7. /\ Len(<<g>> \o Tail(s)) = Len(s) /\ (<<g>> \o Tail(s))[1] = g
      /\ \A i \in 2..Len(s) : (<<g>> \o Tail(s))[i] = s[i]
  BY <1>4
<1>8. stack'[t] = <<g>> \o Tail(s) /\ \A u \in Threads \ {t} : stack'[u] = stack[u]
  BY <1>2, <1>4, <1>5 DEF IndInv, TypeOK, ThreadTypes
<1>9. \A u \in Threads : SameCalls(u)
  <2>1. DOMAIN s = 1..Len(s)
    OBVIOUS
  <2>2. \A i \in DOMAIN s : i = 1 \/ i \in 2..Len(s)
    BY <2>1
  <2>3. SameCalls(t)
    BY <1>4, <1>6, <1>7, <1>8, <2>2 DEF SameCalls, SameCall
  <2> QED  BY <1>8, <2>3 DEF SameCalls, SameCall
<1>10. PICK p \in {"release", "start_timer"} : pc' = [pc EXCEPT ![t] = p]
  BY <1>1 DEF PendingToActive
<1>11. Reports /\ \A u \in Threads : Follows(u)
  BY <1>2, <1>3, <1>10, PcQuiet DEF FramePCs
<1> QED  BY <1>2, <1>9, <1>11 DEF Quiet

(* Requests that are queued. *)
LEMMA RequestAccepts ==
  ASSUME IndInv, NEW t \in Threads, NEW c \in Cmds, RequestPending(t, c) \/ RequestActive(t, c)
  PROVE  \E n \in Nodes : Accepts(c, n)
<1>1. PICK n \in Nodes : /\ RequestAccepted(t, c, n)
                         /\ UNCHANGED <<timers, ref, msgs, stack, cx>>
                         /\ pc' = pc \/ pc' = [pc EXCEPT ![t] = "start_timer"]
  BY DEF RequestPending, RequestActive, timing, locals
<1>2. /\ n \in pool /\ ncmd' = [ncmd EXCEPT ![n] = c] /\ pc[t] = "idle"
      /\ live' = [live EXCEPT ![c] = live[c] + 1]
  BY <1>1 DEF RequestAccepted, RequestMade
<1>3. Reports /\ \A u \in Threads : Follows(u)
  <2>1. CASE pc' = pc
    BY <1>1, <2>1 DEF Reports, Reporting, Follows
  <2>2. CASE pc' = [pc EXCEPT ![t] = "start_timer"]
    BY <1>1, <1>2, <2>2, PcQuiet DEF FramePCs
  <2> QED  BY <1>1, <2>1, <2>2
<1> QED  BY <1>1, <1>2, <1>3 DEF Accepts

(* The timer that is stopped is the command's own. *)
LEMMA StopsItsOwn ==
  ASSUME IndInv, NEW n \in Elems(pact), StopTimer(ncmd[n])
  PROVE  Stopped(n)
<1>1. timers' = timers \ {n}
  BY StopsOwn
<1>2. ncmd[n] # NoCmd
  BY ListedCmds, CmdTypes
<1>3. CASE n \in timers
  <2>1. n \in TimersOf(ncmd[n])
    BY <1>2, <1>3 DEF TimersOf, MatchIdVdev, MatchIdType
  <2>2. ref' = [ref EXCEPT ![ncmd[n].vdev] = ref[ncmd[n].vdev] - 1]
    BY <2>1 DEF StopTimer
  <2> QED  BY <1>1, <1>3, <2>2 DEF Stopped
<1>4. CASE n \notin timers
  <2>1. TimersOf(ncmd[n]) = {}
    <3> SUFFICES ASSUME NEW m \in TimersOf(ncmd[n])  PROVE FALSE
      OBVIOUS
    <3>1. m \in timers /\ m \in Elems(pact) /\ ncmd[m].vdev = ncmd[n].vdev
      BY DEF TimersOf, MatchIdVdev, IndInv, TimersListed
    <3>2. m = n
      BY <3>1, ActiveOfVdev
    <3> QED  BY <1>4, <3>1, <3>2
  <2>2. UNCHANGED <<timers, ref>>
    BY <2>1 DEF StopTimer
  <2> QED  BY <1>4, <2>2 DEF Stopped
<1> QED  BY <1>3, <1>4

(* A dequeue that removes its command. *)
LEMMA DequeueRemoves ==
  ASSUME IndInv, NEW t \in Threads, NEW c, pc[t] \in {"idle", "dequeue"}, DequeueRemove(t, c)
  PROVE  \E n \in Nodes : /\ Removes(t, n) /\ ClearActive(ncmd[n]) /\ FreeNode(n, flags)
                          /\ UNCHANGED <<bwait, vpend>>
<1>1. PICK j \in DOMAIN pact :
        /\ ClearActive(ncmd[pact[j]]) /\ StopTimer(ncmd[pact[j]]) /\ FreeNode(pact[j], flags)
        /\ stack' = [stack EXCEPT ![t] =
             <<[op |-> "move", vdev |-> ncmd[pact[j]].vdev, cmd |-> ncmd[pact[j]],
                blk |-> ncmd[pact[j]].is_blocking, vlookup |-> FALSE]>> \o @]
        /\ pc' = [pc EXCEPT ![t] = "move"]
        /\ UNCHANGED <<cx, live, msgs, bwait, vpend>>
  BY DEF DequeueRemove
<1>2. PICK n \in Elems(pact) : n = pact[j]
  BY DEF Elems
<1>3. Stopped(n)
  BY <1>1, <1>2, StopsItsOwn
<1>4. ncmd' = [ncmd EXCEPT ![n] = NoCmd]
  BY <1>1, <1>2 DEF FreeNode
<1>5. n \in Nodes
  BY ListedCmds
<1>6. Removes(t, n)
  BY <1>1, <1>2, <1>3, <1>4 DEF Removes
<1> QED  BY <1>1, <1>2, <1>5, <1>6

(* A cancel takes a command. *)
LEMMA CancelCancels ==
  ASSUME IndInv, NEW t \in Threads, CancelTake(t)
  PROVE  \E n \in Nodes : CancelsOne(t, n)
<1> DEFINE s == CancelList(t)
<1>1. PICK i \in DOMAIN s : Cancelled(t, s, i)
  BY CancelTakes
<1>2. PICK n : n = s[i]
  OBVIOUS
<1>3. /\ pc[t] = "cancel" /\ pc' = [pc EXCEPT ![t] = "cancel_cb"]
      /\ cx'[t].removed = ncmd[n] /\ \A u \in Threads \ {t} : cx'[u] = cx[u]
      /\ UNCHANGED <<stack, live, msgs>>
  BY <1>1, <1>2 DEF CancelTake, Cancelled
<1>4. ncmd' = [ncmd EXCEPT ![n] = NoCmd]
  BY <1>1, <1>2 DEF Cancelled, FreeNode
<1>5. \/ n \in Elems(pact) /\ Stopped(n)
      \/ n \in Elems(ppend) /\ UNCHANGED <<timers, ref>>
  <2>1. CASE OnActive(t)
    <3>1. n \in Elems(pact)
      BY <1>2, <2>1 DEF CancelList, Elems
    <3> QED  BY <1>1, <1>2, <2>1, <3>1, StopsItsOwn DEF Cancelled
  <2>2. CASE ~OnActive(t)
    <3>1. n \in Elems(ppend)
      BY <1>2, <2>2 DEF CancelList, Elems
    <3> QED  BY <1>1, <2>2, <3>1 DEF Cancelled
  <2> QED  BY <2>1, <2>2
<1>6. n \in Nodes
  BY <1>5, ListedCmds
<1>7. CancelsOne(t, n)
  BY <1>3, <1>4, <1>5 DEF CancelsOne
<1> QED  BY <1>6, <1>7

(* Every step is one of these. *)
LEMMA CallEffects ==
  ASSUME IndInv, [Next]_vars
  PROVE  CallStep
<1>1. ASSUME NEW t \in Threads, Continue(t)  PROVE CallStep
  <2>1. CASE StartTimer(t) \/ ReleaseMem(t) \/ CancelCallbacks(t) \/ TimeoutFree(t)
    BY <2>1 DEF CallStep
  <2>2. CASE \/ StartTimerFails(t) \/ ActivateCallback(t) \/ FinishActivation(t) \/ TestRemoval(t)
             \/ MoveNothingVdev(t) \/ MoveNothingPdev(t) \/ MoveBreak(t)
    BY <2>2, AlongQuiet DEF CallStep
  <2>3. CASE TestCancel(t) \/ CancelStop(t) \/ CancelNoTimer(t) \/ CancelLost(t)
    BY <2>3, TestCancelQuiet, CancelEndsQuiet, AroundQuiet DEF CallStep
  <2>4. CASE MoveFromVdev(t) \/ MoveFromPdev(t)
    BY <2>4, MoveQuiet DEF CallStep
  <2>5. CASE CancelTake(t)
    BY <2>5, CancelCancels DEF CallStep
  <2>6. CASE Dequeue(t)
    BY <2>6, DequeueQuiet, DequeueRemoves DEF CallStep, Dequeue, DequeueCmd
  <2> QED  BY <1>1, <2>1, <2>2, <2>3, <2>4, <2>5, <2>6 DEF Continue
<1>2. ASSUME NEW t \in Threads, Call(t)  PROVE CallStep
  <2>1. ASSUME NEW c \in Cmds, \/ RequestRefused(t, c) \/ RequestListFull(t, c)
                               \/ RequestPending(t, c) \/ RequestActive(t, c)
        PROVE  CallStep
    BY <2>1, AroundQuiet, RequestAccepts DEF CallStep
  <2>2. ASSUME NEW c \in Removals, RemoveCmd(t, c) \/ UpdateTimer(t, c)  PROVE CallStep
    BY <2>2, AroundQuiet, DequeueQuiet, DequeueRemoves DEF CallStep, RemoveCmd, DequeueCmd
  <2>3. ASSUME NEW q \in Cancels, CancelRequest(t, q)  PROVE CallStep
    BY <2>3, CancelRequestQuiet DEF CallStep
  <2>4. ASSUME NEW v \in Disables, VdevQueueDisable(t, v)  PROVE CallStep
    BY <2>4, AroundQuiet DEF CallStep
  <2> QED  BY <1>2, <2>1, <2>2, <2>3, <2>4 DEF Call
<1>3. CASE Timeout
  BY <1>3 DEF Timeout, CallStep
<1>4. CASE Environment
  BY <1>4, AroundQuiet DEF Environment, CallStep
<1>5. CASE UNCHANGED vars
  BY <1>5, AroundQuiet DEF CallStep
<1> QED  BY <1>1, <1>2, <1>3, <1>4, <1>5 DEF Next, Running, Halted

-----------------------------------------------------------------------------
(* The frames of a thread *)

(* The call that a thread is in is the one its program counter belongs to; *)
(* only the scheduler thread handles timeouts, and in nothing else.        *)
StackOf(t) ==
  /\ pc[t] = "idle" => stack[t] = <<>>
  /\ pc[t] \in {"move", "move_resume", "release"} => stack[t][1].op = "move"
  /\ pc[t] = "timeout_free" => stack[t][1].op = "timeout"
  /\ \A i \in DOMAIN stack[t] :
        stack[t][i].op = "timeout" => i = Len(stack[t]) /\ t = SchedThread
Stacks == \A t \in Threads : StackOf(t)

(* A call is made: its frame is on top of the others. *)
LEMMA PushFrames ==
  ASSUME NEW S, NEW s \in Seq(S), NEW f \in S, NEW r, r = <<f>> \o s
  PROVE  /\ r \in Seq(S) /\ r # <<>> /\ Len(r) = Len(s) + 1 /\ r[1] = f
         /\ \A i \in 2..Len(r) : i - 1 \in 1..Len(s) /\ r[i] = s[i - 1]
         /\ r[Len(r) + 1 - (Len(s) + 1)] = f
         /\ \A d \in 1..Len(s) : r[Len(r) + 1 - d] = s[Len(s) + 1 - d]
<1>1. r \in Seq(S) /\ Len(r) = Len(s) + 1 /\ r[1] = f
  OBVIOUS
<1>2. r # <<>>
  BY <1>1
<1>3. \A i \in 2..Len(r) : i - 1 \in 1..Len(s) /\ r[i] = s[i - 1]
  BY <1>1
<1>4. ASSUME NEW d \in 1..Len(s)  PROVE r[Len(r) + 1 - d] = s[Len(s) + 1 - d]
  <2>1. Len(r) + 1 - d \in 2..Len(r) /\ Len(r) + 1 - d - 1 = Len(s) + 1 - d
    BY <1>1
  <2> QED  BY <1>3, <2>1
<1>5. Len(r) + 1 - (Len(s) + 1) = 1
  BY <1>1
<1> QED  BY <1>1, <1>2, <1>3, <1>4, <1>5

(* The call on top returns. *)
LEMMA PopFrames ==
  ASSUME NEW S, NEW s \in Seq(S), s # <<>>, NEW r, r = Tail(s)
  PROVE  /\ r \in Seq(S) /\ Len(s) \in Nat \ {0} /\ Len(r) = Len(s) - 1
         /\ \A i \in 1..Len(r) : i + 1 \in 1..Len(s) /\ r[i] = s[i + 1]
         /\ s[Len(s) + 1 - Len(s)] = s[1] /\ Head(s) = s[1]
         /\ \A d \in 1..Len(r) : r[Len(r) + 1 - d] = s[Len(s) + 1 - d]
<1>1. r \in Seq(S) /\ Len(s) \in Nat \ {0} /\ Len(r) = Len(s) - 1
  OBVIOUS
<1>2. \A i \in 1..Len(r) : i + 1 \in 1..Len(s) /\ r[i] = s[i + 1]
  BY <1>1
<1>3. ASSUME NEW d \in 1..Len(r)  PROVE r[Len(r) + 1 - d] = s[Len(s) + 1 - d]
  <2>1. Len(r) + 1 - d \in 1..Len(r) /\ Len(r) + 1 - d + 1 = Len(s) + 1 - d
    BY <1>1
  <2> QED  BY <1>2, <2>1
<1>4. Len(s) + 1 - Len(s) = 1 /\ Head(s) = s[1]
  BY <1>1
<1> QED  BY <1>1, <1>2, <1>3, <1>4

(* Where a return leads. *)
LEMMA AfterIs ==
  ASSUME NEW s \in Seq(Frames)
  PROVE  /\ After(s) \in {"idle", "move_resume", "timeout_free"}
         /\ After(s) = "idle" <=> s = <<>>
         /\ After(s) = "move_resume" => s[1].op = "move"
         /\ After(s) = "timeout_free" => s[1].op = "timeout"
<1>1. s # <<>> => Head(s) = s[1] /\ s[1] \in Frames
  OBVIOUS
<1>2. s # <<>> => s[1].op \in {"move", "timeout"}
  BY <1>1 DEF Frames
<1> QED  BY <1>1, <1>2 DEF After

(* A thread that goes on in the calls it is in. *)
LEMMA FollowsStack ==
  ASSUME IndInv, IndInv', NEW u \in Threads, StackOf(u), Follows(u), SameCalls(u)
  PROVE  StackOf(u)'
<1>1. PICK s \in Seq(Frames) : s = stack[u]
  BY DEF IndInv, TypeOK, ThreadTypes
<1>2. PICK r \in Seq(Frames) : r = stack'[u]
  BY DEF IndInv, TypeOK, ThreadTypes
<1>3. Len(r) = Len(s) /\ \A i \in DOMAIN s : r[i].op = s[i].op
  BY <1>1, <1>2 DEF SameCalls, SameCall
<1>4. /\ DOMAIN r = DOMAIN s /\ (r = <<>> <=> s = <<>>) /\ (s # <<>> => 1 \in DOMAIN s)
  BY <1>3
<1>5. \A i \in DOMAIN r : r[i].op = "timeout" => i = Len(r) /\ u = SchedThread
  BY <1>1, <1>3, <1>4 DEF StackOf
<1>6. pc'[u] = "idle" => r = <<>>
  BY <1>1, <1>4, AfterIs DEF Follows, StackOf, FramePCs
<1>7. pc[u] \in {"move", "move_resume", "release", "timeout_free"} => s # <<>>
  BY <1>1 DEF IndInv, Shape, ThreadShape
<1>8. pc'[u] \in {"move", "move_resume", "release"} => r[1].op = "move"
  BY <1>1, <1>3, <1>4, <1>7, AfterIs DEF Follows, StackOf, FramePCs
<1>9. pc'[u] = "timeout_free" => r[1].op = "timeout"
  BY <1>1, <1>3, <1>4, <1>7, AfterIs DEF Follows, StackOf, FramePCs
<1> QED  BY <1>2, <1>5, <1>6, <1>8, <1>9 DEF StackOf

(* A call that is over. *)
LEMMA PopStack ==
  ASSUME IndInv, NEW t \in Threads, stack[t] # <<>>, StackOf(t), Return(t, Tail(stack[t]))
  PROVE  StackOf(t)'
<1>1. PICK s \in Seq(Frames) : s = stack[t]
  BY DEF IndInv, TypeOK, ThreadTypes
<1>2. Tail(s) \in Seq(Frames)
  BY <1>1
<1> DEFINE r == Tail(s)
<1>3. stack'[t] = r /\ pc'[t] = After(r)
  BY <1>1 DEF IndInv, TypeOK, ThreadTypes, Return, After
<1>4. \A i \in DOMAIN r : i + 1 \in DOMAIN s /\ r[i] = s[i + 1] /\ (i + 1 = Len(s) => i = Len(r))
  BY <1>1, <1>2
<1>5. \A i \in DOMAIN r : r[i].op = "timeout" => i = Len(r) /\ t = SchedThread
  BY <1>1, <1>4 DEF StackOf
<1>6. After(r) \in {"idle", "move_resume", "timeout_free"}
      /\ (After(r) = "idle" <=> r = <<>>)
      /\ (After(r) = "move_resume" => r[1].op = "move")
      /\ (After(r) = "timeout_free" => r[1].op = "timeout")
  BY <1>2, AfterIs
<1> HIDE DEF r
<1> QED  BY <1>3, <1>5, <1>6 DEF StackOf

(* A call of dequeue_cmd that goes on to move a pending command. *)
LEMMA PushStack ==
  ASSUME IndInv, NEW t \in Threads, NEW n, StackOf(t), Removes(t, n)
  PROVE  StackOf(t)'
<1>1. PICK f : f = [op |-> "move", vdev |-> ncmd[n].vdev, cmd |-> ncmd[n],
                    blk |-> ncmd[n].is_blocking, vlookup |-> FALSE]
  OBVIOUS
<1>2. n \in Elems(pact) /\ ncmd[n] \in Cmds
  BY ListedCmds DEF Removes
<1>3. f \in Frames /\ f.op = "move"
  BY <1>1, <1>2, CmdTypes DEF Frames
<1>4. PICK s \in Seq(Frames) : s = stack[t]
  BY DEF IndInv, TypeOK, ThreadTypes
<1>5. PICK r : r = <<f>> \o s
  OBVIOUS
<1>6. /\ r # <<>> /\ Len(r) = Len(s) + 1 /\ r[1] = f /\ r \in Seq(Frames)
      /\ \A i \in 2..Len(r) : i - 1 \in 1..Len(s) /\ r[i] = s[i - 1]
  BY <1>3, <1>5, PushFrames
<1>7. stack'[t] = r /\ pc'[t] = "move"
  BY <1>1, <1>4, <1>5 DEF Removes, IndInv, TypeOK, ThreadTypes
<1>8. ASSUME NEW i \in DOMAIN r, r[i].op = "timeout"  PROVE i = Len(r) /\ t = SchedThread
  <2>1. i \in 2..Len(r)
    BY <1>3, <1>6, <1>8
  <2>2. i - 1 \in DOMAIN s /\ s[i - 1].op = "timeout"
    BY <1>6, <1>8, <2>1
  <2>3. i - 1 = Len(s) /\ t = SchedThread
    BY <1>4, <2>2 DEF StackOf
  <2> QED  BY <1>6, <2>1, <2>3
<1> QED  BY <1>3, <1>6, <1>7, <1>8 DEF StackOf

(* The frames stay in order. *)
LEMMA StacksStep ==
  ASSUME IndInv, IndInv', Stacks, CallStep
  PROVE  Stacks'
<1>0. /\ pc \in [Threads -> PCs] /\ stack \in [Threads -> Seq(Frames)]
      /\ \A u \in Threads : StackOf(u)
  BY DEF IndInv, TypeOK, ThreadTypes, Stacks
<1>1. ASSUME \A u \in Threads : Follows(u) /\ SameCalls(u)  PROVE Stacks'
  BY <1>0, <1>1, FollowsStack DEF Stacks
<1>2. ASSUME NEW t \in Threads, \A u \in Threads \ {t} : pc'[u] = pc[u] /\ stack'[u] = stack[u],
             StackOf(t)'
      PROVE  Stacks'
  <2>1. ASSUME NEW u \in Threads \ {t}  PROVE StackOf(u)'
    BY <1>0, <1>2, <2>1 DEF StackOf
  <2> QED  BY <1>2, <2>1 DEF Stacks
<1>3. ASSUME NEW t \in Threads, NEW p, p \notin FramePCs, pc' = [pc EXCEPT ![t] = p], UNCHANGED stack
      PROVE  Stacks'
  <2>1. \A u \in Threads : Follows(u)
    BY <1>0, <1>3 DEF Follows
  <2> QED  BY <1>1, <1>3, <2>1, CallsAlone
<1>4. CASE Quiet
  BY <1>1, <1>4 DEF Quiet
<1>5. CASE \E c \in Cmds, n \in Nodes : Accepts(c, n)
  BY <1>1, <1>5, CallsAlone DEF Accepts
<1>6. ASSUME NEW t \in Threads, NEW n \in Nodes, Removes(t, n)  PROVE Stacks'
  <2>1. \A u \in Threads \ {t} : pc'[u] = pc[u] /\ stack'[u] = stack[u]
    BY <1>0, <1>6 DEF Removes
  <2> QED  BY <1>0, <1>2, <1>6, <2>1, PushStack
<1>7. ASSUME NEW t \in Threads, NEW n \in Nodes, CancelsOne(t, n)  PROVE Stacks'
  BY <1>3, <1>7 DEF CancelsOne, FramePCs
<1>8. ASSUME NEW t \in Threads, ReleaseMem(t) \/ TimeoutFree(t)  PROVE Stacks'
  <2>1. stack[t] # <<>> /\ Return(t, Tail(stack[t]))
    BY <1>8 DEF ReleaseMem, TimeoutFree, IndInv, Shape, ThreadShape
  <2>2. \A u \in Threads \ {t} : pc'[u] = pc[u] /\ stack'[u] = stack[u]
    BY <1>0, <2>1 DEF Return
  <2> QED  BY <1>0, <1>2, <2>1, <2>2, PopStack
<1>9. ASSUME NEW t \in Threads, StartTimer(t) \/ CancelCallbacks(t)  PROVE Stacks'
  BY <1>3, <1>9 DEF StartTimer, CancelCallbacks, FramePCs
<1>10. CASE TimeoutIgnored \/ \E n \in Nodes : TimerFires(n)
  <2>1. UNCHANGED <<pc, stack>>
    BY <1>10 DEF TimeoutIgnored, TimerFires, locals
  <2> QED  BY <1>1, <2>1, CallsAlone DEF Follows
<1>11. CASE TimeoutHandled
  <2>1. PICK f : /\ stack' = [stack EXCEPT ![SchedThread] = <<f>>]
                 /\ pc' = [pc EXCEPT ![SchedThread] = "dequeue"]
    BY <1>11 DEF TimeoutHandled
  <2>2. /\ stack'[SchedThread] = <<f>> /\ pc'[SchedThread] = "dequeue"
        /\ \A u \in Threads \ {SchedThread} : pc'[u] = pc[u] /\ stack'[u] = stack[u]
    BY <1>0, <2>1, ThreadAssumption
  <2>3. StackOf(SchedThread)'
    BY <2>2 DEF StackOf
  <2> QED  BY <1>2, <2>2, <2>3, ThreadAssumption
<1> QED  BY <1>4, <1>5, <1>6, <1>7, <1>8, <1>9, <1>10, <1>11 DEF CallStep

-----------------------------------------------------------------------------
(* Every accepted request is released exactly once *)

(* The calls that are to release c if the threads' frames are k, and one   *)
(* of them.                                                                *)
Owes(k, t, d, c) == /\ d \in DOMAIN k[t]
                    /\ k[t][Len(k[t]) + 1 - d].op = "move" /\ k[t][Len(k[t]) + 1 - d].cmd = c
Owed(k, c) == UNION {{t} \X {d \in DOMAIN k[t] : Owes(k, t, d, c)} : t \in Threads}

(* Unreleased in terms of the frames, before and after a step. *)
LEMMA UnreleasedOwed ==
  ASSUME NEW c
  PROVE  Unreleased(c) = Owed(stack, c) /\ Unreleased(c)' = Owed(stack', c)
<1>1. \A t : {d \in DOMAIN stack[t] : Frame(t, d).op = "move" /\ Frame(t, d).cmd = c}
           = {d \in DOMAIN stack[t] : Owes(stack, t, d, c)}
  BY DEF Frame, Owes
<1>2. \A t : {d \in DOMAIN stack'[t] : Frame(t, d)'.op = "move" /\ Frame(t, d)'.cmd = c}
           = {d \in DOMAIN stack'[t] : Owes(stack', t, d, c)}
  BY DEF Frame, Owes
<1> QED  BY <1>1, <1>2 DEF Unreleased, Owed

(* What is in Owed. *)
LEMMA OwedIs ==
  ASSUME NEW k, NEW c
  PROVE  /\ \A x \in Owed(k, c) : \E t \in Threads : \E d : x = <<t, d>>
         /\ \A t \in Threads : \A d : <<t, d>> \in Owed(k, c) <=> Owes(k, t, d, c)
<1> DEFINE D(t) == {d \in DOMAIN k[t] : Owes(k, t, d, c)}
<1>1. Owed(k, c) = UNION {{t} \X D(t) : t \in Threads}
  BY DEF Owed
<1>2. \A t, d : d \in D(t) <=> Owes(k, t, d, c)
  BY DEF Owes
<1> HIDE DEF D
<1>3. \A x : x \in Owed(k, c) <=> \E t \in Threads : x \in {t} \X D(t)
  BY <1>1
<1>4. \A x, t : x \in {t} \X D(t) <=> \E d \in D(t) : x = <<t, d>>
  OBVIOUS
<1> QED  BY <1>2, <1>3, <1>4

(* Calls that stay what they are owe what they owed. *)
LEMMA OwedSame ==
  ASSUME IndInv, IndInv', \A u \in Threads : SameCalls(u), NEW c
  PROVE  Unreleased(c)' = Unreleased(c)
<1>1. ASSUME NEW u \in Threads, NEW d  PROVE Owes(stack', u, d, c) <=> Owes(stack, u, d, c)
  <2>1. PICK s \in Seq(Frames) : s = stack[u]
    BY DEF IndInv, TypeOK, ThreadTypes
  <2>2. PICK r \in Seq(Frames) : r = stack'[u]
    BY DEF IndInv, TypeOK, ThreadTypes
  <2>3. /\ Len(r) = Len(s) /\ DOMAIN r = 1..Len(s) /\ DOMAIN s = 1..Len(s)
        /\ \A i \in 1..Len(s) : r[i].op = s[i].op /\ r[i].cmd = s[i].cmd
    BY <2>1, <2>2 DEF SameCalls, SameCall
  <2>4. \A i \in 1..Len(s) : Len(s) + 1 - i \in 1..Len(s)
    OBVIOUS
  <2> QED  BY <2>1, <2>2, <2>3, <2>4 DEF Owes
<1>2. Owed(stack', c) = Owed(stack, c)
  BY <1>1, OwedIs
<1> QED  BY <1>2, UnreleasedOwed

(* A call is made that is to release ncmd[n]. *)
LEMMA OwedPush ==
  ASSUME IndInv, NEW c, NEW t \in Threads, NEW n, Removes(t, n), NEW x,
         x = <<t, Len(stack[t]) + 1>>
  PROVE  /\ Unreleased(c)' \ {x} = Unreleased(c) \ {x} /\ x \notin Unreleased(c)
         /\ x \in Unreleased(c)' <=> c = ncmd[n]
<1>1. PICK f : f = [op |-> "move", vdev |-> ncmd[n].vdev, cmd |-> ncmd[n],
                    blk |-> ncmd[n].is_blocking, vlookup |-> FALSE]
  OBVIOUS
<1>2. n \in Elems(pact) /\ ncmd[n] \in Cmds
  BY ListedCmds DEF Removes
<1>3. f \in Frames /\ f.op = "move" /\ f.cmd = ncmd[n]
  BY <1>1, <1>2, CmdTypes DEF Frames
<1>4. PICK s \in Seq(Frames) : s = stack[t]
  BY DEF IndInv, TypeOK, ThreadTypes
<1>5. PICK r : r = <<f>> \o s
  OBVIOUS
<1>6. /\ Len(r) = Len(s) + 1 /\ r \in Seq(Frames)
      /\ r[Len(r) + 1 - (Len(s) + 1)] = f
      /\ \A d \in 1..Len(s) : r[Len(r) + 1 - d] = s[Len(s) + 1 - d]
  BY <1>3, <1>5, PushFrames
<1>7. stack'[t] = r /\ \A u \in Threads \ {t} : stack'[u] = stack[u]
  BY <1>1, <1>4, <1>5 DEF Removes, IndInv, TypeOK, ThreadTypes
<1>8. /\ DOMAIN s = 1..Len(s) /\ DOMAIN r = 1..(Len(s) + 1) /\ Len(s) \in Nat
      /\ Len(s) + 1 \in DOMAIN r /\ Len(s) + 1 \notin DOMAIN s
      /\ \A d \in DOMAIN r : d \in DOMAIN s \/ d = Len(s) + 1
      /\ \A d \in DOMAIN s : d \in DOMAIN r
  BY <1>6
<1>9. \A d : d # Len(s) + 1 => (Owes(stack', t, d, c) <=> Owes(stack, t, d, c))
  BY <1>4, <1>6, <1>7, <1>8 DEF Owes
<1>10. ~Owes(stack, t, Len(s) + 1, c) /\ (Owes(stack', t, Len(s) + 1, c) <=> c = ncmd[n])
  BY <1>3, <1>4, <1>6, <1>7, <1>8 DEF Owes
<1>11. \A u \in Threads \ {t} : \A d : Owes(stack', u, d, c) <=> Owes(stack, u, d, c)
  BY <1>7 DEF Owes
<1>12. \A u \in Threads : \A d : <<u, d>> # x => (Owes(stack', u, d, c) <=> Owes(stack, u, d, c))
  BY <1>4, <1>9, <1>11
<1>13. Owed(stack', c) \ {x} = Owed(stack, c) \ {x}
  BY <1>12, OwedIs
<1>14. x \notin Owed(stack, c) /\ (x \in Owed(stack', c) <=> c = ncmd[n])
  BY <1>4, <1>10, OwedIs
<1> QED  BY <1>13, <1>14, UnreleasedOwed

(* A call returns. *)
LEMMA OwedPop ==
  ASSUME IndInv, NEW c, NEW t \in Threads, stack[t] # <<>>, Return(t, Tail(stack[t])), NEW x,
         x = <<t, Len(stack[t])>>
  PROVE  /\ Unreleased(c)' \ {x} = Unreleased(c) \ {x} /\ x \notin Unreleased(c)'
         /\ x \in Unreleased(c) <=> Top(t).op = "move" /\ Top(t).cmd = c
<1>1. PICK s \in Seq(Frames) : s = stack[t] /\ s # <<>>
  BY DEF IndInv, TypeOK, ThreadTypes
<1>2. PICK r : r = Tail(s)
  OBVIOUS
<1>3. /\ r \in Seq(Frames) /\ Len(s) \in Nat \ {0} /\ Len(r) = Len(s) - 1
      /\ s[Len(s) + 1 - Len(s)] = s[1] /\ Head(s) = s[1]
      /\ \A d \in 1..Len(r) : r[Len(r) + 1 - d] = s[Len(s) + 1 - d]
  BY <1>1, <1>2, PopFrames
<1>4. stack'[t] = r /\ \A u \in Threads \ {t} : stack'[u] = stack[u]
  BY <1>1, <1>2 DEF Return, IndInv, TypeOK, ThreadTypes
<1>5. /\ DOMAIN s = 1..Len(s) /\ DOMAIN r = 1..(Len(s) - 1) /\ Len(s) \in DOMAIN s
      /\ Len(s) \notin DOMAIN r /\ \A d \in DOMAIN s : d \in DOMAIN r \/ d = Len(s)
      /\ \A d \in DOMAIN r : d \in DOMAIN s
  BY <1>3
<1>6. \A d : d # Len(s) => (Owes(stack', t, d, c) <=> Owes(stack, t, d, c))
  BY <1>1, <1>3, <1>4, <1>5 DEF Owes
<1>7. /\ ~Owes(stack', t, Len(s), c)
      /\ Owes(stack, t, Len(s), c) <=> Top(t).op = "move" /\ Top(t).cmd = c
  BY <1>1, <1>3, <1>4, <1>5 DEF Owes, Top
<1>8. \A u \in Threads \ {t} : \A d : Owes(stack', u, d, c) <=> Owes(stack, u, d, c)
  BY <1>4 DEF Owes
<1>9. \A u \in Threads : \A d : <<u, d>> # x => (Owes(stack', u, d, c) <=> Owes(stack, u, d, c))
  BY <1>1, <1>6, <1>8
<1>10. Owed(stack', c) \ {x} = Owed(stack, c) \ {x}
  BY <1>9, OwedIs
<1>11. x \notin Owed(stack', c) /\ (x \in Owed(stack, c) <=> Top(t).op = "move" /\ Top(t).cmd = c)
  BY <1>1, <1>7, OwedIs
<1> QED  BY <1>10, <1>11, UnreleasedOwed

(* The other places where a command is before its release: a node, or a    *)
(* cancel that is to make the callback.                                    *)
Queued(c) == {n \in Nodes : ncmd[n] = c}
Reported(c) == {t \in Threads : Reporting(t, c)}

(* MemoryAccounted for c, of a finite number of calls. *)
MemoryOf(c) == /\ IsFiniteSet(Unreleased(c))
               /\ live[c] = Cardinality(Queued(c)) + Cardinality(Unreleased(c))
                          + Cardinality(Reported(c))

(* One node is given the command d. *)
LEMMA QueuedChange ==
  ASSUME IndInv, NEW c, NEW n \in Nodes, NEW d, ncmd' = [ncmd EXCEPT ![n] = d]
  PROVE  /\ Cardinality(Queued(c)) \in Nat /\ Cardinality(Queued(c)') \in Nat
         /\ Cardinality(Queued(c)') = Cardinality(Queued(c)) - (IF ncmd[n] = c THEN 1 ELSE 0)
                                                             + (IF d = c THEN 1 ELSE 0)
<1>1. PICK A : A = Queued(c)
  OBVIOUS
<1>2. PICK B : B = Queued(c)'
  OBVIOUS
<1>3. A \in SUBSET Nodes /\ A \ {n} = B \ {n} /\ (n \in A <=> ncmd[n] = c) /\ (n \in B <=> d = c)
  BY <1>1, <1>2 DEF Queued, IndInv, TypeOK, ListTypes
<1>4. IsFiniteSet(A)
  BY <1>3, NodeAssumption, FS_Subset
<1>5. /\ Cardinality(A) \in Nat /\ Cardinality(B) \in Nat
      /\ Cardinality(B) = Cardinality(A) - (IF n \in A THEN 1 ELSE 0)
                                         + (IF n \in B THEN 1 ELSE 0)
  BY <1>3, <1>4, SizeChange
<1> QED  BY <1>1, <1>2, <1>3, <1>5

(* One thread takes up or makes a cancel's callback. *)
LEMMA ReportedChange ==
  ASSUME NEW c, NEW t \in Threads, \A u \in Threads \ {t} : Reporting(u, c)' <=> Reporting(u, c)
  PROVE  /\ Cardinality(Reported(c)) \in Nat /\ Cardinality(Reported(c)') \in Nat
         /\ Cardinality(Reported(c)') = Cardinality(Reported(c))
               - (IF Reporting(t, c) THEN 1 ELSE 0) + (IF Reporting(t, c)' THEN 1 ELSE 0)
<1>1. PICK A : A = Reported(c)
  OBVIOUS
<1>2. PICK B : B = Reported(c)'
  OBVIOUS
<1>3. /\ A \in SUBSET Threads /\ A \ {t} = B \ {t} /\ (t \in A <=> Reporting(t, c))
      /\ (t \in B <=> Reporting(t, c)')
  BY <1>1, <1>2 DEF Reported
<1>4. IsFiniteSet(A)
  BY <1>3, ThreadAssumption, FS_Subset
<1>5. /\ Cardinality(A) \in Nat /\ Cardinality(B) \in Nat
      /\ Cardinality(B) = Cardinality(A) - (IF t \in A THEN 1 ELSE 0)
                                         + (IF t \in B THEN 1 ELSE 0)
  BY <1>3, <1>4, SizeChange
<1> QED  BY <1>1, <1>2, <1>3, <1>5

(* Callbacks that stay due. *)
LEMMA ReportedSame ==
  ASSUME NEW c \in Cmds, Reports
  PROVE  Reported(c)' = Reported(c)
  BY DEF Reports, Reported

(* A command goes from a node to the call that is to release it. *)
LEMMA MemoryRemoves ==
  ASSUME IndInv, NEW c \in Cmds, MemoryOf(c), NEW t \in Threads, NEW n \in Nodes, Removes(t, n)
  PROVE  MemoryOf(c)'
<1>1. /\ ncmd' = [ncmd EXCEPT ![n] = NoCmd] /\ UNCHANGED <<live, cx>>
      /\ pc[t] # "cancel_cb" /\ pc'[t] = "move" /\ \A u \in Threads \ {t} : pc'[u] = pc[u]
  BY DEF Removes, IndInv, TypeOK, ThreadTypes
<1>2. NoCmd # c
  BY CmdTypes
<1>3. /\ Cardinality(Queued(c)) \in Nat /\ Cardinality(Queued(c)') \in Nat
      /\ Cardinality(Queued(c)') = Cardinality(Queued(c)) - (IF ncmd[n] = c THEN 1 ELSE 0)
  <2>1. /\ Cardinality(Queued(c)) \in Nat /\ Cardinality(Queued(c)') \in Nat
        /\ Cardinality(Queued(c)') = Cardinality(Queued(c)) - (IF ncmd[n] = c THEN 1 ELSE 0)
                                                            + (IF NoCmd = c THEN 1 ELSE 0)
    BY <1>1, QueuedChange
  <2> QED  BY <1>2, <2>1
<1>4. Reported(c)' = Reported(c)
  BY <1>1, ReportsAlone, ReportedSame
<1>5. PICK x : x = <<t, Len(stack[t]) + 1>>
  OBVIOUS
<1>6. PICK A : A = Unreleased(c)
  OBVIOUS
<1>7. PICK B : B = Unreleased(c)'
  OBVIOUS
<1>8. A \ {x} = B \ {x} /\ x \notin A /\ (x \in B <=> c = ncmd[n]) /\ IsFiniteSet(A)
  BY <1>5, <1>6, <1>7, OwedPush DEF MemoryOf
<1>9. /\ IsFiniteSet(B) /\ Cardinality(A) \in Nat /\ Cardinality(B) \in Nat
      /\ Cardinality(B) = Cardinality(A) - (IF x \in A THEN 1 ELSE 0)
                                         + (IF x \in B THEN 1 ELSE 0)
  BY <1>8, SizeChange
<1>10. Cardinality(Reported(c)) \in Nat
  BY ReportedChange, <1>1 DEF Reporting
<1> QED  BY <1>1, <1>3, <1>4, <1>6, <1>7, <1>8, <1>9, <1>10 DEF MemoryOf

(* A command goes from a node to the cancel that is to release it. *)
LEMMA MemoryCancels ==
  ASSUME IndInv, IndInv', NEW c \in Cmds, MemoryOf(c), NEW t \in Threads, NEW n \in Nodes,
         CancelsOne(t, n)
  PROVE  MemoryOf(c)'
<1>1. /\ ncmd' = [ncmd EXCEPT ![n] = NoCmd] /\ UNCHANGED <<live, stack>>
      /\ pc[t] = "cancel" /\ pc'[t] = "cancel_cb" /\ \A u \in Threads \ {t} : pc'[u] = pc[u]
      /\ cx'[t].removed = ncmd[n] /\ \A u \in Threads \ {t} : cx'[u] = cx[u]
  BY DEF CancelsOne, IndInv, TypeOK, ThreadTypes
<1>2. NoCmd # c
  BY CmdTypes
<1>3. /\ Cardinality(Queued(c)) \in Nat /\ Cardinality(Queued(c)') \in Nat
      /\ Cardinality(Queued(c)') = Cardinality(Queued(c)) - (IF ncmd[n] = c THEN 1 ELSE 0)
  <2>1. /\ Cardinality(Queued(c)) \in Nat /\ Cardinality(Queued(c)') \in Nat
        /\ Cardinality(Queued(c)') = Cardinality(Queued(c)) - (IF ncmd[n] = c THEN 1 ELSE 0)
                                                            + (IF NoCmd = c THEN 1 ELSE 0)
    BY <1>1, QueuedChange
  <2> QED  BY <1>2, <2>1
<1>4. /\ ~Reporting(t, c) /\ (Reporting(t, c)' <=> ncmd[n] = c)
      /\ \A u \in Threads \ {t} : Reporting(u, c)' <=> Reporting(u, c)
  BY <1>1 DEF Reporting
<1>5. /\ Cardinality(Reported(c)) \in Nat /\ Cardinality(Reported(c)') \in Nat
      /\ Cardinality(Reported(c)') = Cardinality(Reported(c)) + (IF ncmd[n] = c THEN 1 ELSE 0)
  BY <1>4, ReportedChange
<1>6. Unreleased(c)' = Unreleased(c)
  BY <1>1, CallsAlone, OwedSame
<1>7. Cardinality(Unreleased(c)) \in Nat
  BY FS_CardinalityType DEF MemoryOf
<1> QED  BY <1>1, <1>3, <1>5, <1>6, <1>7 DEF MemoryOf

(* The callback that releases a removed command. *)
LEMMA MemoryReleases ==
  ASSUME IndInv, Stacks, NEW c \in Cmds, MemoryOf(c), NEW t \in Threads, ReleaseMem(t)
  PROVE  MemoryOf(c)'
<1>1. PICK s \in Seq(Frames) : s = stack[t] /\ s # <<>>
  BY DEF ReleaseMem, IndInv, TypeOK, ThreadTypes, Shape, ThreadShape
<1>2. Top(t) = s[1] /\ Top(t) \in Frames
  BY <1>1 DEF Top
<1>3. Top(t).op = "move" /\ Top(t).cmd \in Cmds
  BY <1>1, <1>2 DEF ReleaseMem, Stacks, StackOf, Frames
<1>4. /\ pc[t] = "release" /\ Return(t, Tail(stack[t])) /\ UNCHANGED <<ncmd, cx>>
      /\ live' = [live EXCEPT ![Top(t).cmd] = live[Top(t).cmd] - 1]
  BY DEF ReleaseMem, queues
<1>5. Queued(c)' = Queued(c) /\ Cardinality(Queued(c)) \in Nat
  <2>1. Queued(c) \in SUBSET Nodes
    BY DEF Queued
  <2> QED  BY <1>4, <2>1, NodeAssumption, FS_Subset, FS_CardinalityType DEF Queued
<1>6. Reported(c)' = Reported(c) /\ Cardinality(Reported(c)) \in Nat
  <2>1. Tail(stack[t]) \in Seq(Frames)
    BY <1>1
  <2>2. pc'[t] # "cancel_cb" /\ \A u \in Threads \ {t} : pc'[u] = pc[u]
    BY <1>4, <2>1, ReturnShape
  <2>3. Reported(c) \in SUBSET Threads
    BY DEF Reported
  <2> QED  BY <1>4, <2>2, <2>3, ReportsAlone, ReportedSame, ThreadAssumption, FS_Subset,
              FS_CardinalityType
<1>7. live[c] \in Int /\ live'[c] = live[c] - (IF Top(t).cmd = c THEN 1 ELSE 0)
  BY <1>3, <1>4 DEF IndInv, TypeOK, StatusTypes
<1>8. PICK x : x = <<t, Len(stack[t])>>
  OBVIOUS
<1>9. PICK A : A = Unreleased(c)
  OBVIOUS
<1>10. PICK B : B = Unreleased(c)'
  OBVIOUS
<1>11. A \ {x} = B \ {x} /\ x \notin B /\ (x \in A <=> Top(t).cmd = c) /\ IsFiniteSet(A)
  BY <1>1, <1>3, <1>4, <1>8, <1>9, <1>10, OwedPop DEF MemoryOf
<1>12. /\ IsFiniteSet(B) /\ Cardinality(A) \in Nat /\ Cardinality(B) \in Nat
       /\ Cardinality(B) = Cardinality(A) - (IF x \in A THEN 1 ELSE 0)
                                          + (IF x \in B THEN 1 ELSE 0)
  BY <1>11, SizeChange
<1> QED  BY <1>5, <1>6, <1>7, <1>9, <1>10, <1>11, <1>12 DEF MemoryOf

(* The callback that releases a cancelled command. *)
LEMMA MemoryReports ==
  ASSUME IndInv, IndInv', NEW c \in Cmds, MemoryOf(c), NEW t \in Threads, CancelCallbacks(t)
  PROVE  MemoryOf(c)'
<1>1. /\ pc[t] = "cancel_cb" /\ UNCHANGED <<ncmd, cx, stack>>
      /\ live' = [live EXCEPT ![cx[t].removed] = live[cx[t].removed] - 1]
      /\ pc'[t] = "cancel" /\ \A u \in Threads \ {t} : pc'[u] = pc[u]
  BY DEF CancelCallbacks, queues, IndInv, TypeOK, ThreadTypes
<1>2. cx[t].removed \in Cmds
  BY <1>1 DEF IndInv, TypeOK, CancelTypes, CancelLocals, Shape, ThreadShape
<1>3. live[c] \in Int /\ live'[c] = live[c] - (IF cx[t].removed = c THEN 1 ELSE 0)
  BY <1>1, <1>2 DEF IndInv, TypeOK, StatusTypes
<1>4. /\ (Reporting(t, c) <=> cx[t].removed = c) /\ ~Reporting(t, c)'
      /\ \A u \in Threads \ {t} : Reporting(u, c)' <=> Reporting(u, c)
  BY <1>1 DEF Reporting
<1>5. /\ Cardinality(Reported(c)) \in Nat /\ Cardinality(Reported(c)') \in Nat
      /\ Cardinality(Reported(c)') = Cardinality(Reported(c)) - (IF cx[t].removed = c THEN 1 ELSE 0)
  BY <1>4, ReportedChange
<1>6. Queued(c)' = Queued(c) /\ Cardinality(Queued(c)) \in Nat
  <2>1. Queued(c) \in SUBSET Nodes
    BY DEF Queued
  <2> QED  BY <1>1, <2>1, NodeAssumption, FS_Subset, FS_CardinalityType DEF Queued
<1>7. Unreleased(c)' = Unreleased(c)
  BY <1>1, CallsAlone, OwedSame
<1>8. Cardinality(Unreleased(c)) \in Nat
  BY FS_CardinalityType DEF MemoryOf
<1> QED  BY <1>3, <1>5, <1>6, <1>7, <1>8 DEF MemoryOf

(* The frames of the timeout handler release nothing. *)
LEMMA MemoryTimeouts ==
  ASSUME IndInv, Stacks, NEW c \in Cmds, IsFiniteSet(Unreleased(c)),
         TimeoutHandled \/ \E t \in Threads : TimeoutFree(t)
  PROVE  Unreleased(c)' = Unreleased(c)
<1>1. CASE TimeoutHandled
  <2>0. PICK f : f = [op |-> "timeout", vdev |-> Head(msgs).vdev, cmd |-> Head(msgs),
                      blk |-> FALSE, vlookup |-> FALSE]
    OBVIOUS
  <2>1. stack' = [stack EXCEPT ![SchedThread] = <<f>>] /\ f.op = "timeout"
    BY <1>1, <2>0 DEF TimeoutHandled
  <2>2. stack[SchedThread] = <<>>
    BY <1>1, ThreadAssumption DEF TimeoutHandled, Stacks, StackOf
  <2>3. stack'[SchedThread] = <<f>> /\ \A u \in Threads \ {SchedThread} : stack'[u] = stack[u]
    BY <2>1, ThreadAssumption DEF IndInv, TypeOK, ThreadTypes
  <2>4. \A d \in DOMAIN <<f>> : <<f>>[Len(<<f>>) + 1 - d] = f
    OBVIOUS
  <2>5. \A d : ~Owes(stack, SchedThread, d, c) /\ ~Owes(stack', SchedThread, d, c)
    BY <2>1, <2>2, <2>3, <2>4 DEF Owes
  <2>6. \A u \in Threads \ {SchedThread} : \A d : Owes(stack', u, d, c) <=> Owes(stack, u, d, c)
    BY <2>3 DEF Owes
  <2>7. \A u \in Threads : \A d : Owes(stack', u, d, c) <=> Owes(stack, u, d, c)
    BY <2>5, <2>6
  <2>8. Owed(stack', c) = Owed(stack, c)
    BY <2>7, OwedIs
  <2> QED  BY <2>8, UnreleasedOwed
<1>2. ASSUME NEW t \in Threads, TimeoutFree(t)  PROVE Unreleased(c)' = Unreleased(c)
  <2>1. PICK s \in Seq(Frames) : s = stack[t] /\ s # <<>>
    BY <1>2 DEF TimeoutFree, IndInv, TypeOK, ThreadTypes, Shape, ThreadShape
  <2>2. Top(t) = s[1]
    BY <2>1 DEF Top
  <2>3. Top(t).op = "timeout" /\ Return(t, Tail(stack[t]))
    BY <1>2, <2>1, <2>2 DEF TimeoutFree, Stacks, StackOf
  <2>4. PICK x : x = <<t, Len(stack[t])>>
    OBVIOUS
  <2>5. PICK A : A = Unreleased(c)
    OBVIOUS
  <2>6. PICK B : B = Unreleased(c)'
    OBVIOUS
  <2>7. B \ {x} = A \ {x} /\ x \notin A /\ x \notin B
    BY <2>1, <2>3, <2>4, <2>5, <2>6, OwedPop
  <2>8. \A y : y \in A <=> y \in B
    <3> TAKE y
    <3>1. y # x => (y \in A \ {x} <=> y \in A) /\ (y \in B \ {x} <=> y \in B)
      OBVIOUS
    <3> QED  BY <2>7, <3>1
  <2>9. A = B
    BY <2>8
  <2> QED  BY <2>5, <2>6, <2>9
<1> QED  BY <1>1, <1>2

(* Steps that no command's memory is concerned by. *)
LEMMA MemoryQuiet ==
  ASSUME IndInv, IndInv', Reports, \A u \in Threads : SameCalls(u), UNCHANGED <<ncmd, live>>,
         NEW c \in Cmds, MemoryOf(c)
  PROVE  MemoryOf(c)'
<1>1. Queued(c)' = Queued(c)
  BY DEF Queued
<1>2. Reported(c)' = Reported(c)
  BY ReportedSame
<1>3. Unreleased(c)' = Unreleased(c)
  BY OwedSame
<1> QED  BY <1>1, <1>2, <1>3 DEF MemoryOf

(* A request is accepted: its command is put into a free node. *)
LEMMA MemoryAccepts ==
  ASSUME IndInv, IndInv', NEW d \in Cmds, NEW n \in Nodes, Accepts(d, n),
         NEW c \in Cmds, MemoryOf(c)
  PROVE  MemoryOf(c)'
<1>1. /\ n \in pool /\ ncmd' = [ncmd EXCEPT ![n] = d] /\ live' = [live EXCEPT ![d] = live[d] + 1]
      /\ UNCHANGED stack /\ Reports
  BY DEF Accepts
<1>2. ncmd[n] # c
  BY <1>1, CmdAssumption DEF IndInv, NodesAccounted
<1>3. /\ Cardinality(Queued(c)) \in Nat /\ Cardinality(Queued(c)') \in Nat
      /\ Cardinality(Queued(c)') = Cardinality(Queued(c)) + (IF d = c THEN 1 ELSE 0)
  <2>1. /\ Cardinality(Queued(c)) \in Nat /\ Cardinality(Queued(c)') \in Nat
        /\ Cardinality(Queued(c)') = Cardinality(Queued(c)) - (IF ncmd[n] = c THEN 1 ELSE 0)
                                                            + (IF d = c THEN 1 ELSE 0)
    BY <1>1, QueuedChange
  <2> QED  BY <1>2, <2>1
<1>4. live[c] \in Int /\ live'[c] = live[c] + (IF d = c THEN 1 ELSE 0)
  BY <1>1 DEF IndInv, TypeOK, StatusTypes
<1>5. Reported(c)' = Reported(c)
  BY <1>1, ReportedSame
<1>6. Unreleased(c)' = Unreleased(c)
  BY <1>1, CallsAlone, OwedSame
<1>7. Cardinality(Unreleased(c)) \in Nat /\ Cardinality(Reported(c)) \in Nat
  <2>1. Reported(c) \in SUBSET Threads
    BY DEF Reported
  <2> QED  BY <2>1, ThreadAssumption, FS_Subset, FS_CardinalityType DEF MemoryOf
<1> QED  BY <1>3, <1>4, <1>5, <1>6, <1>7 DEF MemoryOf

(* Every accepted request stays accounted for. *)
LEMMA MemoryStep ==
  ASSUME IndInv, IndInv', Stacks, CallStep, NEW c \in Cmds, MemoryOf(c)
  PROVE  MemoryOf(c)'
<1>1. CASE Quiet
  BY <1>1, MemoryQuiet DEF Quiet
<1>2. ASSUME NEW d \in Cmds, NEW n \in Nodes, Accepts(d, n)  PROVE MemoryOf(c)'
  BY <1>2, MemoryAccepts
<1>3. ASSUME NEW t \in Threads, NEW n \in Nodes, Removes(t, n) \/ CancelsOne(t, n)
      PROVE  MemoryOf(c)'
  BY <1>3, MemoryRemoves, MemoryCancels
<1>4. ASSUME NEW t \in Threads, ReleaseMem(t) \/ CancelCallbacks(t)  PROVE MemoryOf(c)'
  BY <1>4, MemoryReleases, MemoryReports
<1>5. ASSUME NEW t \in Threads, StartTimer(t)  PROVE MemoryOf(c)'
  <2>1. UNCHANGED <<ncmd, live, stack, cx>> /\ pc[t] # "cancel_cb"
        /\ pc'[t] # "cancel_cb" /\ \A u \in Threads \ {t} : pc'[u] = pc[u]
    BY <1>5 DEF StartTimer, queues, IndInv, TypeOK, ThreadTypes
  <2>2. Reports
    BY <2>1, ReportsAlone
  <2> QED  BY <2>1, <2>2, CallsAlone, MemoryQuiet
<1>6. CASE TimeoutIgnored \/ \E n \in Nodes : TimerFires(n)
  <2>1. UNCHANGED <<ncmd, live, pc, stack, cx>>
    BY <1>6 DEF TimeoutIgnored, TimerFires, queues, locals
  <2>2. Reports
    BY <2>1 DEF Reports, Reporting
  <2> QED  BY <2>1, <2>2, CallsAlone, MemoryQuiet
<1>7. CASE TimeoutHandled \/ \E t \in Threads : TimeoutFree(t)
  <2>1. Unreleased(c)' = Unreleased(c)
    BY <1>7, MemoryTimeouts DEF MemoryOf
  <2>2. UNCHANGED <<ncmd, live, cx>>
    BY <1>7 DEF TimeoutHandled, TimeoutFree, queues
  <2>3. PICK t \in Threads : /\ pc[t] # "cancel_cb" /\ pc'[t] # "cancel_cb"
                             /\ \A u \in Threads \ {t} : pc'[u] = pc[u]
    <3>1. CASE TimeoutHandled
      <4>1. /\ pc[SchedThread] # "cancel_cb" /\ pc'[SchedThread] # "cancel_cb"
            /\ \A u \in Threads \ {SchedThread} : pc'[u] = pc[u]
        BY <3>1, ThreadAssumption DEF TimeoutHandled, IndInv, TypeOK, ThreadTypes
      <4> QED  BY <4>1, ThreadAssumption
    <3>2. ASSUME NEW t \in Threads, TimeoutFree(t)
          PROVE  /\ pc[t] # "cancel_cb" /\ pc'[t] # "cancel_cb"
                 /\ \A u \in Threads \ {t} : pc'[u] = pc[u]
      <4>1. pc[t] # "cancel_cb" /\ Return(t, Tail(stack[t])) /\ stack[t] # <<>>
        BY <3>2 DEF TimeoutFree, IndInv, Shape, ThreadShape
      <4>2. Tail(stack[t]) \in Seq(Frames)
        BY <4>1 DEF IndInv, TypeOK, ThreadTypes
      <4> QED  BY <4>1, <4>2, ReturnShape
    <3> QED  BY <1>7, <3>1, <3>2
  <2>4. Reports
    BY <2>2, <2>3, ReportsAlone
  <2>5. Reported(c)' = Reported(c) /\ Queued(c)' = Queued(c)
    BY <2>2, <2>4, ReportedSame DEF Queued
  <2> QED  BY <2>1, <2>2, <2>5 DEF MemoryOf
<1> QED  BY <1>1, <1>2, <1>3, <1>4, <1>5, <1>6, <1>7 DEF CallStep

-----------------------------------------------------------------------------
(* References on a vdev *)

(* The commands of v, its timers, and the threads that handle one of its   *)
(* timeouts if their frames are k.                                         *)
Of(v) == {c \in Cmds : c.vdev = v}
Timed(v) == {n \in timers : ncmd[n].vdev = v}
Handles(k, t, v) == \E i \in DOMAIN k[t] : k[t][i].op = "timeout" /\ k[t][i].vdev = v
Handling(k, v) == {t \in Threads : Handles(k, t, v)}

(* RefsBalanced for v. *)
RefsOf(v) == ref[v] = Cardinality(Timed(v)) + In(msgs, Of(v)) + Cardinality(Handling(stack, v))

(* One timer is started or stopped, or the command of one node changes. *)
LEMMA TimedChange ==
  ASSUME IndInv, NEW v, NEW n \in Nodes, timers' \ {n} = timers \ {n},
         \A m \in Nodes \ {n} : ncmd'[m] = ncmd[m]
  PROVE  /\ Cardinality(Timed(v)) \in Nat /\ Cardinality(Timed(v)') \in Nat
         /\ Cardinality(Timed(v)') = Cardinality(Timed(v))
               - (IF n \in timers /\ ncmd[n].vdev = v THEN 1 ELSE 0)
               + (IF n \in timers' /\ ncmd'[n].vdev = v THEN 1 ELSE 0)
<1>1. PICK A : A = Timed(v)
  OBVIOUS
<1>2. PICK B : B = Timed(v)'
  OBVIOUS
<1>3. A \in SUBSET Nodes
  BY <1>1 DEF Timed, IndInv, TypeOK, TimerTypes
<1>4. /\ n \in A <=> n \in timers /\ ncmd[n].vdev = v
      /\ n \in B <=> n \in timers' /\ ncmd'[n].vdev = v
  BY <1>1, <1>2 DEF Timed
<1>5. A \ {n} = B \ {n}
  <2>1. timers \subseteq Nodes
    BY DEF IndInv, TypeOK, TimerTypes
  <2>2. \A m : m \in timers \ {n} => m \in Nodes \ {n} /\ ncmd'[m] = ncmd[m]
    BY <2>1
  <2>3. \A m : m \in A \ {n} <=> m \in timers \ {n} /\ ncmd[m].vdev = v
    BY <1>1 DEF Timed
  <2>4. \A m : m \in B \ {n} <=> m \in timers' \ {n} /\ ncmd'[m].vdev = v
    BY <1>2 DEF Timed
  <2>5. \A m : m \in A \ {n} <=> m \in B \ {n}
    BY <2>2, <2>3, <2>4
  <2> QED  BY <2>5
<1>6. IsFiniteSet(A)
  BY <1>3, NodeAssumption, FS_Subset
<1>7. /\ Cardinality(A) \in Nat /\ Cardinality(B) \in Nat
      /\ Cardinality(B) = Cardinality(A) - (IF n \in A THEN 1 ELSE 0)
                                         + (IF n \in B THEN 1 ELSE 0)
  BY <1>5, <1>6, SizeChange
<1> QED  BY <1>1, <1>2, <1>4, <1>7

(* A timer that is stopped with its command gives its reference back. *)
LEMMA TimedStops ==
  ASSUME IndInv, NEW v \in Vdevs, NEW n \in Nodes, ncmd[n].vdev \in Vdevs, Stopped(n),
         ncmd' = [ncmd EXCEPT ![n] = NoCmd]
  PROVE  /\ Cardinality(Timed(v)) \in Nat /\ Cardinality(Timed(v)') \in Nat
         /\ ref'[v] - Cardinality(Timed(v)') = ref[v] - Cardinality(Timed(v))
<1>1. ref \in [Vdevs -> Int] /\ ref[v] \in Int
  BY DEF IndInv, TypeOK, TimerTypes
<1>2. \A m \in Nodes \ {n} : ncmd'[m] = ncmd[m]
  OBVIOUS
<1>3. n \notin timers' /\ timers' \ {n} = timers \ {n}
  BY DEF Stopped
<1>4. /\ Cardinality(Timed(v)) \in Nat /\ Cardinality(Timed(v)') \in Nat
      /\ Cardinality(Timed(v)') = Cardinality(Timed(v))
               - (IF n \in timers /\ ncmd[n].vdev = v THEN 1 ELSE 0)
               + (IF n \in timers' /\ ncmd'[n].vdev = v THEN 1 ELSE 0)
  BY <1>2, <1>3, TimedChange
<1>5. ref'[v] = ref[v] - (IF n \in timers /\ ncmd[n].vdev = v THEN 1 ELSE 0)
  <2>1. CASE n \in timers
    <3>1. ref' = [ref EXCEPT ![ncmd[n].vdev] = ref[ncmd[n].vdev] - 1]
      BY <2>1 DEF Stopped
    <3> QED  BY <1>1, <2>1, <3>1
  <2>2. CASE n \notin timers
    BY <1>1, <2>2 DEF Stopped
  <2> QED  BY <2>1, <2>2
<1> QED  BY <1>1, <1>3, <1>4, <1>5

(* Timers that nothing happens to. *)
LEMMA TimedSame ==
  ASSUME NEW v, UNCHANGED timers, \A n \in timers : ncmd'[n] = ncmd[n]
  PROVE  Timed(v)' = Timed(v)
  BY DEF Timed

(* The frames of a timeout handler stay, come or go with those of t. *)
LEMMA HandlingChange ==
  ASSUME NEW v, NEW t \in Threads,
         \A u \in Threads \ {t} : Handles(stack', u, v) <=> Handles(stack, u, v)
  PROVE  /\ Cardinality(Handling(stack, v)) \in Nat /\ Cardinality(Handling(stack', v)) \in Nat
         /\ Cardinality(Handling(stack', v)) = Cardinality(Handling(stack, v))
               - (IF Handles(stack, t, v) THEN 1 ELSE 0)
               + (IF Handles(stack', t, v) THEN 1 ELSE 0)
<1>1. PICK A : A = Handling(stack, v)
  OBVIOUS
<1>2. PICK B : B = Handling(stack', v)
  OBVIOUS
<1>3. /\ A \in SUBSET Threads /\ A \ {t} = B \ {t} /\ (t \in A <=> Handles(stack, t, v))
      /\ (t \in B <=> Handles(stack', t, v))
  BY <1>1, <1>2 DEF Handling
<1>4. IsFiniteSet(A)
  BY <1>3, ThreadAssumption, FS_Subset
<1>5. /\ Cardinality(A) \in Nat /\ Cardinality(B) \in Nat
      /\ Cardinality(B) = Cardinality(A) - (IF t \in A THEN 1 ELSE 0)
                                         + (IF t \in B THEN 1 ELSE 0)
  BY <1>3, <1>4, SizeChange
<1> QED  BY <1>1, <1>2, <1>3, <1>5

(* Calls that stay what they are handle the timeouts they handled. *)
LEMMA HandlingSame ==
  ASSUME IndInv, IndInv', NEW v, \A u \in Threads : SameCalls(u)
  PROVE  Handling(stack', v) = Handling(stack, v)
<1>1. ASSUME NEW u \in Threads  PROVE Handles(stack', u, v) <=> Handles(stack, u, v)
  <2>1. PICK s \in Seq(Frames) : s = stack[u]
    BY DEF IndInv, TypeOK, ThreadTypes
  <2>2. PICK r \in Seq(Frames) : r = stack'[u]
    BY DEF IndInv, TypeOK, ThreadTypes
  <2>3. DOMAIN r = DOMAIN s /\ \A i \in DOMAIN s : r[i].op = s[i].op /\ r[i].vdev = s[i].vdev
    BY <2>1, <2>2 DEF SameCalls, SameCall
  <2> QED  BY <2>1, <2>2, <2>3 DEF Handles
<1> QED  BY <1>1 DEF Handling

(* A call of dequeue_cmd comes on top of those that t is in. *)
LEMMA HandlingPush ==
  ASSUME IndInv, NEW v, NEW t \in Threads, NEW n, Removes(t, n)
  PROVE  Handling(stack', v) = Handling(stack, v)
<1>1. PICK f : f = [op |-> "move", vdev |-> ncmd[n].vdev, cmd |-> ncmd[n],
                    blk |-> ncmd[n].is_blocking, vlookup |-> FALSE]
  OBVIOUS
<1>2. n \in Elems(pact) /\ ncmd[n] \in Cmds
  BY ListedCmds DEF Removes
<1>3. f \in Frames /\ f.op = "move"
  BY <1>1, <1>2, CmdTypes DEF Frames
<1>4. PICK s \in Seq(Frames) : s = stack[t]
  BY DEF IndInv, TypeOK, ThreadTypes
<1>5. PICK r : r = <<f>> \o s
  OBVIOUS
<1>6. /\ Len(r) = Len(s) + 1 /\ r[1] = f /\ r \in Seq(Frames)
      /\ \A i \in 2..Len(r) : i - 1 \in 1..Len(s) /\ r[i] = s[i - 1]
  BY <1>3, <1>5, PushFrames
<1>7. stack'[t] = r /\ \A u \in Threads \ {t} : stack'[u] = stack[u]
  BY <1>1, <1>4, <1>5 DEF Removes, IndInv, TypeOK, ThreadTypes
<1>8. \A i \in DOMAIN r : r[i].op = "timeout" => i - 1 \in DOMAIN s /\ r[i] = s[i - 1]
  BY <1>3, <1>6
<1>9. \A i \in DOMAIN s : i + 1 \in DOMAIN r /\ r[i + 1] = s[i]
  <2> TAKE i \in DOMAIN s
  <2>1. i + 1 \in 2..Len(r) /\ i + 1 - 1 = i /\ i + 1 \in DOMAIN r
    BY <1>6
  <2> QED  BY <1>6, <2>1
<1>10. Handles(stack', t, v) <=> Handles(stack, t, v)
  BY <1>4, <1>7, <1>8, <1>9 DEF Handles
<1>11. \A u \in Threads : Handles(stack', u, v) <=> Handles(stack, u, v)
  BY <1>7, <1>10 DEF Handles
<1> QED  BY <1>11 DEF Handling

(* A call returns: if it is the handler of a timeout, it was the only one. *)
LEMMA HandlingPop ==
  ASSUME IndInv, NEW v, NEW t \in Threads, stack[t] # <<>>, StackOf(t), Return(t, Tail(stack[t]))
  PROVE  /\ \A u \in Threads \ {t} : Handles(stack', u, v) <=> Handles(stack, u, v)
         /\ Top(t).op = "move" => (Handles(stack', t, v) <=> Handles(stack, t, v))
         /\ Top(t).op = "timeout" => /\ Handles(stack, t, v) <=> Top(t).vdev = v
                                     /\ ~Handles(stack', t, v)
<1>1. PICK s \in Seq(Frames) : s = stack[t] /\ s # <<>>
  BY DEF IndInv, TypeOK, ThreadTypes
<1>2. PICK r : r = Tail(s)
  OBVIOUS
<1>3. /\ r \in Seq(Frames) /\ Len(s) \in Nat \ {0} /\ Len(r) = Len(s) - 1 /\ Head(s) = s[1]
      /\ \A i \in 1..Len(r) : i + 1 \in 1..Len(s) /\ r[i] = s[i + 1]
  BY <1>1, <1>2, PopFrames
<1>4. stack'[t] = r /\ \A u \in Threads \ {t} : stack'[u] = stack[u]
  BY <1>1, <1>2 DEF Return, IndInv, TypeOK, ThreadTypes
<1>5. \A u \in Threads \ {t} : Handles(stack', u, v) <=> Handles(stack, u, v)
  BY <1>4 DEF Handles
<1>6. \A i \in DOMAIN r : i + 1 \in DOMAIN s /\ r[i] = s[i + 1]
  BY <1>3
<1>7. \A i \in DOMAIN s : i = 1 \/ (i - 1 \in DOMAIN r /\ s[i] = r[i - 1])
  <2> TAKE i \in DOMAIN s
  <2>1. i # 1 => i - 1 \in 1..Len(r) /\ i - 1 + 1 = i /\ i - 1 \in DOMAIN r
    BY <1>3
  <2> QED  BY <1>3, <2>1
<1>8. ASSUME Top(t).op = "move"  PROVE Handles(stack', t, v) <=> Handles(stack, t, v)
  <2>1. s[1].op # "timeout"
    BY <1>1, <1>3, <1>8 DEF Top
  <2>2. ASSUME Handles(stack', t, v)  PROVE Handles(stack, t, v)
    <3>1. PICK i \in DOMAIN r : r[i].op = "timeout" /\ r[i].vdev = v
      BY <1>4, <2>2 DEF Handles
    <3> QED  BY <1>1, <1>6, <3>1 DEF Handles
  <2>3. ASSUME Handles(stack, t, v)  PROVE Handles(stack', t, v)
    <3>1. PICK i \in DOMAIN s : s[i].op = "timeout" /\ s[i].vdev = v
      BY <1>1, <2>3 DEF Handles
    <3>2. i - 1 \in DOMAIN r /\ s[i] = r[i - 1]
      BY <1>7, <2>1, <3>1
    <3> QED  BY <1>4, <3>1, <3>2 DEF Handles
  <2> QED  BY <2>2, <2>3
<1>9. ASSUME Top(t).op = "timeout"
      PROVE  (Handles(stack, t, v) <=> Top(t).vdev = v) /\ ~Handles(stack', t, v)
  <2>1. s[1].op = "timeout" /\ 1 \in DOMAIN s
    BY <1>1, <1>3, <1>9 DEF Top
  <2>2. Len(s) = 1
    BY <1>1, <2>1 DEF StackOf
  <2>3. DOMAIN s = {1} /\ DOMAIN r = {}
    BY <1>3, <2>2
  <2> QED  BY <1>1, <1>3, <1>4, <2>1, <2>3 DEF Handles, Top
<1> QED  BY <1>5, <1>8, <1>9

(* The number of messages for v, and what a step adds to it. *)
LEMMA PostedType ==
  ASSUME IndInv, NEW v
  PROVE  In(msgs, Of(v)) \in Nat
  BY InType DEF IndInv, TypeOK, TimerTypes

(* The references on a vdev stay balanced. *)
LEMMA RefsStep ==
  ASSUME IndInv, IndInv', TimersStarted, Stacks, CallStep, NEW v \in Vdevs, RefsOf(v)
  PROVE  RefsOf(v)'
<1>0. /\ ref \in [Vdevs -> Int] /\ ref[v] \in Int /\ timers \subseteq Nodes /\ armed \subseteq timers
      /\ msgs \in Seq(Cmds) /\ timers \subseteq Elems(pact)
  BY DEF IndInv, TypeOK, TimerTypes, TimersListed
<1>1. /\ Cardinality(Handling(stack, v)) \in Nat /\ In(msgs, Of(v)) \in Nat
      /\ Cardinality(Timed(v)) \in Nat
  <2>1. Handling(stack, v) \in SUBSET Threads
    BY DEF Handling
  <2>2. Timed(v) \in SUBSET Nodes
    BY <1>0 DEF Timed
  <2>3. Cardinality(Handling(stack, v)) \in Nat
    BY <2>1, ThreadAssumption, FS_Subset, FS_CardinalityType
  <2>4. Cardinality(Timed(v)) \in Nat
    BY <2>2, NodeAssumption, FS_Subset, FS_CardinalityType
  <2> QED  BY <2>3, <2>4, PostedType
<1>2. ref[v] = Cardinality(Timed(v)) + In(msgs, Of(v)) + Cardinality(Handling(stack, v))
  BY DEF RefsOf
<1>3. RefsOf(v)' <=> ref'[v] = Cardinality(Timed(v)') + In(msgs', Of(v))
                             + Cardinality(Handling(stack', v))
  BY DEF RefsOf, Handling, Handles, Of
<1>4. \A n \in timers : ncmd[n] \in Cmds /\ ncmd[n].vdev \in Vdevs /\ n \in Nodes /\ n \notin pool
  BY <1>0, ListedCmds
<1>5. ASSUME UNCHANGED <<timers, ref, msgs>>, \A n \in timers : ncmd'[n] = ncmd[n],
             Handling(stack', v) = Handling(stack, v)
      PROVE  RefsOf(v)'
  BY <1>2, <1>3, <1>5, TimedSame
<1>6. CASE Quiet
  BY <1>5, <1>6, HandlingSame DEF Quiet
<1>7. ASSUME NEW c \in Cmds, NEW n \in Nodes, Accepts(c, n)  PROVE RefsOf(v)'
  <2>1. \A m \in timers : ncmd'[m] = ncmd[m]
    BY <1>4, <1>7 DEF Accepts, IndInv, TypeOK, ListTypes
  <2> QED  BY <1>5, <1>7, <2>1, CallsAlone, HandlingSame DEF Accepts
<1>8. ASSUME NEW n \in Nodes, ncmd[n].vdev \in Vdevs, Stopped(n),
             ncmd' = [ncmd EXCEPT ![n] = NoCmd], UNCHANGED msgs,
             Handling(stack', v) = Handling(stack, v)
      PROVE  RefsOf(v)'
  <2>1. /\ Cardinality(Timed(v)') \in Nat
        /\ ref'[v] - Cardinality(Timed(v)') = ref[v] - Cardinality(Timed(v))
    BY <1>8, TimedStops
  <2>2. ref'[v] \in Int
    BY DEF IndInv, TypeOK, TimerTypes
  <2>3. In(msgs', Of(v)) = In(msgs, Of(v))
    BY <1>8
  <2>4. PICK b : b = Cardinality(Timed(v)')
    OBVIOUS
  <2>5. PICK r : r = ref'[v]
    OBVIOUS
  <2>6. b \in Nat /\ r \in Int /\ r - b = ref[v] - Cardinality(Timed(v))
    BY <2>1, <2>2, <2>4, <2>5
  <2>7. r = b + In(msgs, Of(v)) + Cardinality(Handling(stack, v))
    BY <1>1, <1>2, <2>6
  <2> QED  BY <1>3, <1>8, <2>3, <2>4, <2>5, <2>7
<1>9. ASSUME NEW t \in Threads, NEW n \in Nodes, Removes(t, n)  PROVE RefsOf(v)'
  <2>1. n \in Elems(pact) /\ Stopped(n) /\ ncmd' = [ncmd EXCEPT ![n] = NoCmd] /\ UNCHANGED msgs
    BY <1>9 DEF Removes
  <2>2. ncmd[n].vdev \in Vdevs
    BY <2>1, ListedCmds
  <2> QED  BY <1>8, <1>9, <2>1, <2>2, HandlingPush
<1>10. ASSUME NEW t \in Threads, NEW n \in Nodes, CancelsOne(t, n)  PROVE RefsOf(v)'
  <2>1. /\ n \in Elems(pact) \cup Elems(ppend) /\ ncmd' = [ncmd EXCEPT ![n] = NoCmd]
        /\ UNCHANGED <<msgs, stack>>
    BY <1>10 DEF CancelsOne
  <2>2. ncmd[n].vdev \in Vdevs
    BY <2>1, ListedCmds
  <2>3. Stopped(n)
    BY <1>0, <1>10 DEF CancelsOne, Stopped, IndInv, NodesAccounted
  <2> QED  BY <1>8, <2>1, <2>2, <2>3, CallsAlone, HandlingSame
<1>11. ASSUME NEW t \in Threads, StartTimer(t)  PROVE RefsOf(v)'
  <2>1. PICK n : n = node[t]
    OBVIOUS
  <2>2. /\ pc[t] = "start_timer" /\ timers' = timers \cup {n} /\ UNCHANGED <<ncmd, msgs, stack>>
        /\ ref' = [ref EXCEPT ![ncmd[n].vdev] = ref[ncmd[n].vdev] + 1]
    BY <1>11, <2>1 DEF StartTimer, queues
  <2>3. n \notin timers /\ n \in Elems(pact)
    BY <2>1, <2>2 DEF TimersStarted, IndInv, ActivationPinned, ActivationPCs
  <2>4. ncmd[n].vdev \in Vdevs /\ n \in Nodes
    BY <2>3, ListedCmds
  <2>5. timers' \ {n} = timers \ {n} /\ n \in timers' /\ \A m \in Nodes \ {n} : ncmd'[m] = ncmd[m]
    BY <2>2
  <2>6. /\ Cardinality(Timed(v)) \in Nat /\ Cardinality(Timed(v)') \in Nat
        /\ Cardinality(Timed(v)') = Cardinality(Timed(v))
               - (IF n \in timers /\ ncmd[n].vdev = v THEN 1 ELSE 0)
               + (IF n \in timers' /\ ncmd'[n].vdev = v THEN 1 ELSE 0)
    BY <2>4, <2>5, TimedChange
  <2>7. Cardinality(Timed(v)') = Cardinality(Timed(v)) + (IF ncmd[n].vdev = v THEN 1 ELSE 0)
    BY <2>2, <2>3, <2>5, <2>6
  <2>8. ref'[v] = ref[v] + (IF ncmd[n].vdev = v THEN 1 ELSE 0)
    BY <1>0, <2>2, <2>4
  <2>9. Handling(stack', v) = Handling(stack, v)
    BY <2>2, CallsAlone, HandlingSame
  <2> QED  BY <1>0, <1>1, <1>2, <1>3, <2>2, <2>7, <2>8, <2>9
<1>12. ASSUME NEW t \in Threads, ReleaseMem(t)  PROVE RefsOf(v)'
  <2>1. /\ stack[t] # <<>> /\ Return(t, Tail(stack[t])) /\ stack[t][1].op = "move"
        /\ UNCHANGED <<timers, ref, msgs, ncmd>>
    BY <1>12 DEF ReleaseMem, IndInv, Shape, ThreadShape, Stacks, StackOf, queues, timing
  <2>2. Top(t).op = "move"
    BY <2>1 DEF Top, IndInv, TypeOK, ThreadTypes
  <2>3. \A u \in Threads : Handles(stack', u, v) <=> Handles(stack, u, v)
    BY <2>1, <2>2, HandlingPop DEF Stacks
  <2>4. Handling(stack', v) = Handling(stack, v)
    BY <2>3 DEF Handling
  <2> QED  BY <1>5, <2>1, <2>4
<1>13. ASSUME NEW t \in Threads, CancelCallbacks(t)  PROVE RefsOf(v)'
  <2>1. UNCHANGED <<timers, ref, msgs, ncmd, stack>>
    BY <1>13 DEF CancelCallbacks, queues, timing
  <2> QED  BY <1>5, <2>1, CallsAlone, HandlingSame
<1>14. ASSUME NEW t \in Threads, TimeoutFree(t)  PROVE RefsOf(v)'
  <2>1. /\ stack[t] # <<>> /\ Return(t, Tail(stack[t])) /\ stack[t][1].op = "timeout"
        /\ UNCHANGED <<timers, msgs, ncmd>>
        /\ ref' = [ref EXCEPT ![Top(t).vdev] = ref[Top(t).vdev] - 1]
    BY <1>14 DEF TimeoutFree, IndInv, Shape, ThreadShape, Stacks, StackOf, queues
  <2>2. Top(t).op = "timeout" /\ Top(t).vdev \in Vdevs
    <3>1. stack[t] \in Seq(Frames)
      BY DEF IndInv, TypeOK, ThreadTypes
    <3>2. Top(t) = stack[t][1] /\ Top(t) \in Frames
      BY <2>1, <3>1 DEF Top
    <3> QED  BY <2>1, <3>2 DEF Frames
  <2>3. /\ \A u \in Threads \ {t} : Handles(stack', u, v) <=> Handles(stack, u, v)
        /\ Handles(stack, t, v) <=> Top(t).vdev = v
        /\ ~Handles(stack', t, v)
    BY <2>1, <2>2, HandlingPop DEF Stacks
  <2>4. /\ Cardinality(Handling(stack', v)) \in Nat
        /\ Cardinality(Handling(stack', v)) = Cardinality(Handling(stack, v))
               - (IF Handles(stack, t, v) THEN 1 ELSE 0)
               + (IF Handles(stack', t, v) THEN 1 ELSE 0)
    BY <2>3, HandlingChange
  <2>5. Cardinality(Handling(stack', v)) = Cardinality(Handling(stack, v))
               - (IF Top(t).vdev = v THEN 1 ELSE 0)
    BY <1>1, <2>3, <2>4
  <2>6. ref'[v] = ref[v] - (IF Top(t).vdev = v THEN 1 ELSE 0)
    BY <1>0, <2>1, <2>2
  <2>7. Timed(v)' = Timed(v)
    BY <2>1, TimedSame
  <2> QED  BY <1>0, <1>1, <1>2, <1>3, <2>1, <2>4, <2>5, <2>6, <2>7
<1>15. ASSUME NEW n \in Nodes, TimerFires(n)  PROVE RefsOf(v)'
  <2>1. PICK c : c = ncmd[n]
    OBVIOUS
  <2>2. /\ n \in timers /\ msgs' = Append(msgs, c) /\ UNCHANGED <<timers, ncmd, stack>>
        /\ ref' = [ref EXCEPT ![c.vdev] = ref[c.vdev] + 1]
    BY <1>0, <1>15, <2>1 DEF TimerFires, queues, locals
  <2>3. c \in Cmds /\ c.vdev \in Vdevs
    BY <1>4, <2>1, <2>2
  <2>4. In(msgs', Of(v)) = In(msgs, Of(v)) + (IF c \in Of(v) THEN 1 ELSE 0)
    BY <1>0, <2>2, <2>3, InAppend
  <2>5. c \in Of(v) <=> c.vdev = v
    BY <2>3 DEF Of
  <2>6. ref'[v] = ref[v] + (IF c.vdev = v THEN 1 ELSE 0)
    BY <1>0, <2>2, <2>3
  <2>7. Timed(v)' = Timed(v) /\ Handling(stack', v) = Handling(stack, v)
    BY <2>2, TimedSame, CallsAlone, HandlingSame
  <2> QED  BY <1>0, <1>1, <1>2, <1>3, <2>4, <2>5, <2>6, <2>7
<1>16. ASSUME msgs # <<>>, msgs' = Tail(msgs), UNCHANGED <<timers, ncmd>>
       PROVE  /\ Head(msgs) \in Cmds /\ Head(msgs).vdev \in Vdevs /\ Timed(v)' = Timed(v)
              /\ In(msgs', Of(v)) = In(msgs, Of(v)) - (IF Head(msgs).vdev = v THEN 1 ELSE 0)
  <2>1. Head(msgs) \in Cmds
    BY <1>0, <1>16
  <2>2. Head(msgs).vdev \in Vdevs /\ (Head(msgs) \in Of(v) <=> Head(msgs).vdev = v)
    BY <2>1, CmdTypes DEF Of
  <2>3. In(msgs', Of(v)) = In(msgs, Of(v)) - (IF Head(msgs) \in Of(v) THEN 1 ELSE 0)
    BY <1>0, <1>16, InTail
  <2> QED  BY <1>16, <2>1, <2>2, <2>3, TimedSame
<1>17. CASE TimeoutIgnored
  <2>1. PICK c : c = Head(msgs)
    OBVIOUS
  <2>2. /\ msgs # <<>> /\ msgs' = Tail(msgs) /\ UNCHANGED <<timers, ncmd, stack>>
        /\ ref' = [ref EXCEPT ![c.vdev] = ref[c.vdev] - 1]
    BY <1>17, <2>1 DEF TimeoutIgnored, queues, locals
  <2>3. /\ c.vdev \in Vdevs /\ Timed(v)' = Timed(v)
        /\ In(msgs', Of(v)) = In(msgs, Of(v)) - (IF c.vdev = v THEN 1 ELSE 0)
    BY <1>16, <2>1, <2>2
  <2>4. ref'[v] = ref[v] - (IF c.vdev = v THEN 1 ELSE 0)
    BY <1>0, <2>2, <2>3
  <2>5. Handling(stack', v) = Handling(stack, v)
    BY <2>2, CallsAlone, HandlingSame
  <2> QED  BY <1>0, <1>1, <1>2, <1>3, <2>3, <2>4, <2>5
<1>18. CASE TimeoutHandled
  <2>1. PICK c : c = Head(msgs)
    OBVIOUS
  <2>2. PICK f : f = [op |-> "timeout", vdev |-> c.vdev, cmd |-> c, blk |-> FALSE,
                      vlookup |-> FALSE]
    OBVIOUS
  <2>3. /\ msgs # <<>> /\ msgs' = Tail(msgs) /\ UNCHANGED <<timers, ncmd, ref>>
        /\ pc[SchedThread] = "idle" /\ stack' = [stack EXCEPT ![SchedThread] = <<f>>]
    BY <1>18, <2>1, <2>2 DEF TimeoutHandled, queues
  <2>4. /\ c.vdev \in Vdevs /\ Timed(v)' = Timed(v)
        /\ In(msgs', Of(v)) = In(msgs, Of(v)) - (IF c.vdev = v THEN 1 ELSE 0)
    BY <1>16, <2>1, <2>3
  <2>5. stack[SchedThread] = <<>> /\ stack'[SchedThread] = <<f>>
        /\ \A u \in Threads \ {SchedThread} : stack'[u] = stack[u]
    BY <2>3, ThreadAssumption DEF Stacks, StackOf, IndInv, TypeOK, ThreadTypes
  <2>6. /\ ~Handles(stack, SchedThread, v) /\ (Handles(stack', SchedThread, v) <=> c.vdev = v)
        /\ \A u \in Threads \ {SchedThread} : Handles(stack', u, v) <=> Handles(stack, u, v)
    <3>1. f.op = "timeout" /\ f.vdev = c.vdev /\ DOMAIN <<f>> = {1} /\ <<f>>[1] = f
      BY <2>2
    <3> QED  BY <2>5, <3>1 DEF Handles
  <2>7. /\ Cardinality(Handling(stack', v)) \in Nat
        /\ Cardinality(Handling(stack', v)) = Cardinality(Handling(stack, v))
               - (IF Handles(stack, SchedThread, v) THEN 1 ELSE 0)
               + (IF Handles(stack', SchedThread, v) THEN 1 ELSE 0)
    BY <2>6, ThreadAssumption, HandlingChange
  <2>8. Cardinality(Handling(stack', v)) = Cardinality(Handling(stack, v))
               + (IF c.vdev = v THEN 1 ELSE 0)
    BY <1>1, <2>6, <2>7
  <2> QED  BY <1>0, <1>1, <1>2, <1>3, <2>3, <2>4, <2>8
<1> QED  BY <1>6, <1>7, <1>9, <1>10, <1>11, <1>12, <1>13, <1>14, <1>15, <1>17, <1>18 DEF CallStep

-----------------------------------------------------------------------------
(* The theorems *)

CallInv == Stacks /\ (\A c \in Cmds : MemoryOf(c)) /\ (\A v \in Vdevs : RefsOf(v))

(* No call is in progress, nothing is counted. *)
LEMMA CallsInitially ==
  ASSUME Init
  PROVE  CallInv
<1>0. /\ ncmd = [n \in Nodes |-> NoCmd] /\ timers = {} /\ ref = [v \in Vdevs |-> 0]
      /\ msgs = <<>> /\ pc = [t \in Threads |-> "idle"] /\ stack = [t \in Threads |-> <<>>]
      /\ live = [c \in Cmds |-> 0]
  BY DEF Init
<1>1. Stacks
  BY <1>0 DEF Stacks, StackOf
<1>2. ASSUME NEW c \in Cmds  PROVE MemoryOf(c)
  <2>1. Queued(c) = {} /\ Reported(c) = {}
    BY <1>0, CmdTypes DEF Queued, Reported, Reporting
  <2>2. \A t \in Threads : DOMAIN stack[t] = {}
    BY <1>0
  <2>3. \A t \in Threads : \A d : ~Owes(stack, t, d, c)
    BY <2>2 DEF Owes
  <2>4. Owed(stack, c) = {}
    BY <2>3, OwedIs
  <2>5. Unreleased(c) = {}
    BY <2>4, UnreleasedOwed
  <2> QED  BY <1>0, <2>1, <2>5, FS_EmptySet DEF MemoryOf
<1>3. ASSUME NEW v \in Vdevs  PROVE RefsOf(v)
  <2>1. Timed(v) = {}
    BY <1>0 DEF Timed
  <2>2. Handling(stack, v) = {}
    BY <1>0 DEF Handling, Handles
  <2>3. In(msgs, Of(v)) = 0
    BY <1>0, InEmpty
  <2>4. ref[v] = 0 /\ Cardinality({}) = 0
    BY <1>0, FS_EmptySet
  <2>5. Cardinality(Timed(v)) = 0 /\ Cardinality(Handling(stack, v)) = 0
    BY <2>1, <2>2, <2>4
  <2> QED  BY <2>3, <2>4, <2>5 DEF RefsOf
<1> QED  BY <1>1, <1>2, <1>3 DEF CallInv

(* CallInv is preserved by every step. *)
LEMMA CallsPreserved ==
  ASSUME IndInv, QueueInv, CallInv, [Next]_vars
  PROVE  CallInv'
<1>1. IndInv' /\ CallStep /\ TimersStarted /\ Stacks
  BY Preserved, CallEffects DEF QueueInv, CallInv
<1>2. Stacks'
  BY <1>1, StacksStep
<1>3. \A c \in Cmds : MemoryOf(c)'
  BY <1>1, MemoryStep DEF CallInv
<1>4. \A v \in Vdevs : RefsOf(v)'
  BY <1>1, RefsStep DEF CallInv
<1> QED  BY <1>2, <1>3, <1>4 DEF CallInv

(* The invariant of which the theorems below are parts: the frames of a    *)
(* thread, and what every command and every vdev is owed.                  *)
THEOREM CallsInductive == Spec => [](IndInv /\ QueueInv /\ CallInv)
<1>1. IndInv /\ QueueInv /\ CallInv /\ [Next]_vars => (IndInv /\ QueueInv /\ CallInv)'
  BY Preserved, QueuesPreserved, CallsPreserved
<1>2. Init => IndInv /\ QueueInv /\ CallInv
  BY Initially, QueuesInitially, CallsInitially
<1> QED  BY <1>1, <1>2, PTL DEF Spec

(* The RELEASE_MEM callback of an accepted request is made exactly once:   *)
(* by the dequeue or the cancel that took the command off its list.        *)
THEOREM MemoryReleasedOnce == Spec => []MemoryAccounted
<1>1. CallInv => MemoryAccounted
  BY DEF CallInv, MemoryOf, MemoryAccounted, Queued, Reported, Reporting
<1> QED  BY <1>1, CallsInductive, PTL

(* The references held on a vdev are those of its timers, of its posted    *)
(* timeouts and of the timeout being handled: none leaks, none is dropped  *)
(* twice.                                                                  *)
THEOREM ReferencesBalanced == Spec => []RefsBalanced
<1>1. ASSUME IndInv, CallInv  PROVE RefsBalanced
  <2>1. ASSUME NEW v \in Vdevs
        PROVE  {i \in DOMAIN msgs : msgs[i].vdev = v} = {i \in DOMAIN msgs : msgs[i] \in Of(v)}
    <3>1. PICK s \in Seq(Cmds) : s = msgs
      BY <1>1 DEF IndInv, TypeOK, TimerTypes
    <3>2. \A i \in DOMAIN s : s[i] \in Cmds
      OBVIOUS
    <3> QED  BY <3>1, <3>2 DEF Of
  <2> QED  BY <1>1, <2>1 DEF CallInv, RefsOf, RefsBalanced, Timed, In, Handling, Handles
<1>2. IndInv /\ CallInv => RefsBalanced
  BY <1>1
<1> QED  BY <1>2, CallsInductive, PTL

-----------------------------------------------------------------------------
(* Without blocking commands and cancels nobody who waits is forgotten *)

Unblocked == Cancels = {} /\ \A c \in Cmds : ~c.is_blocking

NoBlocking == bact = FALSE /\ bwait = 0
NoMarks == \A n \in Nodes : MOVE \notin flags[n] /\ CANCEL \notin flags[n]
NotCancelling(t) == pc[t] \notin {"cancel", "cancel_cb"}

(* Every call of t moves commands of its own vdev only, and of these one:  *)
(* its frame says so from the moment it has moved one.                     *)
MovesOwn(t) == \A i \in DOMAIN stack[t] : stack[t][i].op = "move" =>
  /\ ~stack[t][i].blk
  /\ stack[t][i].vlookup \/ (i = 1 /\ pc[t] \in {"move", "release"})

Unattended(v) == vpend[v] # <<>> /\ v \notin bitmap
Attends(t, v) == pc[t] = "move" /\ Top(t).vdev = v

WakeInv == /\ NoBlocking /\ NoMarks /\ \A t \in Threads : NotCancelling(t) /\ MovesOwn(t)
           /\ \A v \in Vdevs : Unattended(v) => \E t \in Threads : Attends(t, v)

(* A step of no thread. *)
LEMMA WakeAround ==
  ASSUME WakeInv, UNCHANGED <<pc, stack>>, NoBlocking', NoMarks',
         \A v \in Vdevs : Unattended(v)' => Unattended(v)
  PROVE  WakeInv'
<1>1. \A t \in Threads : NotCancelling(t)' /\ MovesOwn(t)'
  BY DEF WakeInv, NotCancelling, MovesOwn
<1>2. \A t \in Threads : \A v : Attends(t, v) => Attends(t, v)'
  BY DEF Attends, Top
<1> QED  BY <1>1, <1>2 DEF WakeInv

(* A step of t. *)
LEMMA WakeThread ==
  ASSUME WakeInv, NEW t \in Threads, NoBlocking', NoMarks', NotCancelling(t)', MovesOwn(t)',
         \A u \in Threads \ {t} : pc'[u] = pc[u] /\ stack'[u] = stack[u],
         \A v \in Vdevs : Unattended(v)' =>
            Attends(t, v)' \/ (Unattended(v) /\ ~Attends(t, v))
  PROVE  WakeInv'
<1>1. \A u \in Threads \ {t} : NotCancelling(u)' /\ MovesOwn(u)'
  BY DEF WakeInv, NotCancelling, MovesOwn
<1>2. \A u \in Threads \ {t} : \A v : Attends(u, v) => Attends(u, v)'
  BY DEF Attends, Top
<1>3. ASSUME NEW v \in Vdevs, Unattended(v)'  PROVE \E u \in Threads : Attends(u, v)'
  BY <1>2, <1>3 DEF WakeInv
<1> QED  BY <1>1, <1>3 DEF WakeInv

(* A thread that goes on in the calls it is in. *)
LEMMA WakeAlong ==
  ASSUME IndInv, WakeInv, NEW t \in Threads, UNCHANGED <<stack, vpend, bitmap>>,
         NoBlocking', NoMarks', pc[t] \notin {"move", "release"},
         pc'[t] \notin {"move", "cancel", "cancel_cb"}, \A u \in Threads \ {t} : pc'[u] = pc[u]
  PROVE  WakeInv'
<1>1. NotCancelling(t)' /\ MovesOwn(t)'
  BY DEF WakeInv, NotCancelling, MovesOwn
<1>2. \A v \in Vdevs : Unattended(v)' => Unattended(v) /\ ~Attends(t, v)
  BY DEF Unattended, Attends
<1> QED  BY <1>1, <1>2, WakeThread

(* A call that is over. *)
LEMMA WakePop ==
  ASSUME IndInv, WakeInv, NEW t \in Threads, UNCHANGED <<vpend, bitmap>>,
         NoBlocking', NoMarks', pc[t] # "move", stack[t] # <<>>, Return(t, Tail(stack[t]))
  PROVE  WakeInv'
<1>1. PICK s \in Seq(Frames) : s = stack[t] /\ s # <<>>
  BY DEF IndInv, TypeOK, ThreadTypes
<1>2. PICK r : r = Tail(s)
  OBVIOUS
<1>3. /\ r \in Seq(Frames) /\ Len(s) \in Nat \ {0} /\ Len(r) = Len(s) - 1
      /\ \A i \in 1..Len(r) : i + 1 \in 1..Len(s) /\ r[i] = s[i + 1]
  BY <1>1, <1>2, PopFrames
<1>4. stack'[t] = r /\ \A u \in Threads \ {t} : stack'[u] = stack[u]
  BY <1>1, <1>2 DEF Return, IndInv, TypeOK, ThreadTypes
<1>5. pc'[t] \in {"idle", "move_resume", "timeout_free"} /\ \A u \in Threads \ {t} : pc'[u] = pc[u]
  BY <1>1, <1>2, <1>3, ReturnShape
<1>6. \A i \in DOMAIN r : i + 1 \in DOMAIN s /\ r[i] = s[i + 1] /\ i + 1 # 1
  BY <1>3
<1>7. \A j \in DOMAIN s : (s[j].op = "move" /\ j # 1) => ~s[j].blk /\ s[j].vlookup
  BY <1>1 DEF WakeInv, MovesOwn
<1>8. \A i \in DOMAIN r : r[i].op = "move" => ~r[i].blk /\ r[i].vlookup
  BY <1>6, <1>7
<1>9. NotCancelling(t)' /\ MovesOwn(t)'
  BY <1>4, <1>5, <1>8 DEF NotCancelling, MovesOwn
<1>10. \A v \in Vdevs : Unattended(v)' => Unattended(v) /\ ~Attends(t, v)
  BY DEF Unattended, Attends
<1> QED  BY <1>4, <1>5, <1>9, <1>10, WakeThread

(* A vdev is only left with waiting commands and none active by a dequeue  *)
(* that is about to look at them.                                          *)
LEMMA WakePush ==
  ASSUME IndInv, WakeInv, Unblocked, NEW t \in Threads, NEW n, Removes(t, n), bact' = FALSE,
         UNCHANGED <<bwait, vpend>>, NoMarks', bitmap' = bitmap \ {ncmd[n].vdev}
  PROVE  WakeInv'
<1>1. PICK f : f = [op |-> "move", vdev |-> ncmd[n].vdev, cmd |-> ncmd[n],
                    blk |-> ncmd[n].is_blocking, vlookup |-> FALSE]
  OBVIOUS
<1>2. n \in Elems(pact) /\ ncmd[n] \in Cmds
  BY ListedCmds DEF Removes
<1>3. f \in Frames /\ f.vdev = ncmd[n].vdev /\ ~f.blk
  BY <1>1, <1>2, CmdTypes DEF Frames, Unblocked
<1>4. PICK s \in Seq(Frames) : s = stack[t]
  BY DEF IndInv, TypeOK, ThreadTypes
<1>5. PICK r : r = <<f>> \o s
  OBVIOUS
<1>6. /\ r # <<>> /\ Len(r) = Len(s) + 1 /\ r[1] = f /\ r \in Seq(Frames)
      /\ \A i \in 2..Len(r) : i - 1 \in 1..Len(s) /\ r[i] = s[i - 1]
  BY <1>3, <1>5, PushFrames
<1>7. /\ stack'[t] = r /\ pc'[t] = "move" /\ pc[t] \in {"idle", "dequeue"}
      /\ \A u \in Threads \ {t} : pc'[u] = pc[u] /\ stack'[u] = stack[u]
  BY <1>1, <1>4, <1>5 DEF Removes, IndInv, TypeOK, ThreadTypes
<1>8. \A i \in DOMAIN s : s[i].op = "move" => ~s[i].blk /\ s[i].vlookup
  BY <1>4, <1>7 DEF WakeInv, MovesOwn
<1>9. \A i \in DOMAIN r : i = 1 \/ (i - 1 \in DOMAIN s /\ r[i] = s[i - 1])
  BY <1>6
<1>10. \A i \in DOMAIN r : r[i].op = "move" => ~r[i].blk /\ (r[i].vlookup \/ i = 1)
  BY <1>3, <1>6, <1>8, <1>9
<1>11. NotCancelling(t)' /\ MovesOwn(t)'
  BY <1>7, <1>10 DEF NotCancelling, MovesOwn
<1>12. Head(r) = f
  BY <1>6
<1>13. \A v \in Vdevs : Unattended(v)' => Attends(t, v)' \/ (Unattended(v) /\ ~Attends(t, v))
  BY <1>3, <1>7, <1>12 DEF Unattended, Attends, Top
<1>14. NoBlocking'
  BY DEF WakeInv, NoBlocking
<1> QED  BY <1>7, <1>11, <1>13, <1>14, WakeThread

(* Without blocking commands none is counted as waiting. *)
LEMMA RequestUnblocked ==
  ASSUME WakeInv, Unblocked, NEW t, NEW c \in Cmds, RequestMade(t, c)
  PROVE  bwait' = 0 /\ (~IsActiveCmdAllowed(c) => c.vdev \in bitmap \/ vpend[c.vdev] # <<>>)
<1>1. ~c.is_blocking /\ bact = FALSE /\ bwait = 0
  BY DEF Unblocked, WakeInv, NoBlocking
<1>2. 0 % 256 = 0
  OBVIOUS
<1> QED  BY <1>1, <1>2 DEF RequestMade, CountWaiting, IsActiveCmdAllowed, IsActiveNonScanCmdAllowed

(* Requests, and steps of the environment. *)
LEMMA WakeCalls ==
  ASSUME IndInv, WakeInv, Unblocked, NEW t \in Threads, NEW c \in Cmds,
         \/ RequestRefused(t, c) \/ RequestListFull(t, c) \/ RequestPending(t, c)
         \/ RequestActive(t, c)
  PROVE  WakeInv'
<1>0. /\ RequestMade(t, c) /\ c.vdev \in Vdevs /\ ~c.is_blocking /\ bact = FALSE /\ NoMarks
      /\ pc[t] = "idle"
  BY CmdTypes DEF RequestRefused, RequestListFull, RequestPending, RequestActive, RequestAccepted,
                  Unblocked, WakeInv, NoBlocking, RequestMade
<1>1. bwait' = 0 /\ (~IsActiveCmdAllowed(c) => c.vdev \in bitmap \/ vpend[c.vdev] # <<>>)
  BY <1>0, RequestUnblocked
<1>2. CASE RequestRefused(t, c) \/ RequestListFull(t, c)
  <2>1. UNCHANGED <<bact, flags, vpend, bitmap, pc, stack>>
    BY <1>2 DEF RequestRefused, RequestListFull, locals
  <2>2. NoBlocking' /\ NoMarks' /\ \A v \in Vdevs : Unattended(v)' => Unattended(v)
    BY <1>0, <1>1, <2>1 DEF NoBlocking, NoMarks, Unattended
  <2> QED  BY <2>1, <2>2, WakeAround
<1>3. CASE RequestPending(t, c)
  <2>1. /\ UNCHANGED <<bact, flags, bitmap, pc, stack>> /\ ~IsActiveCmdAllowed(c)
        /\ \E w : vpend' = [vpend EXCEPT ![c.vdev] = w]
    BY <1>3 DEF RequestPending, locals
  <2>2. \A v \in Vdevs : Unattended(v)' => Unattended(v)
    BY <1>0, <1>1, <2>1 DEF Unattended, IndInv, TypeOK, ListTypes
  <2>3. NoBlocking' /\ NoMarks'
    BY <1>0, <1>1, <2>1 DEF NoBlocking, NoMarks
  <2> QED  BY <2>1, <2>2, <2>3, WakeAround
<1>4. CASE RequestActive(t, c)
  <2>1. PICK n \in Nodes : /\ AddActive(n, c) /\ flags' = [flags EXCEPT ![n] = flags[n] \cup {ACT}]
                           /\ pc' = [pc EXCEPT ![t] = "start_timer"] /\ UNCHANGED <<vpend, stack>>
    BY <1>4 DEF RequestActive
  <2>2. NoBlocking' /\ NoMarks'
    BY <1>0, <1>1, <2>1 DEF AddActive, NoBlocking, NoMarks, IndInv, TypeOK, ListTypes, MOVE, CANCEL, ACT
  <2>3. pc'[t] = "start_timer" /\ \A u \in Threads \ {t} : pc'[u] = pc[u]
    BY <2>1 DEF IndInv, TypeOK, ThreadTypes
  <2>4. NotCancelling(t)' /\ MovesOwn(t)'
    BY <1>0, <2>1, <2>3 DEF WakeInv, NotCancelling, MovesOwn
  <2>5. \A v \in Vdevs : Unattended(v)' => Unattended(v) /\ ~Attends(t, v)
    BY <1>0, <2>1 DEF Unattended, Attends, AddActive
  <2> QED  BY <2>1, <2>2, <2>3, <2>4, <2>5, WakeThread
<1> QED  BY <1>2, <1>3, <1>4

(* Steps around the calls. *)
LEMMA WakeEnvironment ==
  ASSUME WakeInv, NEW t, NEW c,
         \/ UpdateTimer(t, c) \/ VdevQueueDisable(t, c) \/ TimerFires(c) \/ TimerLost(c)
         \/ VdevLogicallyDeleted(c) \/ TimeoutIgnored \/ UNCHANGED vars
  PROVE  WakeInv'
<1>1. UNCHANGED <<bact, bwait, flags, vpend, bitmap, pc, stack>>
  BY DEF UpdateTimer, VdevQueueDisable, TimerFires, TimerLost, VdevLogicallyDeleted,
         TimeoutIgnored, vars, queues, locals
<1>2. NoBlocking' /\ NoMarks' /\ \A v \in Vdevs : Unattended(v)' => Unattended(v)
  BY <1>1 DEF WakeInv, NoBlocking, NoMarks, Unattended
<1> QED  BY <1>1, <1>2, WakeAround

(* A command is activated. *)
LEMMA WakeActivates ==
  ASSUME IndInv, WakeInv, NEW t \in Threads,
         \/ StartTimer(t) \/ StartTimerFails(t) \/ ActivateCallback(t) \/ FinishActivation(t)
         \/ TestRemoval(t) \/ MoveBreak(t)
  PROVE  WakeInv'
<1>1. /\ UNCHANGED <<bact, bwait, vpend, bitmap, stack>>
      /\ pc[t] \notin {"move", "release"}
  BY DEF StartTimer, StartTimerFails, ActivateCallback, FinishActivation, TestRemoval, MoveBreak,
         MoveEnds, queues
<1>2. \E p \in PCs \ {"move", "cancel", "cancel_cb"} : pc' = [pc EXCEPT ![t] = p]
  BY DEF StartTimer, StartTimerFails, ActivateCallback, FinishActivation, TestRemoval, MoveBreak,
         MoveEnds, PCs
<1>3. pc'[t] \notin {"move", "cancel", "cancel_cb"} /\ \A u \in Threads \ {t} : pc'[u] = pc[u]
  BY <1>2 DEF IndInv, TypeOK, ThreadTypes
<1>4. NoMarks'
  <2>1. CASE FinishActivation(t)
    <3>1. flags' = [flags EXCEPT ![node[t]] = (flags[node[t]] \ {ACT}) \cup {INUSE}]
      BY <2>1 DEF FinishActivation
    <3> QED  BY <3>1 DEF WakeInv, NoMarks, IndInv, TypeOK, ListTypes, MOVE, CANCEL, INUSE
  <2>2. CASE ~FinishActivation(t)
    <3>1. UNCHANGED flags
      BY <2>2 DEF StartTimer, StartTimerFails, ActivateCallback, TestRemoval, MoveBreak, queues
    <3> QED  BY <3>1 DEF WakeInv, NoMarks
  <2> QED  BY <2>1, <2>2
<1>5. NoBlocking'
  BY <1>1 DEF WakeInv, NoBlocking
<1> QED  BY <1>1, <1>3, <1>4, <1>5, WakeAlong

(* A call that returns. *)
LEMMA WakeReturns ==
  ASSUME IndInv, WakeInv, NEW t \in Threads, Return(t, stack[t]),
         UNCHANGED <<bact, bwait, vpend, bitmap>>, NoMarks', pc[t] \notin {"move", "release"}
  PROVE  WakeInv'
<1>1. stack[t] \in Seq(Frames)
  BY DEF IndInv, TypeOK, ThreadTypes
<1>2. /\ pc'[t] \in {"idle", "move_resume", "timeout_free"} /\ UNCHANGED stack
      /\ \A u \in Threads \ {t} : pc'[u] = pc[u]
  BY <1>1, ReturnShape DEF Return, IndInv, TypeOK, ThreadTypes
<1>3. NoBlocking'
  BY DEF WakeInv, NoBlocking
<1> QED  BY <1>2, <1>3, WakeAlong

(* A dequeue, of a removal, of a timeout or after a failed activation. *)
LEMMA WakeDequeue ==
  ASSUME IndInv, WakeInv, Unblocked, NEW t \in Threads, NEW c \in Cmds,
         pc[t] \in {"idle", "dequeue"}, DequeueCmd(t, c)
  PROVE  WakeInv'
<1>0. flags \in [Nodes -> SUBSET Flags] /\ NoMarks /\ bact = FALSE
  BY DEF IndInv, TypeOK, ListTypes, WakeInv, NoBlocking
<1>1. CASE DequeueMissing(t, c)
  <2>1. Return(t, stack[t]) /\ UNCHANGED <<bact, bwait, vpend, bitmap, flags>>
    BY <1>1 DEF DequeueMissing, queues
  <2>2. NoMarks'
    BY <1>0, <2>1 DEF NoMarks
  <2> QED  BY <2>1, <2>2, WakeReturns
<1>2. CASE DequeueMarked(t, c)
  <2>1. /\ Return(t, stack[t]) /\ UNCHANGED <<bact, bwait, vpend, bitmap>>
        /\ \E n : flags' = [flags EXCEPT ![n] = flags[n] \cup {REMOVAL}]
    BY <1>2 DEF DequeueMarked
  <2>2. NoMarks'
    BY <1>0, <2>1 DEF NoMarks, MOVE, CANCEL, REMOVAL
  <2> QED  BY <2>1, <2>2, WakeReturns
<1>3. CASE DequeueRemove(t, c)
  <2>1. PICK n \in Nodes : Removes(t, n) /\ ClearActive(ncmd[n]) /\ FreeNode(n, flags)
                           /\ UNCHANGED <<bwait, vpend>>
    BY <1>3, DequeueRemoves
  <2>2. NoMarks'
    BY <1>0, <2>1 DEF NoMarks, FreeNode
  <2>3. bact' = FALSE /\ bitmap' = bitmap \ {ncmd[n].vdev}
    BY <1>0, <2>1 DEF ClearActive
  <2> QED  BY <2>1, <2>2, <2>3, WakePush
<1> QED  BY <1>1, <1>2, <1>3 DEF DequeueCmd

(* The dequeue that a thread is to make. *)
LEMMA WakeDequeues ==
  ASSUME IndInv, WakeInv, Unblocked, NEW t \in Threads, Dequeue(t)
  PROVE  WakeInv'
<1>0. pc[t] = "dequeue"
  BY DEF Dequeue
<1>1. CASE DequeueArg(t) = NoCmd
  <2>1. Return(t, stack[t]) /\ UNCHANGED <<bact, bwait, vpend, bitmap, flags>>
    BY <1>1 DEF Dequeue, queues
  <2>2. NoMarks'
    BY <2>1 DEF WakeInv, NoMarks
  <2> QED  BY <1>0, <2>1, <2>2, WakeReturns
<1>2. CASE DequeueArg(t) # NoCmd
  <2>1. DequeueCmd(t, DequeueArg(t))
    BY <1>2 DEF Dequeue
  <2>2. DequeueArg(t) \in Cmds
    <3>1. CASE node[t] # NoNode
      BY <1>2, <3>1 DEF DequeueArg, IndInv, TypeOK, ListTypes, ThreadTypes
    <3>2. CASE node[t] = NoNode
      <4>1. stack[t] \in Seq(Frames) /\ stack[t] # <<>>
        BY <3>2 DEF Dequeue, IndInv, TypeOK, ThreadTypes, Shape, ThreadShape
      <4>2. Top(t) \in Frames
        BY <4>1 DEF Top
      <4> QED  BY <3>2, <4>2 DEF DequeueArg, Frames
    <3> QED  BY <3>1, <3>2
  <2> QED  BY <1>0, <2>1, <2>2, WakeDequeue
<1> QED  BY <1>1, <1>2

(* The loop looks at the queue of the call's own vdev, once. *)
LEMMA LooksUp ==
  ASSUME IndInv, WakeInv, Stacks, NEW t \in Threads, MoveLoop(t)
  PROVE  /\ pc[t] = "move" /\ VdevLookup(t) /\ Top(t) \in Frames /\ Top(t) = stack[t][1]
         /\ stack[t] # <<>> /\ stack[t] \in Seq(Frames) /\ ~Top(t).blk
<1>1. pc[t] \in {"move", "move_resume"}
  BY DEF MoveLoop
<1>2. stack[t] \in Seq(Frames) /\ stack[t] # <<>>
  BY <1>1 DEF IndInv, TypeOK, ThreadTypes, Shape, ThreadShape
<1>3. Top(t) \in Frames /\ Top(t) = stack[t][1] /\ 1 \in DOMAIN stack[t]
  BY <1>2 DEF Top
<1>4. Top(t).op = "move"
  BY <1>1, <1>3 DEF Stacks, StackOf
<1>5. ~Top(t).blk /\ (pc[t] = "move_resume" => Top(t).vlookup)
  BY <1>3, <1>4 DEF WakeInv, MovesOwn
<1>6. pc[t] = "move"
  BY <1>1, <1>5 DEF MoveLoop
<1>7. VdevLookup(t)
  BY <1>5, <1>6 DEF VdevLookup, WakeInv, NoBlocking
<1> QED  BY <1>2, <1>3, <1>5, <1>6, <1>7

(* It finds nothing: nothing waits, or something runs. *)
LEMMA WakeMovesNothing ==
  ASSUME IndInv, WakeInv, Stacks, NEW t \in Threads, MoveNothingVdev(t) \/ MoveNothingPdev(t)
  PROVE  WakeInv'
<1>1. MoveLoop(t) /\ MoveEnds(t)
  BY DEF MoveNothingVdev, MoveNothingPdev
<1>2. /\ pc[t] = "move" /\ VdevLookup(t) /\ Top(t) \in Frames
  BY <1>1, LooksUp
<1>3. ~VdevCandidate(Top(t).vdev) /\ UNCHANGED flags
  BY <1>2 DEF MoveNothingVdev, MoveNothingPdev
<1>4. /\ UNCHANGED <<stack, vpend, bitmap, bact, bwait>>
      /\ pc'[t] = "release" /\ \A u \in Threads \ {t} : pc'[u] = pc[u]
  BY <1>1 DEF MoveEnds, IndInv, TypeOK, ThreadTypes
<1>5. NoBlocking' /\ NoMarks' /\ NotCancelling(t)'
  BY <1>3, <1>4 DEF WakeInv, NoBlocking, NoMarks, NotCancelling
<1>6. MovesOwn(t)'
  BY <1>2, <1>4 DEF WakeInv, MovesOwn
<1>7. PICK v : v = Top(t).vdev
  OBVIOUS
<1>8. v \in Vdevs
  BY <1>2, <1>7 DEF Frames
<1>9. ~Unattended(v)
  <2>1. ASSUME vpend[v] # <<>>  PROVE MOVE \notin flags[Head(vpend[v])]
    <3>1. vpend[v] \in Seq(Nodes)
      BY <1>8 DEF IndInv, TypeOK, ListTypes
    <3>2. Head(vpend[v]) \in Nodes
      BY <2>1, <3>1
    <3> QED  BY <3>2 DEF WakeInv, NoMarks
  <2> QED  BY <1>3, <1>7, <2>1 DEF VdevCandidate, Unattended
<1>10. \A w \in Vdevs : Unattended(w)' => Unattended(w) /\ ~Attends(t, w)
  BY <1>4, <1>7, <1>9 DEF Unattended, Attends
<1> QED  BY <1>4, <1>5, <1>6, <1>10, WakeThread

(* It finds a command: the vdev has an active one again. *)
LEMMA WakeMoves ==
  ASSUME IndInv, WakeInv, Unblocked, Stacks, NEW t \in Threads, MoveFromVdev(t) \/ MoveFromPdev(t)
  PROVE  WakeInv'
<1>1. MoveLoop(t)
  BY DEF MoveFromVdev, MoveFromPdev
<1>2. /\ pc[t] = "move" /\ VdevLookup(t) /\ Top(t) \in Frames /\ Top(t) = stack[t][1]
      /\ stack[t] # <<>> /\ stack[t] \in Seq(Frames) /\ ~Top(t).blk
  BY <1>1, LooksUp
<1>3. PICK v : v = Top(t).vdev
  OBVIOUS
<1>4. PICK n : n = Head(vpend[v])
  OBVIOUS
<1>5. VdevCandidate(v) /\ PendingToActive(t, n, flags)
  BY <1>2, <1>3, <1>4 DEF MoveFromVdev, MoveFromPdev
<1>6. v \in Vdevs
  BY <1>2, <1>3 DEF Frames
<1>7. n \in Elems(vpend[v])
  BY <1>4, <1>5, <1>6, ElemsProps DEF VdevCandidate, IndInv, TypeOK, ListTypes
<1>8. n \in Elems(ppend) /\ ncmd[n].vdev = v
  BY <1>6, <1>7 DEF IndInv, VdevLists
<1>9. n \in Nodes /\ ncmd[n] \in Cmds
  BY <1>8, ListedCmds
<1>10. vact[v] = <<>>
  BY <1>5, <1>6 DEF VdevCandidate, IndInv, BitmapExact
<1>11. ~(Full(vact[v], MaxVdevActive) \/ Full(pact, MaxActiveCmds))
  BY <1>6, <1>10, ActiveRoom
<1>12. PICK g : g = [Top(t) EXCEPT !.vlookup = VdevLookup(t)]
  OBVIOUS
<1>13. g.op = Top(t).op /\ g.vlookup /\ ~g.blk /\ g \in Frames
  <2>1. VdevLookup(t) \in BOOLEAN
    BY <1>2 DEF VdevLookup
  <2> QED  BY <1>2, <1>12, <2>1 DEF Frames
<1>14. /\ AddActive(n, ncmd[n]) /\ flags' = [flags EXCEPT ![n] = flags[n] \cup {ACT}]
       /\ bwait' = (IF ncmd[n].is_blocking THEN Dec16(bwait) ELSE bwait)
       /\ pc' = [pc EXCEPT ![t] = "start_timer"]
       /\ vpend' = [vpend EXCEPT ![v] = Without(vpend[v], n)]
       /\ stack' = [stack EXCEPT ![t] = <<g>> \o Tail(stack[t])]
  BY <1>5, <1>8, <1>11, <1>12 DEF PendingToActive
<1>15. NoBlocking' /\ NoMarks'
  <2>1. ~ncmd[n].is_blocking
    BY <1>9 DEF Unblocked
  <2> QED  BY <1>9, <1>14, <2>1 DEF WakeInv, NoBlocking, NoMarks, AddActive, IndInv, TypeOK, ListTypes,
                                    MOVE, CANCEL, ACT
<1>16. /\ pc'[t] = "start_timer" /\ stack'[t] = <<g>> \o Tail(stack[t])
       /\ \A u \in Threads \ {t} : pc'[u] = pc[u] /\ stack'[u] = stack[u]
  BY <1>14 DEF IndInv, TypeOK, ThreadTypes
<1>17. MovesOwn(t)'
  <2>1. PICK s \in Seq(Frames) : s = stack[t] /\ s # <<>>
    BY <1>2
  <2>2. PICK r : r = <<g>> \o Tail(s)
    OBVIOUS
  <2>3. Len(r) = Len(s) /\ DOMAIN r = DOMAIN s /\ r[1] = g /\ \A i \in DOMAIN s : i # 1 => r[i] = s[i]
    BY <1>13, <2>1, <2>2
  <2>4. \A i \in DOMAIN s : (s[i].op = "move" /\ i # 1) => ~s[i].blk /\ s[i].vlookup
    BY <2>1 DEF WakeInv, MovesOwn
  <2>5. \A i \in DOMAIN r : r[i].op = "move" => ~r[i].blk /\ r[i].vlookup
    BY <1>13, <2>3, <2>4
  <2> QED  BY <1>16, <2>1, <2>2, <2>5 DEF MovesOwn
<1>18. NotCancelling(t)'
  BY <1>16 DEF NotCancelling
<1>19. \A w \in Vdevs : Unattended(w)' => Unattended(w) /\ ~Attends(t, w)
  <2>1. v \in bitmap' /\ bitmap \subseteq bitmap' /\ \A w \in Vdevs \ {v} : vpend'[w] = vpend[w]
    BY <1>8, <1>14 DEF AddActive, IndInv, TypeOK, ListTypes
  <2> QED  BY <1>3, <2>1 DEF Unattended, Attends
<1> QED  BY <1>15, <1>16, <1>17, <1>18, <1>19, WakeThread

(* A timeout is handled, and its message freed at the end. *)
LEMMA WakeTimeouts ==
  ASSUME IndInv, WakeInv, Stacks, \/ TimeoutHandled
                                  \/ \E t \in Threads : TimeoutFree(t) \/ ReleaseMem(t)
  PROVE  WakeInv'
<1>1. UNCHANGED <<vpend, bitmap>> /\ NoBlocking' /\ NoMarks'
  <2>1. UNCHANGED <<vpend, bitmap, bact, bwait, flags>>
    BY DEF TimeoutHandled, TimeoutFree, ReleaseMem, queues
  <2> QED  BY <2>1 DEF WakeInv, NoBlocking, NoMarks
<1>2. CASE TimeoutHandled
  <2>1. PICK f : f = [op |-> "timeout", vdev |-> Head(msgs).vdev, cmd |-> Head(msgs),
                      blk |-> FALSE, vlookup |-> FALSE]
    OBVIOUS
  <2>2. /\ pc[SchedThread] = "idle" /\ pc'[SchedThread] = "dequeue" /\ stack'[SchedThread] = <<f>>
        /\ \A u \in Threads \ {SchedThread} : pc'[u] = pc[u] /\ stack'[u] = stack[u]
    BY <1>2, <2>1, ThreadAssumption DEF TimeoutHandled, IndInv, TypeOK, ThreadTypes
  <2>3. \A i \in DOMAIN <<f>> : <<f>>[i].op # "move"
    BY <2>1
  <2>4. NotCancelling(SchedThread)' /\ MovesOwn(SchedThread)'
    BY <2>2, <2>3 DEF NotCancelling, MovesOwn
  <2>5. \A v \in Vdevs : Unattended(v)' => Unattended(v) /\ ~Attends(SchedThread, v)
    BY <1>1, <2>2 DEF Unattended, Attends
  <2> QED  BY <1>1, <2>2, <2>4, <2>5, WakeThread, ThreadAssumption
<1>3. ASSUME NEW t \in Threads, TimeoutFree(t) \/ ReleaseMem(t)  PROVE WakeInv'
  <2>1. Return(t, Tail(stack[t])) /\ pc[t] # "move" /\ stack[t] # <<>>
    BY <1>3 DEF TimeoutFree, ReleaseMem, IndInv, Shape, ThreadShape
  <2> QED  BY <1>1, <2>1, WakePop
<1> QED  BY <1>2, <1>3

(* Calls that were never made go on no further. *)
LEMMA WakeNoCancel ==
  ASSUME WakeInv, NEW t \in Threads,
         \/ CancelStop(t) \/ CancelTake(t) \/ CancelNoTimer(t) \/ CancelLost(t)
         \/ CancelCallbacks(t)
  PROVE  FALSE
<1>1. pc[t] \in {"cancel", "cancel_cb"}
  BY ONLY CancelStop(t) \/ CancelTake(t) \/ CancelNoTimer(t) \/ CancelLost(t) \/ CancelCallbacks(t)
     DEF CancelStop, CancelTake, CancelNoTimer, CancelLost, CancelCallbacks
<1> QED  BY <1>1 DEF WakeInv, NotCancelling

(* Nobody is marked, so nobody begins a cancel after an activation. *)
LEMMA WakeTestCancel ==
  ASSUME IndInv, WakeInv, NEW t \in Threads, TestCancel(t)
  PROVE  WakeInv'
<1>1. pc[t] = "test_cancel" /\ UNCHANGED <<bact, bwait, vpend, bitmap, flags>>
  BY DEF TestCancel, queues
<1>2. node[t] \in Nodes
  BY <1>1 DEF IndInv, Shape, ThreadShape
<1>3. CANCEL \notin flags[node[t]]
  BY <1>2 DEF WakeInv, NoMarks
<1>4. Return(t, stack[t])
  BY <1>3 DEF TestCancel
<1>5. NoMarks'
  BY <1>1 DEF WakeInv, NoMarks
<1> QED  BY <1>1, <1>4, <1>5, WakeReturns

(* WakeInv is preserved by every step. *)
LEMMA WakeStep ==
  ASSUME IndInv, Stacks, WakeInv, Unblocked, [Next]_vars
  PROVE  WakeInv'
<1>1. ASSUME NEW t \in Threads, Continue(t)  PROVE WakeInv'
  <2>1. CASE \/ StartTimer(t) \/ StartTimerFails(t) \/ ActivateCallback(t) \/ FinishActivation(t)
             \/ TestRemoval(t) \/ MoveBreak(t)
    BY <2>1, WakeActivates
  <2>2. CASE TestCancel(t)
    BY <2>2, WakeTestCancel
  <2>3. CASE Dequeue(t)
    BY <2>3, WakeDequeues
  <2>4. CASE MoveFromVdev(t) \/ MoveFromPdev(t)
    BY <2>4, WakeMoves
  <2>5. CASE MoveNothingVdev(t) \/ MoveNothingPdev(t)
    BY <2>5, WakeMovesNothing
  <2>6. CASE ReleaseMem(t) \/ TimeoutFree(t)
    BY <2>6, WakeTimeouts
  <2>7. CASE \/ CancelStop(t) \/ CancelTake(t) \/ CancelNoTimer(t) \/ CancelLost(t)
             \/ CancelCallbacks(t)
    BY <2>7, WakeNoCancel
  <2> QED  BY <1>1, <2>1, <2>2, <2>3, <2>4, <2>5, <2>6, <2>7 DEF Continue
<1>2. ASSUME NEW t \in Threads, Call(t)  PROVE WakeInv'
  <2>1. ASSUME NEW c \in Cmds, \/ RequestRefused(t, c) \/ RequestListFull(t, c)
                               \/ RequestPending(t, c) \/ RequestActive(t, c)
        PROVE  WakeInv'
    BY <2>1, WakeCalls
  <2>2. ASSUME NEW c \in Removals, RemoveCmd(t, c) \/ UpdateTimer(t, c)  PROVE WakeInv'
    <3>1. c \in Cmds
      BY RequestAssumption
    <3> QED  BY <2>2, <3>1, WakeDequeue, WakeEnvironment DEF RemoveCmd
  <2>3. ASSUME NEW v \in Disables, VdevQueueDisable(t, v)  PROVE WakeInv'
    BY <2>3, WakeEnvironment
  <2> QED  BY <1>2, <2>1, <2>2, <2>3 DEF Call, Unblocked
<1>3. CASE Timeout
  BY <1>3, WakeTimeouts, WakeEnvironment DEF Timeout
<1>4. CASE Environment
  BY <1>4, WakeEnvironment DEF Environment
<1>5. CASE UNCHANGED vars
  BY <1>5, WakeEnvironment
<1> QED  BY <1>1, <1>2, <1>3, <1>4, <1>5 DEF Next, Running, Halted

(* Without blocking commands and cancels, a vdev that has commands waiting *)
(* and none active always has a dequeue that is about to look at them: no  *)
(* interleaving of requests, removals and timeouts loses the wakeup.       *)
THEOREM NoWakeupLost == Unblocked => (Spec => []NoLostWakeup)
<1> SUFFICES ASSUME Unblocked  PROVE Spec => []NoLostWakeup
  OBVIOUS
<1>1. Init => WakeInv
  <2> SUFFICES ASSUME Init  PROVE WakeInv
    OBVIOUS
  <2>1. /\ vpend = [v \in Vdevs |-> <<>>] /\ bact = FALSE /\ bwait = 0
        /\ flags = [n \in Nodes |-> {}] /\ pc = [t \in Threads |-> "idle"]
        /\ stack = [t \in Threads |-> <<>>]
    BY DEF Init
  <2> QED  BY <2>1 DEF WakeInv, NoBlocking, NoMarks, NotCancelling, MovesOwn, Unattended
<1>2. IndInv /\ Stacks /\ WakeInv /\ [Next]_vars => WakeInv'
  BY WakeStep
<1>3. IndInv /\ Stacks /\ WakeInv => NoLostWakeup
  <2> SUFFICES ASSUME IndInv, Stacks, WakeInv, NEW v \in Vdevs, Unattended(v)
               PROVE  \E t \in Threads : \E i \in DOMAIN stack[t] :
                         stack[t][i].op = "move" /\ stack[t][i].vdev = v
    BY DEF NoLostWakeup, Unattended
  <2>1. PICK t \in Threads : pc[t] = "move" /\ Top(t).vdev = v
    BY DEF WakeInv, Attends
  <2>2. stack[t] \in Seq(Frames) /\ stack[t] # <<>>
    BY <2>1 DEF IndInv, TypeOK, ThreadTypes, Shape, ThreadShape
  <2>3. 1 \in DOMAIN stack[t] /\ Top(t) = stack[t][1]
    BY <2>2 DEF Top
  <2>4. stack[t][1].op = "move"
    BY <2>1 DEF Stacks, StackOf
  <2> QED  BY <2>1, <2>3, <2>4
<1>4. CallInv => Stacks
  BY DEF CallInv
<1> QED  BY <1>1, <1>2, <1>3, <1>4, CallsInductive, PTL DEF Spec
=============================================================================
