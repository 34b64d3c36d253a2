------------------------ MODULE SerializationProofs ------------------------
(***************************************************************************)
(* IndInv is an inductive invariant of Serialization, for any number of    *)
(* threads, vdevs, nodes and commands.                                     *)
(***************************************************************************)
EXTENDS Serialization, FiniteSetTheorems, TLAPS

-----------------------------------------------------------------------------
(* qdf_list operations *)

(* An insertion adds the node at one end. *)
LEMMA InsertProps ==
  ASSUME NEW S, NEW s \in Seq(S), NEW n \in S, NEW c
  PROVE  /\ Insert(s, n, c) \in Seq(S)
         /\ Len(Insert(s, n, c)) = Len(s) + 1
         /\ Elems(Insert(s, n, c)) = Elems(s) \cup {n}
         /\ Injective(s) /\ n \notin Elems(s) => Injective(Insert(s, n, c))
<1>1. CASE c.is_high_priority
  <2> DEFINE r == <<n>> \o s
  <2>1. Insert(s, n, c) = r
    BY <1>1 DEF Insert
  <2>2. r \in Seq(S) /\ Len(r) = Len(s) + 1 /\ DOMAIN r = 1..(Len(s) + 1)
    OBVIOUS
  <2>3. \A i \in DOMAIN r : r[i] = IF i = 1 THEN n ELSE s[i - 1]
    OBVIOUS
  <2>4. Elems(r) = Elems(s) \cup {n}
    <3>1. \A i \in DOMAIN s : i + 1 \in DOMAIN r /\ r[i + 1] = s[i]
      BY <2>2, <2>3
    <3>2. \A i \in DOMAIN r : i = 1 \/ i - 1 \in DOMAIN s
      BY <2>2
    <3> HIDE DEF r
    <3> QED  BY <2>2, <2>3, <3>1, <3>2 DEF Elems
  <2>5. Injective(s) /\ n \notin Elems(s) => Injective(r)
    <3> HIDE DEF r
    <3> QED  BY <2>2, <2>3 DEF Elems, Injective
  <2> QED  BY <2>1, <2>2, <2>4, <2>5
<1>2. CASE ~c.is_high_priority
  <2>1. Insert(s, n, c) = Append(s, n)
    BY <1>2 DEF Insert
  <2> QED  BY <2>1 DEF Elems, Injective
<1> QED  BY <1>1, <1>2

(* A deletion closes the gap and takes out exactly the node at i. *)
LEMMA DelProps ==
  ASSUME NEW S, NEW s \in Seq(S), NEW i \in DOMAIN s
  PROVE  /\ Del(s, i) \in Seq(S)
         /\ Len(Del(s, i)) = Len(s) - 1
         /\ Injective(s) => Injective(Del(s, i)) /\ Elems(Del(s, i)) = Elems(s) \ {s[i]}
<1> DEFINE r == Del(s, i)
<1>1. r \in Seq(S) /\ Len(r) = Len(s) - 1 /\ DOMAIN r = 1..(Len(s) - 1)
  BY DEF Del
<1>2. \A j \in DOMAIN r : r[j] = IF j < i THEN s[j] ELSE s[j + 1]
  BY DEF Del
<1>3. ASSUME Injective(s)  PROVE Injective(r) /\ Elems(r) = Elems(s) \ {s[i]}
  <2>1. Injective(r)
    <3> HIDE DEF r
    <3> QED  BY <1>1, <1>2, <1>3 DEF Injective
  <2>2. \A j \in DOMAIN s : j < i => j \in DOMAIN r /\ r[j] = s[j]
    BY <1>1, <1>2
  <2>3. \A j \in DOMAIN s : j > i => j - 1 \in DOMAIN r /\ r[j - 1] = s[j]
    BY <1>1, <1>2
  <2>4. \A j \in DOMAIN r : \E k \in DOMAIN s : k # i /\ r[j] = s[k]
    <3> TAKE j \in DOMAIN r
    <3>1. CASE j < i
      BY <1>1, <1>2, <3>1
    <3>2. CASE ~(j < i)
      <4>1. j + 1 \in DOMAIN s /\ j + 1 # i /\ r[j] = s[j + 1]
        BY <1>1, <1>2, <3>2
      <4> QED  BY <4>1
    <3> QED  BY <3>1, <3>2
  <2>5. Elems(r) = Elems(s) \ {s[i]}
    <3> HIDE DEF r
    <3>1. \A x \in Elems(r) : x \in Elems(s) /\ x # s[i]
      BY <1>3, <2>4 DEF Elems, Injective
    <3>2. \A x \in Elems(s) : x # s[i] => x \in Elems(r)
      <4> SUFFICES ASSUME NEW j \in DOMAIN s, s[j] # s[i]  PROVE s[j] \in Elems(r)
        BY DEF Elems
      <4>1. CASE j < i
        BY <2>2, <4>1 DEF Elems
      <4>2. CASE j > i
        BY <2>3, <4>2 DEF Elems
      <4> QED  BY <4>1, <4>2
    <3> QED  BY <3>1, <3>2
  <2> QED  BY <2>1, <2>5
<1> QED  BY <1>1, <1>3

(* Without takes out exactly the named node of a list without repetitions. *)
LEMMA WithoutProps ==
  ASSUME NEW S, NEW s \in Seq(S), NEW n \in Elems(s)
  PROVE  /\ Without(s, n) \in Seq(S)
         /\ Len(Without(s, n)) = Len(s) - 1
         /\ Injective(s) => Injective(Without(s, n)) /\ Elems(Without(s, n)) = Elems(s) \ {n}
<1> DEFINE i == Index(s, n)
<1>1. i \in DOMAIN s /\ s[i] = n
  BY DEF Index, Elems
<1>2. Without(s, n) = Del(s, i)
  BY DEF Without
<1> HIDE DEF i
<1> QED  BY <1>1, <1>2, DelProps

(* A list of one node becomes empty. *)
LEMMA LastOneOut ==
  ASSUME NEW S, NEW s \in Seq(S), Len(s) <= 1
  PROVE  /\ \A i \in DOMAIN s : Del(s, i) = <<>>
         /\ \A n \in Elems(s) : Without(s, n) = <<>>
<1>1. ASSUME NEW i \in DOMAIN s  PROVE Del(s, i) = <<>>
  <2>1. Len(s) = 1
    <3>1. DOMAIN s = 1..Len(s) /\ Len(s) \in Nat
      OBVIOUS
    <3> QED  BY <1>1, <3>1
  <2>2. Del(s, i) \in Seq(S) /\ Len(Del(s, i)) = 0
    BY <1>1, <2>1, DelProps
  <2> QED  BY <2>2
<1>2. ASSUME NEW n \in Elems(s)  PROVE Without(s, n) = <<>>
  <2>1. Index(s, n) \in DOMAIN s
    BY DEF Index, Elems
  <2> QED  BY <1>1, <2>1 DEF Without
<1> QED  BY <1>1, <1>2

(* The nodes of a list are nodes, and an empty list has none. *)
LEMMA ElemsProps ==
  ASSUME NEW S, NEW s \in Seq(S)
  PROVE  /\ Elems(s) \subseteq S
         /\ s = <<>> <=> Elems(s) = {}
         /\ s # <<>> => Head(s) \in Elems(s)
         /\ Len(s) <= 1 => \A m, n \in Elems(s) : m = n
         /\ Len(s) <= 1 => Injective(s)
  BY DEF Elems, Injective
-----------------------------------------------------------------------------
(* Consequences of IndInv *)

(* A vdev may have one active command. *)
LEMMA OneActivePerVdev == MaxVdevActive = 1
<1>1. \A k \in Nat \ {0} : k \div k = 1
  OBVIOUS
<1> QED  BY <1>1, SizeAssumption DEF MaxVdevActive, MaxActiveCmds

(* A command is a record of the fields the code reads, NoCmd is none. *)
LEMMA CmdTypes ==
  ASSUME NEW c \in Cmds
  PROVE  /\ c # NoCmd /\ c.vdev \in Vdevs /\ c.is_blocking \in BOOLEAN
         /\ c.is_high_priority \in BOOLEAN /\ c.queue_disable \in BOOLEAN
  BY CmdAssumption DEF CmdFields

(* A node that is in a list holds a command. *)
LEMMA ListedCmds ==
  ASSUME IndInv, NEW n \in Elems(pact) \cup Elems(ppend)
  PROVE  /\ n \in Nodes /\ n \notin pool /\ ncmd[n] \in Cmds /\ ncmd[n].vdev \in Vdevs
         /\ n \in Elems(pact) => n \in Elems(vact[ncmd[n].vdev])
         /\ n \in Elems(ppend) => n \in Elems(vpend[ncmd[n].vdev])
<1>1. n \in Nodes /\ n \notin pool
  BY ElemsProps DEF IndInv, TypeOK, ListTypes, NodesAccounted
<1>2. ncmd[n] \in Cmds
  BY <1>1 DEF IndInv, TypeOK, ListTypes, NodesAccounted
<1> QED  BY <1>1, <1>2, CmdTypes DEF IndInv, VdevLists

(* A vdev without an active command leaves room in the active lists. *)
LEMMA ActiveRoom ==
  ASSUME IndInv, NEW v \in Vdevs, vact[v] = <<>>
  PROVE  ~Full(vact[v], MaxVdevActive) /\ ~Full(pact, MaxActiveCmds)
<1>1. ~Full(vact[v], MaxVdevActive)
  BY OneActivePerVdev DEF Full
<1>2. pact \in Seq(Nodes) /\ Len(pact) \in Nat /\ DOMAIN pact = 1..Len(pact)
  BY DEF IndInv, TypeOK, ListTypes
<1> DEFINE f == [i \in 1..Len(pact) |-> ncmd[pact[i]].vdev]
<1>3. \A i \in 1..Len(pact) : pact[i] \in Elems(pact) /\ f[i] \in Vdevs
                              /\ pact[i] \in Elems(vact[f[i]])
  BY <1>2, ListedCmds DEF Elems
<1>4. f \in [1..Len(pact) -> Vdevs \ {v}]
  BY <1>3 DEF Elems
<1>5. \A i, j \in 1..Len(pact) : f[i] = f[j] => i = j
  <2> SUFFICES ASSUME NEW i \in 1..Len(pact), NEW j \in 1..Len(pact), f[i] = f[j]
               PROVE  i = j
    OBVIOUS
  <2>1. vact[f[i]] \in Seq(Nodes) /\ Len(vact[f[i]]) <= 1
    BY <1>3 DEF IndInv, TypeOK, ListTypes, BitmapExact
  <2>2. pact[i] = pact[j]
    BY <1>3, <2>1, ElemsProps
  <2> QED  BY <1>2, <2>2 DEF IndInv, NodesAccounted, Injective
<1> HIDE DEF f
<1>6. IsFiniteSet(Vdevs \ {v}) /\ Cardinality(Vdevs \ {v}) = Cardinality(Vdevs) - 1
      /\ Cardinality(Vdevs) \in Nat
  BY FS_RemoveElement, FS_CardinalityType, VdevAssumption
<1>7. IsFiniteSet(1..Len(pact)) /\ Cardinality(1..Len(pact)) = Len(pact)
  <2> DEFINE k == Len(pact)
  <2>1. 1 \in Int /\ k \in Int /\ k >= 0
    BY <1>2
  <2> HIDE DEF k
  <2>2. IsFiniteSet(1..k) /\ Cardinality(1..k) = IF 1 > k THEN 0 ELSE k - 1 + 1
    BY <2>1, FS_Interval, Zenon
  <2>3. Cardinality(1..k) = k
    BY <2>1, <2>2
  <2> QED  BY <2>2, <2>3 DEF k
<1>8. ~(Cardinality(Vdevs \ {v}) < Cardinality(1..Len(pact)))
  BY <1>4, <1>5, <1>6, <1>7, FS_PigeonHole
<1>9. Len(pact) < MaxActiveCmds
  BY <1>2, <1>6, <1>7, <1>8, SizeAssumption DEF MaxActiveCmds
<1> QED  BY <1>1, <1>2, <1>9 DEF Full
-----------------------------------------------------------------------------
(* What follows from leaving things alone *)

(* The list invariants depend on the lists, the commands and the pool only. *)
LEMMA ListsKept ==
  ASSUME IndInv, UNCHANGED <<pool, pact, ppend, vact, vpend, ncmd, flags>>
  PROVE  ListTypes' /\ NodesAccounted' /\ VdevLists'
<1>1. ListTypes'
  BY DEF IndInv, TypeOK, ListTypes
<1>2. NodesAccounted'
  BY DEF IndInv, NodesAccounted
<1>3. VdevLists'
  BY DEF IndInv, VdevLists
<1> QED  BY <1>1, <1>2, <1>3

(* ... and survive a change of the flags of listed nodes. *)
LEMMA FlagsChanged ==
  ASSUME IndInv, UNCHANGED <<pool, pact, ppend, vact, vpend, ncmd>>,
         flags' \in [Nodes -> SUBSET Flags],
         \A n \in Nodes : flags'[n] # flags[n] => n \in Elems(pact) \cup Elems(ppend)
  PROVE  ListTypes' /\ NodesAccounted' /\ VdevLists'
<1>1. ListTypes'
  BY DEF IndInv, TypeOK, ListTypes
<1>2. \A n \in pool : flags'[n] = {}
  BY ListedCmds DEF IndInv, TypeOK, ListTypes, NodesAccounted
<1>3. NodesAccounted'
  BY <1>2 DEF IndInv, NodesAccounted
<1>4. VdevLists'
  BY DEF IndInv, VdevLists
<1> QED  BY <1>1, <1>3, <1>4

(* The status fields keep their types when they are left alone. *)
LEMMA StatusKept ==
  ASSUME IndInv, UNCHANGED <<qdis, bitmap, bact, bwait, live, bugs>>
  PROVE  StatusTypes' /\ NoMoveAssert'
<1>1. StatusTypes
  BY DEF IndInv, TypeOK
<1>2. (bact \in BOOLEAN)'
  BY <1>1 DEF StatusTypes
<1>3. (qdis \subseteq Vdevs /\ bitmap \subseteq Vdevs /\ bwait \in UInt16)'
  BY <1>1 DEF StatusTypes
<1>4. (bugs \subseteq {"move", "timer", "cursor"} /\ live \in [Cmds -> Int])'
  BY <1>1 DEF StatusTypes
<1>5. NoMoveAssert'
  BY DEF IndInv, NoMoveAssert
<1> QED  BY <1>2, <1>3, <1>4, <1>5 DEF StatusTypes

(* Timer slots keep pointing to active nodes when both are left alone. *)
LEMMA TimersKept ==
  ASSUME IndInv, UNCHANGED <<timing, pact>>
  PROVE  TimerTypes' /\ TimersListed'
  BY DEF IndInv, TypeOK, TimerTypes, TimersListed, timing

(* The reference counts stay functions of the vdevs. *)
LEMMA RefType ==
  ASSUME NEW f \in [Vdevs -> Int], NEW v \in Vdevs
  PROVE  /\ [f EXCEPT ![v] = @ + 1] \in [Vdevs -> Int]
         /\ [f EXCEPT ![v] = @ - 1] \in [Vdevs -> Int]
  OBVIOUS

(* The bitmap stays exact when it, the lists and the cancels are left alone. *)
LEMMA BitmapKept ==
  ASSUME IndInv, UNCHANGED <<vact, bitmap>>,
         \A t \in Threads : /\ Settling(t)' <=> Settling(t)
                            /\ Settling(t) => cx'[t].removed = cx[t].removed
  PROVE  BitmapExact' /\ SettlingAlone'
<1>1. BitmapExact'
  BY DEF IndInv, BitmapExact
<1>2. SettlingAlone'
  BY DEF IndInv, SettlingAlone
<1> QED  BY <1>1, <1>2

(* What is being activated stays pinned when lists, flags and points are kept. *)
LEMMA ActivationKept ==
  ASSUME IndInv, UNCHANGED pact,
         \A n \in Nodes : ACT \in flags'[n] <=> ACT \in flags[n],
         \A t \in Threads : /\ pc'[t] \in ActivationPCs <=> pc[t] \in ActivationPCs
                            /\ pc[t] \in ActivationPCs => node'[t] = node[t]
  PROVE  ActivationPinned'
<1>1. \A t \in Threads : pc[t] \in ActivationPCs => node[t] \in Nodes
  BY DEF IndInv, Shape, ThreadShape
<1> QED  BY <1>1 DEF IndInv, ActivationPinned

(* A call returns to a frame that is there. *)
LEMMA ReturnShape ==
  ASSUME IndInv, NEW t \in Threads, NEW s \in Seq(Frames), Return(t, s)
  PROVE  /\ ThreadTypes'
         /\ pc'[t] \in {"idle", "move_resume", "timeout_free"}
         /\ pc'[t] # "idle" => stack'[t] # <<>>
         /\ \A u \in Threads \ {t} :
              pc'[u] = pc[u] /\ node'[u] = node[u] /\ stack'[u] = stack[u]
  BY DEF IndInv, TypeOK, ThreadTypes, Return, PCs
(* A step that leaves the lists and the flags alone *)
LEMMA QuietStep ==
  ASSUME IndInv, UNCHANGED <<pool, pact, ppend, vact, vpend, bitmap, ncmd, flags>>,
         StatusTypes', NoMoveAssert', TimerTypes', TimersListed', ThreadTypes', CancelTypes', Shape',
         \A t \in Threads : /\ Settling(t)' <=> Settling(t)
                            /\ Settling(t) => cx'[t].removed = cx[t].removed
                            /\ pc'[t] \in ActivationPCs <=> pc[t] \in ActivationPCs
                            /\ pc[t] \in ActivationPCs => node'[t] = node[t]
  PROVE  IndInv'
<1>1. ListTypes' /\ NodesAccounted' /\ VdevLists'
  BY ListsKept
<1>2. BitmapExact' /\ SettlingAlone'
  BY BitmapKept
<1>3. ActivationPinned'
  BY ActivationKept
<1> QED  BY <1>1, <1>2, <1>3 DEF IndInv, TypeOK

(* ... and the threads too *)
LEMMA EnvironmentStep ==
  ASSUME IndInv, UNCHANGED <<pool, pact, ppend, vact, vpend, bitmap, ncmd, flags>>,
         UNCHANGED <<pc, node, stack, cx>>,
         StatusTypes', NoMoveAssert', TimerTypes', TimersListed'
  PROVE  IndInv'
<1>1. ThreadTypes' /\ CancelTypes'
  BY DEF IndInv, TypeOK, ThreadTypes, CancelTypes
<1>2. Shape'
  BY DEF IndInv, Shape, ThreadShape
<1> QED  BY <1>1, <1>2, QuietStep DEF Settling, OnActive

(* What a remainder is between. *)
LEMMA Remainder ==
  ASSUME NEW k \in Int, NEW w \in Nat \ {0}
  PROVE  k % w \in 0..(w - 1)
  OBVIOUS

(* The 16-bit increment and decrement stay within 16 bits. *)
LEMMA WaitingType ==
  ASSUME NEW x \in UInt16
  PROVE  Inc16(x) \in UInt16 /\ Dec16(x) \in UInt16
<1>1. Word \in Nat \ {0}
  BY DEF Word
<1>2. x \in Int
  BY DEF UInt16
<1>3. x + 1 \in Int /\ x + Word - 1 \in Int
  BY <1>1, <1>2
<1> QED  BY <1>1, <1>3, Remainder DEF Inc16, Dec16, UInt16

(* The initial locals of a cancel have their types. *)
LEMMA NoCancelType ==
  /\ NoCancel \in CancelLocals
  /\ \A q \in Seq(BOOLEAN) : /\ [NoCancel EXCEPT !.queues = q] \in CancelLocals
                             /\ [NoCancel EXCEPT !.queues = q].queues = q
                             /\ [NoCancel EXCEPT !.queues = q].removed = NoCmd
<1>1. NoCancel \in CancelLocals
  BY DEF NoCancel, CancelLocals
<1>2. NoCancel.removed = NoCmd
  BY DEF NoCancel
<1> QED  BY <1>1, <1>2 DEF CancelLocals

(* Only t's shape has to be looked at after a step of t. *)
LEMMA ShapeOfOne ==
  ASSUME IndInv, NEW t \in Threads, ThreadShape(t)',
         \A u \in Threads \ {t} : /\ pc'[u] = pc[u] /\ node'[u] = node[u]
                                  /\ stack'[u] = stack[u] /\ cx'[u] = cx[u]
  PROVE  Shape'
  BY DEF IndInv, Shape, ThreadShape

(* A thread that returned has the locals its caller relies on. *)
LEMMA ReturnThreadShape ==
  ASSUME IndInv, NEW t \in Threads, NEW s \in Seq(Frames), Return(t, s),
         cx'[t].removed = NoCmd
  PROVE  ThreadShape(t)'
  BY ReturnShape DEF ThreadShape, ActivationPCs
-----------------------------------------------------------------------------
(* wlan_serialization_activate_cmd *)

(* find_and_start_timer succeeds. *)
LEMMA StartTimerStep ==
  ASSUME IndInv, NEW t \in Threads, StartTimer(t)
  PROVE  IndInv'
<1>0. UNCHANGED <<pool, pact, ppend, vact, vpend, qdis, bitmap, bact, bwait, ncmd, flags,
                  gone, msgs, node, stack, cx, live, bugs>>
  BY DEF StartTimer, queues
<1>1. StatusTypes' /\ NoMoveAssert'
  BY <1>0, StatusKept
<1>2. TimerTypes' /\ TimersListed'
  <2>1. node[t] \in Elems(pact) /\ node[t] \in Nodes /\ ncmd[node[t]].vdev \in Vdevs
    BY ListedCmds DEF StartTimer, IndInv, ActivationPinned, ActivationPCs
  <2>2. timers' = timers \cup {node[t]} /\ armed' = armed \cup {node[t]}
    BY DEF StartTimer
  <2>3. ref' \in [Vdevs -> Int]
    BY <2>1, RefType DEF StartTimer, IndInv, TypeOK, TimerTypes
  <2> QED  BY <1>0, <2>1, <2>2, <2>3 DEF IndInv, TypeOK, TimerTypes, TimersListed
<1>3. ThreadTypes' /\ CancelTypes'
  BY <1>0 DEF StartTimer, IndInv, TypeOK, ThreadTypes, CancelTypes, PCs
<1>4. Shape'
  BY <1>0 DEF StartTimer, IndInv, TypeOK, ThreadTypes, Shape, ThreadShape, ActivationPCs
<1> QED
  BY <1>0, <1>1, <1>2, <1>3, <1>4, QuietStep
  DEF StartTimer, IndInv, TypeOK, ThreadTypes, Settling, OnActive, ActivationPCs

(* find_and_start_timer finds no slot or no vdev reference. *)
LEMMA StartTimerFailsStep ==
  ASSUME IndInv, NEW t \in Threads, StartTimerFails(t)
  PROVE  IndInv'
<1>0. UNCHANGED <<pool, pact, ppend, vact, vpend, qdis, bitmap, bact, bwait, ncmd, flags,
                  timers, armed, ref, gone, msgs, node, stack, cx, live, bugs>>
  BY DEF StartTimerFails, queues, timing
<1>1. StatusTypes' /\ NoMoveAssert' /\ TimerTypes' /\ TimersListed'
  BY <1>0, StatusKept, TimersKept DEF timing
<1>2. ThreadTypes' /\ CancelTypes'
  BY <1>0 DEF StartTimerFails, IndInv, TypeOK, ThreadTypes, CancelTypes, PCs
<1>3. Shape'
  BY <1>0, NodeAssumption DEF StartTimerFails, IndInv, TypeOK, ThreadTypes, Shape, ThreadShape, ActivationPCs
<1> QED
  BY <1>0, <1>1, <1>2, <1>3, QuietStep
  DEF StartTimerFails, IndInv, TypeOK, ThreadTypes, Settling, OnActive, ActivationPCs

(* The ACTIVATE_CMD callback returns. *)
LEMMA ActivateCallbackStep ==
  ASSUME IndInv, NEW t \in Threads, ActivateCallback(t)
  PROVE  IndInv'
<1>0. UNCHANGED <<pool, pact, ppend, vact, vpend, qdis, bitmap, bact, bwait, ncmd, flags,
                  timers, armed, ref, gone, msgs, node, stack, cx, live, bugs>>
  BY DEF ActivateCallback, queues, timing
<1>1. StatusTypes' /\ NoMoveAssert' /\ TimerTypes' /\ TimersListed'
  BY <1>0, StatusKept, TimersKept DEF timing
<1>2. ThreadTypes' /\ CancelTypes'
  BY <1>0 DEF ActivateCallback, IndInv, TypeOK, ThreadTypes, CancelTypes, PCs
<1>3. Shape'
  BY <1>0, NodeAssumption DEF ActivateCallback, IndInv, TypeOK, ThreadTypes, Shape, ThreadShape, ActivationPCs
<1> QED
  BY <1>0, <1>1, <1>2, <1>3, QuietStep
  DEF ActivateCallback, IndInv, TypeOK, ThreadTypes, Settling, OnActive, ActivationPCs

(* activate_cmd tests CMD_ACTIVE_MARKED_FOR_REMOVAL. *)
LEMMA TestRemovalStep ==
  ASSUME IndInv, NEW t \in Threads, TestRemoval(t)
  PROVE  IndInv'
<1>0. UNCHANGED <<pool, pact, ppend, vact, vpend, qdis, bitmap, bact, bwait, ncmd, flags,
                  timers, armed, ref, gone, msgs, node, stack, cx, live, bugs>>
  BY DEF TestRemoval, queues, timing
<1>1. StatusTypes' /\ NoMoveAssert' /\ TimerTypes' /\ TimersListed'
  BY <1>0, StatusKept, TimersKept DEF timing
<1>2. ThreadTypes' /\ CancelTypes'
  BY <1>0 DEF TestRemoval, IndInv, TypeOK, ThreadTypes, CancelTypes, PCs
<1>3. Shape'
  BY <1>0, NodeAssumption DEF TestRemoval, IndInv, TypeOK, ThreadTypes, Shape, ThreadShape, ActivationPCs
<1> QED
  BY <1>0, <1>1, <1>2, <1>3, QuietStep
  DEF TestRemoval, IndInv, TypeOK, ThreadTypes, Settling, OnActive, ActivationPCs

(* activate_cmd tests CMD_ACTIVE_MARKED_FOR_CANCEL. *)
LEMMA TestCancelStep ==
  ASSUME IndInv, NEW t \in Threads, TestCancel(t)
  PROVE  IndInv'
<1>0. /\ UNCHANGED <<pool, pact, ppend, vact, vpend, qdis, bitmap, bact, bwait, ncmd, flags,
                     timers, armed, ref, gone, msgs, live, bugs>>
      /\ pc[t] = "test_cancel" /\ node[t] \in Nodes /\ cx[t].removed = NoCmd
      /\ stack[t] \in Seq(Frames)
  BY DEF TestCancel, queues, timing, IndInv, TypeOK, ThreadTypes, Shape, ThreadShape
<1>1. StatusTypes' /\ NoMoveAssert' /\ TimerTypes' /\ TimersListed'
  BY <1>0, StatusKept, TimersKept DEF timing
<1>2. CASE CANCEL \in flags[node[t]]
  <2> DEFINE x == [NoCancel EXCEPT !.queues = <<TRUE>>]
  <2>1. /\ pc' = [pc EXCEPT ![t] = "cancel"] /\ UNCHANGED <<node, stack>>
        /\ cx' = [cx EXCEPT ![t] = x]
    BY <1>2 DEF TestCancel
  <2>2. ThreadTypes'
    BY <2>1 DEF IndInv, TypeOK, ThreadTypes, PCs
  <2>0. <<TRUE>> \in Seq(BOOLEAN)
    OBVIOUS
  <2>3. x \in CancelLocals /\ x.removed = NoCmd /\ x.queues = <<TRUE>>
    BY <2>0, NoCancelType
  <2> HIDE DEF x
  <2>4. CancelTypes'
    BY <2>1, <2>3 DEF IndInv, TypeOK, CancelTypes
  <2>5. cx'[t].removed = NoCmd /\ cx'[t].queues = <<TRUE>>
    BY <2>1, <2>3 DEF IndInv, TypeOK, CancelTypes
  <2>6. \A u \in Threads \ {t} : cx'[u] = cx[u] /\ pc'[u] = pc[u]
    BY <2>1 DEF IndInv, TypeOK, CancelTypes, ThreadTypes
  <2>7. Shape'
    <3>1. pc'[t] = "cancel" /\ <<TRUE>> # <<>>
      BY <2>1 DEF IndInv, TypeOK, ThreadTypes
    <3>2. ThreadShape(t)'
      BY <2>5, <3>1 DEF ThreadShape, ActivationPCs
    <3> QED  BY <2>1, <2>6, <3>2, ShapeOfOne
  <2> QED
    BY <1>0, <1>1, <2>1, <2>2, <2>4, <2>5, <2>6, <2>7, QuietStep
    DEF IndInv, TypeOK, ThreadTypes, Settling, OnActive, ActivationPCs
<1>3. CASE CANCEL \notin flags[node[t]]
  <2>1. Return(t, stack[t]) /\ UNCHANGED cx
    BY <1>3 DEF TestCancel
  <2>2. CancelTypes'
    BY <2>1 DEF IndInv, TypeOK, CancelTypes
  <2>3. Shape'
    BY <1>0, <2>1, ReturnShape, ReturnThreadShape, ShapeOfOne
  <2> QED
    BY <1>0, <1>1, <2>1, <2>2, <2>3, ReturnShape, QuietStep
    DEF Settling, OnActive, ActivationPCs
<1> QED  BY <1>2, <1>3
(* wlan_serialization_enqueue_cmd: what is counted and disabled *)
LEMMA RequestStatus ==
  ASSUME IndInv, NEW c \in Cmds, CountWaiting(c), DisableBy(c) \/ UNCHANGED qdis
  PROVE  bwait' \in UInt16 /\ qdis' \subseteq Vdevs
<1>1. bwait' \in UInt16
  BY WaitingType DEF CountWaiting, IndInv, TypeOK, StatusTypes
<1>2. qdis' \subseteq Vdevs
  BY CmdTypes DEF DisableBy, IndInv, TypeOK, StatusTypes
<1> QED  BY <1>1, <1>2

(* A refused request queues nothing. *)
LEMMA RequestDeniedStep ==
  ASSUME IndInv, NEW t \in Threads, NEW c \in Cmds,
         RequestRefused(t, c) \/ RequestListFull(t, c)
  PROVE  IndInv'
<1>0. UNCHANGED <<pool, pact, ppend, vact, vpend, bitmap, bact, ncmd, flags,
                  timers, armed, ref, gone, msgs, pc, node, stack, cx, live, bugs>>
  BY DEF RequestRefused, RequestListFull, timing, locals
<1>1. CountWaiting(c) /\ (DisableBy(c) \/ UNCHANGED qdis)
  BY DEF RequestRefused, RequestListFull, RequestMade
<1>2. StatusTypes' /\ NoMoveAssert'
  BY <1>0, <1>1, RequestStatus DEF IndInv, TypeOK, StatusTypes, NoMoveAssert
<1> QED  BY <1>0, <1>2, TimersKept, EnvironmentStep DEF timing
-----------------------------------------------------------------------------
(* Steps of the environment and of the timers *)

(* wlan_ser_vdev_queue_disable touches queue_disable only. *)
LEMMA VdevQueueDisableStep ==
  ASSUME IndInv, NEW t \in Threads, NEW v \in Disables, VdevQueueDisable(t, v)
  PROVE  IndInv'
<1>0. UNCHANGED <<pool, pact, ppend, vact, vpend, bitmap, bact, bwait, ncmd, flags,
                  timers, armed, ref, gone, msgs, pc, node, stack, cx, live, bugs>>
  BY DEF VdevQueueDisable, timing, locals
<1>1. StatusTypes' /\ NoMoveAssert'
  BY <1>0, RequestAssumption
  DEF VdevQueueDisable, IndInv, TypeOK, StatusTypes, NoMoveAssert
<1> QED  BY <1>0, <1>1, TimersKept, EnvironmentStep DEF timing

(* Timers expire, are restarted, and their messages are dropped. *)
LEMMA TimerStep ==
  ASSUME IndInv,
         \/ \E n \in Nodes : TimerFires(n) \/ TimerLost(n)
         \/ \E v \in Deletions : VdevLogicallyDeleted(v)
         \/ \E t \in Threads, c \in Removals : UpdateTimer(t, c)
         \/ TimeoutIgnored
  PROVE  IndInv'
<1>0. UNCHANGED <<pool, pact, ppend, vact, vpend, qdis, bitmap, bact, bwait, ncmd, flags,
                  pc, node, stack, cx, live, bugs>>
  BY DEF TimerFires, TimerLost, VdevLogicallyDeleted, UpdateTimer, TimeoutIgnored,
         queues, locals
<1>1. TimerTypes /\ TimersListed
  BY DEF IndInv, TypeOK
<1>2. ASSUME NEW n \in Nodes, TimerFires(n)  PROVE TimerTypes' /\ TimersListed'
  <2>1. /\ n \in armed /\ armed' = armed \ {n} /\ UNCHANGED <<timers, gone>>
        /\ msgs' = Append(msgs, ncmd[n])
        /\ ref' = [ref EXCEPT ![ncmd[n].vdev] = @ + 1]
    BY <1>2 DEF TimerFires
  <2>2. ncmd[n] \in Cmds /\ ncmd[n].vdev \in Vdevs
    BY <1>1, <2>1, ListedCmds DEF TimerTypes, TimersListed
  <2> QED  BY <1>0, <1>1, <2>1, <2>2, RefType DEF TimerTypes, TimersListed
<1>3. ASSUME NEW n \in Nodes, TimerLost(n)  PROVE TimerTypes' /\ TimersListed'
  BY <1>0, <1>1, <1>3 DEF TimerLost, TimerTypes, TimersListed
<1>4. ASSUME NEW v \in Deletions, VdevLogicallyDeleted(v)  PROVE TimerTypes' /\ TimersListed'
  BY <1>0, <1>1, <1>4, RequestAssumption DEF VdevLogicallyDeleted, TimerTypes, TimersListed
<1>5. ASSUME NEW t \in Threads, NEW c \in Removals, UpdateTimer(t, c)  PROVE TimerTypes' /\ TimersListed'
  <2>1. (CHOOSE m \in TimersOf(c) : TRUE) \in timers
    BY <1>5 DEF UpdateTimer, TimersOf
  <2> QED  BY <1>0, <1>1, <1>5, <2>1 DEF UpdateTimer, TimerTypes, TimersListed
<1>6. ASSUME TimeoutIgnored  PROVE TimerTypes' /\ TimersListed'
  <2>1. Head(msgs) \in Cmds /\ Head(msgs).vdev \in Vdevs /\ msgs' \in Seq(Cmds)
    BY <1>0, <1>1, <1>6, CmdTypes DEF TimeoutIgnored, TimerTypes
  <2> QED  BY <1>0, <1>1, <1>6, <2>1, RefType DEF TimeoutIgnored, TimerTypes, TimersListed
<1>7. TimerTypes' /\ TimersListed'
  BY <1>2, <1>3, <1>4, <1>5, <1>6
<1> QED  BY <1>0, <1>7, StatusKept, EnvironmentStep
-----------------------------------------------------------------------------
(* Steps that only move a thread along *)

(* A thread that is not in a cancel returns from a call. *)
LEMMA ReturnStep ==
  ASSUME IndInv, NEW t \in Threads, NEW s \in Seq(Frames), Return(t, s),
         pc[t] \notin ActivationPCs \cup {"cancel", "cancel_cb"},
         UNCHANGED <<pool, pact, ppend, vact, vpend, bitmap, ncmd, flags, cx>>,
         StatusTypes', NoMoveAssert', TimerTypes', TimersListed'
  PROVE  IndInv'
<1>1. CancelTypes'
  BY DEF IndInv, TypeOK, CancelTypes
<1>2. cx'[t].removed = NoCmd
  BY DEF IndInv, Shape, ThreadShape
<1>3. Shape'
  BY <1>2, ReturnShape, ReturnThreadShape, ShapeOfOne
<1> QED  BY <1>1, <1>3, ReturnShape, QuietStep DEF Settling, OnActive, ActivationPCs

(* A removal that finds no active command changes nothing. *)
LEMMA DequeueMissingStep ==
  ASSUME IndInv, NEW t \in Threads, pc[t] \in {"idle", "dequeue"}, Return(t, stack[t]),
         UNCHANGED <<queues, timing, cx, live, bugs>>
  PROVE  IndInv'
<1>0. UNCHANGED <<pool, pact, ppend, vact, vpend, qdis, bitmap, bact, bwait, ncmd, flags,
                  timers, armed, ref, gone, msgs, cx, live, bugs>>
  BY DEF queues, timing
<1>1. StatusTypes' /\ NoMoveAssert' /\ TimerTypes' /\ TimersListed'
  BY <1>0, StatusKept, TimersKept DEF timing
<1>2. stack[t] \in Seq(Frames)
  BY DEF IndInv, TypeOK, ThreadTypes
<1> QED  BY <1>0, <1>1, <1>2, ReturnStep DEF ActivationPCs

(* The end of dequeue_cmd. *)
LEMMA ReleaseMemStep ==
  ASSUME IndInv, NEW t \in Threads, ReleaseMem(t)
  PROVE  IndInv'
<1>0. UNCHANGED <<pool, pact, ppend, vact, vpend, qdis, bitmap, bact, bwait, ncmd, flags,
                  timers, armed, ref, gone, msgs, cx, bugs>>
  BY DEF ReleaseMem, queues, timing
<1>1. stack[t] \in Seq(Frames) /\ stack[t] # <<>>
  BY DEF ReleaseMem, IndInv, TypeOK, ThreadTypes, Shape, ThreadShape
<1>2. Top(t) \in Frames /\ Tail(stack[t]) \in Seq(Frames)
  BY <1>1 DEF Top
<1>3. Top(t).cmd \in Cmds
  BY <1>2 DEF Frames
<1>4. live' \in [Cmds -> Int]
  BY <1>3 DEF ReleaseMem, IndInv, TypeOK, StatusTypes
<1>5. StatusTypes' /\ NoMoveAssert'
  BY <1>0, <1>4 DEF IndInv, TypeOK, StatusTypes, NoMoveAssert
<1>6. TimerTypes' /\ TimersListed'
  BY <1>0, TimersKept DEF timing
<1> QED  BY <1>0, <1>2, <1>5, <1>6, ReturnStep DEF ReleaseMem, ActivationPCs

(* The end of the timeout handler. *)
LEMMA TimeoutFreeStep ==
  ASSUME IndInv, NEW t \in Threads, TimeoutFree(t)
  PROVE  IndInv'
<1>0. UNCHANGED <<pool, pact, ppend, vact, vpend, qdis, bitmap, bact, bwait, ncmd, flags,
                  timers, armed, gone, msgs, cx, live, bugs>>
  BY DEF TimeoutFree, queues
<1>1. stack[t] \in Seq(Frames) /\ stack[t] # <<>>
  BY DEF TimeoutFree, IndInv, TypeOK, ThreadTypes, Shape, ThreadShape
<1>2. Top(t) \in Frames /\ Tail(stack[t]) \in Seq(Frames)
  BY <1>1 DEF Top
<1>3. Top(t).vdev \in Vdevs
  BY <1>2 DEF Frames
<1>4. StatusTypes' /\ NoMoveAssert'
  BY <1>0, StatusKept
<1>5. TimerTypes' /\ TimersListed'
  BY <1>0, <1>3, RefType DEF TimeoutFree, IndInv, TypeOK, TimerTypes, TimersListed
<1> QED  BY <1>0, <1>2, <1>4, <1>5, ReturnStep DEF TimeoutFree, ActivationPCs

(* The timeout handler finds the command active and dequeues it. *)
LEMMA TimeoutHandledStep ==
  ASSUME IndInv, TimeoutHandled
  PROVE  IndInv'
<1> DEFINE t == SchedThread
           c == Head(msgs)
           f == [op |-> "timeout", vdev |-> c.vdev, cmd |-> c, blk |-> FALSE,
                 vlookup |-> FALSE]
<1>0. /\ UNCHANGED <<pool, pact, ppend, vact, vpend, qdis, bitmap, bact, bwait, ncmd, flags,
                     timers, armed, ref, gone, node, cx, live, bugs>>
      /\ pc[t] = "idle" /\ msgs # <<>> /\ msgs' = Tail(msgs)
      /\ pc' = [pc EXCEPT ![t] = "dequeue"] /\ stack' = [stack EXCEPT ![t] = <<f>>]
  BY DEF TimeoutHandled, queues
<1>1. msgs' \in Seq(Cmds) /\ c \in Cmds
  BY <1>0 DEF IndInv, TypeOK, TimerTypes
<1>2. f \in Frames
  BY <1>1, CmdTypes DEF Frames
<1> HIDE DEF f, c
<1>3. StatusTypes' /\ NoMoveAssert'
  BY <1>0, StatusKept
<1>4. TimerTypes' /\ TimersListed'
  BY <1>0, <1>1 DEF IndInv, TypeOK, TimerTypes, TimersListed
<1>5. ThreadTypes' /\ CancelTypes'
  BY <1>0, <1>2, ThreadAssumption DEF IndInv, TypeOK, ThreadTypes, CancelTypes, PCs
<1>6. Shape'
  <2>1. pc'[t] = "dequeue" /\ stack'[t] = <<f>> /\ cx'[t].removed = NoCmd
    BY <1>0, ThreadAssumption DEF IndInv, TypeOK, ThreadTypes, Shape, ThreadShape
  <2>2. ThreadShape(t)'
    BY <2>1 DEF ThreadShape, ActivationPCs
  <2> QED  BY <1>0, <2>2, ThreadAssumption, ShapeOfOne DEF IndInv, TypeOK, ThreadTypes
<1> QED
  BY <1>0, <1>3, <1>4, <1>5, <1>6, ThreadAssumption, QuietStep
  DEF IndInv, TypeOK, ThreadTypes, Settling, OnActive, ActivationPCs

(* The loop of move_pending_to_active is left without a move. *)
LEMMA MoveOverStep ==
  ASSUME IndInv, NEW t \in Threads, MoveBreak(t) \/ MoveNothingVdev(t)
  PROVE  IndInv'
<1>0. /\ UNCHANGED <<pool, pact, ppend, vact, vpend, qdis, bitmap, bact, bwait, ncmd, flags,
                     timers, armed, ref, gone, msgs, node, stack, cx, live, bugs>>
      /\ pc[t] \in {"move", "move_resume"} /\ pc' = [pc EXCEPT ![t] = "release"]
  BY DEF MoveBreak, MoveNothingVdev, MoveEnds, MoveLoop, timing
<1>1. StatusTypes' /\ NoMoveAssert' /\ TimerTypes' /\ TimersListed'
  BY <1>0, StatusKept, TimersKept DEF timing
<1>2. ThreadTypes' /\ CancelTypes'
  BY <1>0 DEF IndInv, TypeOK, ThreadTypes, CancelTypes, PCs
<1>3. Shape'
  BY <1>0 DEF IndInv, TypeOK, ThreadTypes, Shape, ThreadShape, ActivationPCs
<1> QED
  BY <1>0, <1>1, <1>2, <1>3, QuietStep
  DEF IndInv, TypeOK, ThreadTypes, Settling, OnActive, ActivationPCs

(* A cancel or purge request starts its first pass. *)
LEMMA CancelRequestStep ==
  ASSUME IndInv, NEW t \in Threads, NEW q \in Cancels, CancelRequest(t, q)
  PROVE  IndInv'
<1> DEFINE x == [NoCancel EXCEPT !.cmd = q.cmd, !.vdev = q.vdev, !.pdev = q.pdev,
                   !.type = q.type, !.nonblock = q.nonblock, !.queues = q.queues]
<1>0. /\ UNCHANGED <<pool, pact, ppend, vact, vpend, qdis, bitmap, bact, bwait, ncmd, flags,
                     timers, armed, ref, gone, msgs, node, stack, live, bugs>>
      /\ pc[t] = "idle" /\ pc' = [pc EXCEPT ![t] = "cancel"]
      /\ cx' = [cx EXCEPT ![t] = x]
  BY DEF CancelRequest, queues, timing
<1>1. q.queues \in Seq(BOOLEAN) /\ q.queues # <<>>
  <2>1. q.queues \in {<<TRUE>>, <<FALSE>>, <<TRUE, FALSE>>, <<FALSE, TRUE>>}
    BY RequestAssumption DEF CancelFields
  <2>2. /\ <<TRUE>> \in Seq(BOOLEAN) /\ <<FALSE>> \in Seq(BOOLEAN)
        /\ <<TRUE, FALSE>> \in Seq(BOOLEAN) /\ <<FALSE, TRUE>> \in Seq(BOOLEAN)
    OBVIOUS
  <2>3. /\ <<TRUE>> # <<>> /\ <<FALSE>> # <<>>
        /\ <<TRUE, FALSE>> # <<>> /\ <<FALSE, TRUE>> # <<>>
    OBVIOUS
  <2> QED  BY <2>1, <2>2, <2>3, Zenon
<1>2. /\ q.cmd \in Cmds \cup {NoCmd} /\ q.vdev \in Vdevs \cup {NoVdev}
      /\ q.pdev \in BOOLEAN /\ q.type \in Nat \cup {NoType} /\ q.nonblock \in BOOLEAN
  BY RequestAssumption DEF CancelFields
<1>3. NoCancel \in CancelLocals /\ NoCancel.removed = NoCmd
  BY NoCancelType DEF NoCancel
<1>4. x \in CancelLocals /\ x.removed = NoCmd /\ x.queues = q.queues
  BY <1>1, <1>2, <1>3 DEF CancelLocals
<1> HIDE DEF x
<1>5. StatusTypes' /\ NoMoveAssert' /\ TimerTypes' /\ TimersListed'
  BY <1>0, StatusKept, TimersKept DEF timing
<1>6. ThreadTypes' /\ CancelTypes'
  BY <1>0, <1>4 DEF IndInv, TypeOK, ThreadTypes, CancelTypes, PCs
<1>7. /\ pc'[t] = "cancel" /\ cx'[t] = x /\ cx[t].removed = NoCmd
      /\ \A u \in Threads \ {t} : pc'[u] = pc[u] /\ cx'[u] = cx[u]
  BY <1>0 DEF IndInv, TypeOK, ThreadTypes, CancelTypes, Shape, ThreadShape
<1>8. Shape'
  <2>1. ThreadShape(t)'
    BY <1>1, <1>4, <1>7 DEF ThreadShape, ActivationPCs
  <2> QED  BY <1>0, <1>7, <2>1, ShapeOfOne
<1> QED
  BY <1>0, <1>4, <1>5, <1>6, <1>7, <1>8, QuietStep DEF Settling, OnActive, ActivationPCs

(* The CANCEL_CMD and RELEASE_MEM_CMD callbacks of a cancel. *)
LEMMA CancelCallbacksStep ==
  ASSUME IndInv, NEW t \in Threads, CancelCallbacks(t)
  PROVE  IndInv'
<1>0. /\ UNCHANGED <<pool, pact, ppend, vact, vpend, qdis, bitmap, bact, bwait, ncmd, flags,
                     timers, armed, ref, gone, msgs, node, stack, cx, bugs>>
      /\ pc[t] = "cancel_cb" /\ pc' = [pc EXCEPT ![t] = "cancel"]
  BY DEF CancelCallbacks, queues, timing
<1>1. live' \in [Cmds -> Int]
  <2>1. cx[t].removed \in Cmds
    BY <1>0 DEF IndInv, TypeOK, CancelTypes, CancelLocals, Shape, ThreadShape
  <2> QED  BY <2>1 DEF CancelCallbacks, IndInv, TypeOK, StatusTypes
<1>2. StatusTypes' /\ NoMoveAssert'
  BY <1>0, <1>1 DEF IndInv, TypeOK, StatusTypes, NoMoveAssert
<1>3. TimerTypes' /\ TimersListed'
  BY <1>0, TimersKept DEF timing
<1>4. ThreadTypes' /\ CancelTypes'
  BY <1>0 DEF IndInv, TypeOK, ThreadTypes, CancelTypes, PCs
<1>5. Shape'
  BY <1>0 DEF IndInv, TypeOK, ThreadTypes, Shape, ThreadShape, ActivationPCs
<1> QED
  BY <1>0, <1>2, <1>3, <1>4, <1>5, QuietStep
  DEF IndInv, TypeOK, ThreadTypes, Settling, OnActive, ActivationPCs

(* A cancel whose cursor has left the list changes nothing more. *)
LEMMA CancelLostStep ==
  ASSUME IndInv, NEW t \in Threads, CancelLost(t)
  PROVE  IndInv'
<1>0. /\ UNCHANGED <<pool, pact, ppend, vact, vpend, qdis, bitmap, bact, bwait, ncmd, flags,
                     timers, armed, ref, gone, msgs, pc, node, stack, cx, live>>
      /\ bugs' = bugs \cup {"cursor"}
  BY DEF CancelLost, queues, timing, locals
<1>1. StatusTypes' /\ NoMoveAssert'
  BY <1>0 DEF IndInv, TypeOK, StatusTypes, NoMoveAssert
<1> QED  BY <1>0, <1>1, TimersKept, EnvironmentStep DEF timing
-----------------------------------------------------------------------------
(* Steps that change cmd_in_use only *)

(* The activation is over: the node is no longer pinned. *)
LEMMA FinishActivationStep ==
  ASSUME IndInv, NEW t \in Threads, FinishActivation(t)
  PROVE  IndInv'
<1> DEFINE n == node[t]
<1>0. /\ UNCHANGED <<pool, pact, ppend, vact, vpend, qdis, bitmap, bact, bwait, ncmd,
                     timers, armed, ref, gone, msgs, node, stack, cx, live, bugs>>
      /\ pc[t] \in {"activated", "activate_failed"}
      /\ flags' = [flags EXCEPT ![n] = (@ \ {ACT}) \cup {INUSE}]
  BY DEF FinishActivation, timing
<1>1. /\ pc'[t] \in {"test_removal", "dequeue"}
      /\ \A u \in Threads \ {t} : pc'[u] = pc[u]
      /\ pc' \in [Threads -> PCs]
  BY DEF FinishActivation, IndInv, TypeOK, ThreadTypes, PCs
<1>2. n \in Elems(pact) /\ n \in Nodes /\ n # NoNode
  BY <1>0, ListedCmds, NodeAssumption DEF IndInv, ActivationPinned, ActivationPCs
<1>3. /\ flags' \in [Nodes -> SUBSET Flags] /\ ACT \notin flags'[n]
      /\ \A m \in Nodes \ {n} : flags'[m] = flags[m]
  BY <1>0, <1>2 DEF IndInv, TypeOK, ListTypes, Flags, ACT, INUSE
<1>4. ListTypes' /\ NodesAccounted' /\ VdevLists'
  BY <1>0, <1>2, <1>3, FlagsChanged
<1>5. StatusTypes' /\ NoMoveAssert' /\ TimerTypes' /\ TimersListed'
  BY <1>0, StatusKept, TimersKept DEF timing
<1>6. ThreadTypes' /\ CancelTypes'
  BY <1>0, <1>1 DEF IndInv, TypeOK, ThreadTypes, CancelTypes
<1>7. Shape'
  BY <1>0, <1>1, <1>2 DEF IndInv, Shape, ThreadShape, ActivationPCs
<1>8. BitmapExact' /\ SettlingAlone'
  BY <1>0, BitmapKept DEF Settling, OnActive
<1>9. ActivationPinned'
  <2>1. \A u \in Threads : pc'[u] \in ActivationPCs =>
            /\ u # t /\ pc[u] \in ActivationPCs /\ node[u] # n /\ node[u] \in Nodes
    BY <1>0, <1>1 DEF IndInv, ActivationPinned, ActivationPCs, Shape, ThreadShape
  <2>2. \A u \in Threads : pc'[u] \in ActivationPCs =>
            /\ node'[u] \in Elems(pact') /\ ACT \in flags'[node'[u]]
            /\ \A w \in Threads \ {u} : pc'[w] \in ActivationPCs => node'[w] # node'[u]
    BY <1>0, <1>3, <2>1 DEF IndInv, ActivationPinned
  <2>3. \A m \in Nodes : ACT \in flags'[m] =>
            \E u \in Threads : pc'[u] \in ActivationPCs /\ node'[u] = m
    BY <1>0, <1>1, <1>3 DEF IndInv, ActivationPinned
  <2> QED  BY <2>2, <2>3 DEF ActivationPinned
<1> QED  BY <1>4, <1>5, <1>6, <1>7, <1>8, <1>9 DEF IndInv, TypeOK

(* A command being activated is marked for removal and stays. *)
LEMMA DequeueMarkedStep ==
  ASSUME IndInv, NEW t \in Threads, NEW c \in Cmds, pc[t] \in {"idle", "dequeue"},
         DequeueMarked(t, c)
  PROVE  IndInv'
<1>1. PICK i \in DOMAIN vact[c.vdev] :
         /\ ACT \in flags[vact[c.vdev][i]]
         /\ flags' = [flags EXCEPT ![vact[c.vdev][i]] = @ \cup {REMOVAL}]
         /\ Return(t, stack[t])
         /\ UNCHANGED <<pool, pact, ppend, vact, vpend, qdis, bitmap, bact, bwait, ncmd,
                        timers, armed, ref, gone, msgs, cx, live, bugs>>
  BY DEF DequeueMarked, timing
<1> DEFINE n == vact[c.vdev][i]
<1>2. n \in Elems(pact) /\ n \in Nodes
  <2>1. n \in Elems(vact[c.vdev])
    BY DEF Elems
  <2> QED  BY <2>1, CmdTypes, ListedCmds DEF IndInv, VdevLists
<1>3. /\ flags' \in [Nodes -> SUBSET Flags]
      /\ \A m \in Nodes \ {n} : flags'[m] = flags[m]
      /\ \A m \in Nodes : ACT \in flags'[m] <=> ACT \in flags[m]
  BY <1>1, <1>2 DEF IndInv, TypeOK, ListTypes, Flags, ACT, REMOVAL
<1>4. ListTypes' /\ NodesAccounted' /\ VdevLists'
  BY <1>1, <1>2, <1>3, FlagsChanged
<1>5. StatusTypes' /\ NoMoveAssert' /\ TimerTypes' /\ TimersListed'
  BY <1>1, StatusKept, TimersKept DEF timing
<1>6. stack[t] \in Seq(Frames) /\ CancelTypes' /\ cx'[t].removed = NoCmd
  BY <1>1 DEF IndInv, TypeOK, ThreadTypes, CancelTypes, Shape, ThreadShape
<1>7. Shape'
  BY <1>1, <1>6, ReturnShape, ReturnThreadShape, ShapeOfOne
<1>8. BitmapExact' /\ SettlingAlone'
  BY <1>1, BitmapKept DEF Settling, OnActive
<1>9. ActivationPinned'
  BY <1>1, <1>3, <1>6, ReturnShape, ActivationKept DEF ActivationPCs
<1> QED
  BY <1>1, <1>4, <1>5, <1>6, <1>7, <1>8, <1>9, ReturnShape DEF IndInv, TypeOK

(* A walk of the pending list marks pending commands only. *)
LEMMA MovementMarksProps ==
  ASSUME IndInv, NEW r \in 1..(Len(ppend) + 1)
  PROVE  /\ MovementMarks(r) \in [Nodes -> SUBSET Flags]
         /\ \A n \in Nodes : /\ n \notin Elems(ppend) => MovementMarks(r)[n] = flags[n]
                             /\ ACT \in MovementMarks(r)[n] <=> ACT \in flags[n]
<1>1. /\ ppend \in Seq(Nodes) /\ flags \in [Nodes -> SUBSET Flags]
      /\ Len(ppend) \in Nat /\ DOMAIN ppend = 1..Len(ppend)
  BY DEF IndInv, TypeOK, ListTypes
<1>2. ASSUME NEW n \in Nodes
      PROVE  \/ MovementMarks(r)[n] = flags[n]
             \/ /\ n \in Elems(ppend)
                /\ MovementMarks(r)[n] \in {flags[n] \ {MOVE}, flags[n] \cup {MOVE}}
  <2>1. \A k \in 1..(r - 1) : k \in DOMAIN ppend
    BY <1>1
  <2>2. r \in 2..Len(ppend) => r \in DOMAIN ppend
    BY <1>1
  <2>3. r < Len(ppend) => r + 1 \in DOMAIN ppend
    BY <1>1
  <2> QED  BY <2>1, <2>2, <2>3 DEF MovementMarks, Elems
<1>3. MovementMarks(r) = [n \in Nodes |-> MovementMarks(r)[n]]
  BY DEF MovementMarks
<1>4. MOVE \in Flags /\ ACT # MOVE
  BY DEF Flags, ACT, MOVE
<1> QED  BY <1>1, <1>2, <1>3, <1>4

(* A walk of the pdev pending list that moves nothing. *)
LEMMA MoveNothingPdevStep ==
  ASSUME IndInv, NEW t \in Threads, MoveNothingPdev(t)
  PROVE  IndInv'
<1>0. /\ UNCHANGED <<pool, pact, ppend, vact, vpend, qdis, bitmap, bact, bwait, ncmd,
                     timers, armed, ref, gone, msgs, node, stack, cx, live, bugs>>
      /\ pc[t] \in {"move", "move_resume"} /\ pc' = [pc EXCEPT ![t] = "release"]
  BY DEF MoveNothingPdev, MoveEnds, MoveLoop, timing
<1>1. PICK r \in 1..(Len(ppend) + 1) : flags' = MovementMarks(r)
  BY DEF MoveNothingPdev
<1>2. ListTypes' /\ NodesAccounted' /\ VdevLists'
  BY <1>0, <1>1, MovementMarksProps, FlagsChanged
<1>3. StatusTypes' /\ NoMoveAssert' /\ TimerTypes' /\ TimersListed'
  BY <1>0, StatusKept, TimersKept DEF timing
<1>4. ThreadTypes' /\ CancelTypes'
  BY <1>0 DEF IndInv, TypeOK, ThreadTypes, CancelTypes, PCs
<1>5. Shape'
  BY <1>0 DEF IndInv, TypeOK, ThreadTypes, Shape, ThreadShape, ActivationPCs
<1>6. BitmapExact' /\ SettlingAlone'
  BY <1>0, BitmapKept DEF Settling, OnActive
<1>7. ActivationPinned'
  BY <1>0, <1>1, MovementMarksProps, ActivationKept
  DEF IndInv, TypeOK, ThreadTypes, ActivationPCs
<1> QED  BY <1>2, <1>3, <1>4, <1>5, <1>6, <1>7 DEF IndInv, TypeOK
-----------------------------------------------------------------------------
(* Steps that put a command into a list *)

(* A node enters the active lists of its pdev and its vdev. *)
LEMMA AddActiveLists ==
  ASSUME IndInv, NEW c \in Cmds, NEW n \in Nodes, n \notin Elems(pact),
         vact[c.vdev] = <<>>, AddActive(n, c)
  PROVE  /\ pact' \in Seq(Nodes) /\ Injective(pact') /\ Elems(pact') = Elems(pact) \cup {n}
         /\ vact' \in [Vdevs -> Seq(Nodes)]
         /\ Elems(vact'[c.vdev]) = {n} /\ Len(vact'[c.vdev]) = 1
         /\ \A v \in Vdevs \ {c.vdev} : vact'[v] = vact[v]
<1>1. /\ pact \in Seq(Nodes) /\ Injective(pact) /\ vact \in [Vdevs -> Seq(Nodes)]
      /\ c.vdev \in Vdevs
  BY CmdTypes DEF IndInv, TypeOK, ListTypes, NodesAccounted
<1>2. /\ pact' = Insert(pact, n, c)
      /\ vact' = [vact EXCEPT ![c.vdev] = Insert(vact[c.vdev], n, c)]
  BY DEF AddActive
<1>3. pact' \in Seq(Nodes) /\ Injective(pact') /\ Elems(pact') = Elems(pact) \cup {n}
  BY <1>1, <1>2, InsertProps
<1> DEFINE r == Insert(vact[c.vdev], n, c)
<1>4. vact[c.vdev] \in Seq(Nodes) /\ Elems(vact[c.vdev]) = {} /\ Len(vact[c.vdev]) = 0
  BY <1>1, ElemsProps
<1>5. /\ r \in Seq(Nodes) /\ Len(r) = Len(vact[c.vdev]) + 1
      /\ Elems(r) = Elems(vact[c.vdev]) \cup {n}
  <2>1. \A s \in Seq(Nodes) : /\ Insert(s, n, c) \in Seq(Nodes)
                               /\ Len(Insert(s, n, c)) = Len(s) + 1
                               /\ Elems(Insert(s, n, c)) = Elems(s) \cup {n}
    BY InsertProps
  <2> QED  BY <1>4, <2>1, Zenon
<1>6. r \in Seq(Nodes) /\ Elems(r) = {n} /\ Len(r) = 1
  BY <1>4, <1>5
<1> HIDE DEF r
<1> QED  BY <1>1, <1>2, <1>3, <1>6 DEF r

(* The bit of the vdev is set with the node. *)
LEMMA AddActiveBitmap ==
  ASSUME IndInv, NEW c \in Cmds, NEW n \in Nodes, n \notin Elems(pact),
         c.vdev \notin bitmap, AddActive(n, c), UNCHANGED cx
  PROVE  /\ vact[c.vdev] = <<>> /\ BitmapExact' /\ SettlingAlone'
         /\ bitmap' \subseteq Vdevs /\ bact' \in BOOLEAN
<1>1. c.vdev \in Vdevs /\ c.is_blocking \in BOOLEAN
  BY CmdTypes
<1>2. /\ vact[c.vdev] = <<>>
      /\ \A t \in Threads : Settling(t) => cx[t].removed.vdev # c.vdev
  BY <1>1 DEF IndInv, BitmapExact
<1>3. /\ Elems(vact'[c.vdev]) = {n} /\ Len(vact'[c.vdev]) = 1
      /\ \A v \in Vdevs \ {c.vdev} : vact'[v] = vact[v]
      /\ vact' \in [Vdevs -> Seq(Nodes)]
  BY <1>2, AddActiveLists
<1>4. vact'[c.vdev] # <<>>
  BY <1>1, <1>3, ElemsProps
<1>5. bitmap' = bitmap \cup {c.vdev}
  BY DEF AddActive
<1>6. \A t \in Threads : Settling(t)' <=> Settling(t)
  BY DEF Settling, OnActive
<1>7. BitmapExact'
  <2> SUFFICES ASSUME NEW v \in Vdevs
               PROVE  /\ Len(vact'[v]) <= 1
                      /\ v \in bitmap' <=> \/ vact'[v] # <<>>
                                           \/ \E t \in Threads : /\ Settling(t)'
                                                                  /\ cx'[t].removed.vdev = v
    BY DEF BitmapExact
  <2>1. CASE v = c.vdev
    BY <2>1, <1>3, <1>4, <1>5
  <2>2. CASE v # c.vdev
    BY <2>2, <1>3, <1>5, <1>6 DEF IndInv, BitmapExact
  <2> QED  BY <2>1, <2>2
<1>8. SettlingAlone'
  <2>1. \A t \in Threads : Settling(t) => cx[t].removed.vdev \in Vdevs
    BY CmdTypes DEF Settling, IndInv, TypeOK, CancelTypes, CancelLocals
  <2>2. \A t \in Threads : Settling(t) => vact'[cx[t].removed.vdev] = <<>>
    BY <1>2, <1>3, <2>1 DEF IndInv, SettlingAlone
  <2>3. \A t \in Threads : \A u \in Threads \ {t} :
            Settling(t) /\ Settling(u) => cx[u].removed.vdev # cx[t].removed.vdev
    BY DEF IndInv, SettlingAlone
  <2> QED  BY <1>6, <2>2, <2>3 DEF SettlingAlone
<1>9. bitmap' \subseteq Vdevs /\ bact' \in BOOLEAN
  BY <1>1 DEF AddActive, IndInv, TypeOK, StatusTypes
<1> QED  BY <1>2, <1>7, <1>8, <1>9

(* The thread that made a command active is the one that activates it. *)
LEMMA ActivationStarts ==
  ASSUME IndInv, NEW t \in Threads, NEW n \in Nodes, n \notin Elems(pact),
         pc[t] \notin ActivationPCs, Elems(pact') = Elems(pact) \cup {n},
         ACT \in flags'[n],
         \A m \in Nodes \ {n} : ACT \in flags'[m] <=> ACT \in flags[m],
         pc' = [pc EXCEPT ![t] = "start_timer"], node' = [node EXCEPT ![t] = n]
  PROVE  ActivationPinned'
<1>1. /\ pc'[t] = "start_timer" /\ node'[t] = n
      /\ \A u \in Threads \ {t} : pc'[u] = pc[u] /\ node'[u] = node[u]
  BY DEF IndInv, TypeOK, ThreadTypes
<1>2. \A u \in Threads : pc[u] \in ActivationPCs => node[u] \in Nodes /\ node[u] # n
  BY DEF IndInv, Shape, ThreadShape, ActivationPinned
<1>3. \A u \in Threads : pc'[u] \in ActivationPCs =>
          /\ node'[u] \in Elems(pact') /\ ACT \in flags'[node'[u]]
          /\ \A w \in Threads \ {u} : pc'[w] \in ActivationPCs => node'[w] # node'[u]
  BY <1>1, <1>2 DEF IndInv, ActivationPinned
<1>4. \A m \in Nodes : ACT \in flags'[m] =>
          \E u \in Threads : pc'[u] \in ActivationPCs /\ node'[u] = m
  <2> SUFFICES ASSUME NEW m \in Nodes, ACT \in flags'[m]
               PROVE  \E u \in Threads : pc'[u] \in ActivationPCs /\ node'[u] = m
    OBVIOUS
  <2>1. CASE m = n
    BY <1>1, <2>1 DEF ActivationPCs
  <2>2. CASE m # n
    BY <1>1, <2>2 DEF IndInv, ActivationPinned
  <2> QED  BY <2>1, <2>2
<1> QED  BY <1>3, <1>4 DEF ActivationPinned

(* Which lists a node enters, and what is left alone *)
LEMMA PendingLists ==
  ASSUME IndInv, NEW c \in Cmds, NEW n \in pool,
         pool' = pool \ {n}, ncmd' = [ncmd EXCEPT ![n] = c],
         vpend' = [vpend EXCEPT ![c.vdev] = Insert(@, n, c)], ppend' = Insert(ppend, n, c),
         UNCHANGED <<pact, vact, flags>>
  PROVE  ListTypes' /\ NodesAccounted' /\ VdevLists'
<1> DEFINE v == c.vdev
           r == Insert(vpend[v], n, c)
<1>1. /\ n \in Nodes /\ v \in Vdevs /\ c # NoCmd /\ ppend \in Seq(Nodes)
      /\ pact \in Seq(Nodes)
      /\ vpend \in [Vdevs -> Seq(Nodes)] /\ Injective(ppend) /\ Injective(vpend[v])
      /\ n \notin Elems(ppend) /\ n \notin Elems(pact)
      /\ ncmd \in [Nodes -> Cmds \cup {NoCmd}]
  BY CmdTypes DEF IndInv, TypeOK, ListTypes, NodesAccounted, VdevLists
<1>2. n \notin Elems(vpend[v]) /\ vpend[v] \in Seq(Nodes)
  BY <1>1 DEF IndInv, VdevLists
<1>3. /\ ppend' \in Seq(Nodes) /\ Injective(ppend') /\ Elems(ppend') = Elems(ppend) \cup {n}
  BY <1>1, InsertProps
<1>4. /\ r \in Seq(Nodes) /\ Injective(r) /\ Elems(r) = Elems(vpend[v]) \cup {n}
  BY <1>1, <1>2, InsertProps
<1>5. vpend'[v] = r /\ \A w \in Vdevs \ {v} : vpend'[w] = vpend[w]
  BY <1>1
<1>6. vpend' \in [Vdevs -> Seq(Nodes)]
  BY <1>1, <1>4
<1>7. ncmd'[n] = c /\ \A m \in Nodes \ {n} : ncmd'[m] = ncmd[m]
  BY <1>1
<1> HIDE DEF r
<1>8. ListTypes'
  BY <1>1, <1>3, <1>6 DEF IndInv, TypeOK, ListTypes
<1>9. NodesAccounted'
  BY <1>1, <1>3, <1>7 DEF IndInv, NodesAccounted
<1>10. VdevLists'
  <2> SUFFICES ASSUME NEW w \in Vdevs
               PROVE  /\ Elems(vact[w]) = {m \in Elems(pact) : ncmd'[m].vdev = w}
                      /\ Elems(vpend'[w]) = {m \in Elems(ppend') : ncmd'[m].vdev = w}
                      /\ Injective(vpend'[w])
    BY DEF VdevLists
  <2>1. \A m \in Elems(pact) \cup Elems(ppend) : m \in Nodes \ {n}
    BY <1>1, ElemsProps
  <2>2. Elems(vact[w]) = {m \in Elems(pact) : ncmd'[m].vdev = w}
    BY <1>7, <2>1 DEF IndInv, VdevLists
  <2>3. {m \in Elems(ppend) : ncmd'[m].vdev = w} = Elems(vpend[w]) /\ Injective(vpend[w])
    BY <1>7, <2>1 DEF IndInv, VdevLists
  <2>4. CASE w = v
    BY <1>3, <1>4, <1>5, <1>7, <2>2, <2>3, <2>4
  <2>5. CASE w # v
    BY <1>3, <1>5, <1>7, <2>2, <2>3, <2>5
  <2> QED  BY <2>4, <2>5
<1> QED  BY <1>8, <1>9, <1>10

(* A request that is queued as pending. *)
LEMMA RequestPendingStep ==
  ASSUME IndInv, NEW t \in Threads, NEW c \in Cmds, RequestPending(t, c)
  PROVE  IndInv'
<1>1. PICK n \in Nodes :
        /\ RequestAccepted(t, c, n)
        /\ vpend' = [vpend EXCEPT ![c.vdev] = Insert(@, n, c)]
        /\ ppend' = Insert(ppend, n, c)
        /\ UNCHANGED <<pact, vact, bitmap, bact, flags, timers, armed, ref, gone, msgs,
                       pc, node, stack, cx, bugs>>
  BY DEF RequestPending, timing, locals
<1>2. /\ n \in pool /\ pool' = pool \ {n} /\ ncmd' = [ncmd EXCEPT ![n] = c]
      /\ CountWaiting(c) /\ DisableBy(c) /\ live' = [live EXCEPT ![c] = @ + 1]
  BY <1>1 DEF RequestAccepted, RequestMade
<1>3. ListTypes' /\ NodesAccounted' /\ VdevLists'
  BY <1>1, <1>2, PendingLists
<1>4. bwait' \in UInt16 /\ qdis' \subseteq Vdevs
  BY <1>2, RequestStatus
<1>5. live' \in [Cmds -> Int]
  BY <1>2 DEF IndInv, TypeOK, StatusTypes
<1>6. StatusTypes' /\ NoMoveAssert'
  BY <1>1, <1>4, <1>5 DEF IndInv, TypeOK, StatusTypes, NoMoveAssert
<1>7. TimerTypes' /\ TimersListed'
  BY <1>1, TimersKept DEF timing
<1>8. ThreadTypes' /\ CancelTypes'
  BY <1>1 DEF IndInv, TypeOK, ThreadTypes, CancelTypes
<1>9. Shape'
  BY <1>1 DEF IndInv, Shape, ThreadShape
<1>10. BitmapExact' /\ SettlingAlone'
  BY <1>1, BitmapKept DEF Settling, OnActive
<1>11. ActivationPinned'
  BY <1>1, ActivationKept
<1> QED  BY <1>3, <1>6, <1>7, <1>8, <1>9, <1>10, <1>11 DEF IndInv, TypeOK

(* The list invariants after a free node entered the active lists. *)
LEMMA ActiveLists ==
  ASSUME IndInv, NEW c \in Cmds, NEW n \in pool, vact[c.vdev] = <<>>,
         pool' = pool \ {n}, ncmd' = [ncmd EXCEPT ![n] = c], AddActive(n, c),
         flags' = [flags EXCEPT ![n] = @ \cup {ACT}], UNCHANGED <<ppend, vpend>>
  PROVE  ListTypes' /\ NodesAccounted' /\ VdevLists'
<1>1. /\ n \in Nodes /\ c.vdev \in Vdevs /\ c # NoCmd /\ pact \in Seq(Nodes)
      /\ ppend \in Seq(Nodes) /\ flags \in [Nodes -> SUBSET Flags]
      /\ n \notin Elems(ppend) /\ n \notin Elems(pact)
      /\ ncmd \in [Nodes -> Cmds \cup {NoCmd}]
  BY CmdTypes DEF IndInv, TypeOK, ListTypes, NodesAccounted
<1>2. /\ pact' \in Seq(Nodes) /\ Injective(pact') /\ Elems(pact') = Elems(pact) \cup {n}
      /\ vact' \in [Vdevs -> Seq(Nodes)]
      /\ Elems(vact'[c.vdev]) = {n}
      /\ \A v \in Vdevs \ {c.vdev} : vact'[v] = vact[v]
  BY <1>1, AddActiveLists
<1>3. ncmd'[n] = c /\ \A m \in Nodes \ {n} : ncmd'[m] = ncmd[m]
  BY <1>1
<1>4. flags' \in [Nodes -> SUBSET Flags] /\ \A m \in Nodes \ {n} : flags'[m] = flags[m]
  BY <1>1 DEF Flags, ACT
<1>5. ListTypes'
  BY <1>1, <1>2, <1>4 DEF IndInv, TypeOK, ListTypes
<1>6. NodesAccounted'
  BY <1>1, <1>2, <1>3, <1>4 DEF IndInv, NodesAccounted
<1>7. VdevLists'
  <2> SUFFICES ASSUME NEW w \in Vdevs
               PROVE  /\ Elems(vact'[w]) = {m \in Elems(pact') : ncmd'[m].vdev = w}
                      /\ Elems(vpend[w]) = {m \in Elems(ppend) : ncmd'[m].vdev = w}
                      /\ Injective(vpend[w])
    BY DEF VdevLists
  <2>1. \A m \in Elems(pact) \cup Elems(ppend) : m \in Nodes \ {n}
    BY <1>1, ElemsProps
  <2>2. /\ Elems(vpend[w]) = {m \in Elems(ppend) : ncmd'[m].vdev = w}
        /\ Injective(vpend[w])
    BY <1>3, <2>1 DEF IndInv, VdevLists
  <2>3. {m \in Elems(pact) : ncmd'[m].vdev = w} = Elems(vact[w])
    BY <1>3, <2>1 DEF IndInv, VdevLists
  <2>4. CASE w = c.vdev
    <3>1. Elems(vact[w]) = {}
      BY <2>4 DEF Elems
    <3> QED  BY <1>2, <1>3, <2>2, <2>3, <2>4, <3>1
  <2>5. CASE w # c.vdev
    BY <1>2, <1>3, <2>2, <2>3, <2>5
  <2> QED  BY <2>4, <2>5
<1> QED  BY <1>5, <1>6, <1>7

(* A request that is queued as active. *)
LEMMA RequestActiveStep ==
  ASSUME IndInv, NEW t \in Threads, NEW c \in Cmds, RequestActive(t, c)
  PROVE  IndInv'
<1>1. PICK n \in Nodes :
        /\ IsActiveCmdAllowed(c) /\ RequestAccepted(t, c, n) /\ AddActive(n, c)
        /\ flags' = [flags EXCEPT ![n] = @ \cup {ACT}]
        /\ pc' = [pc EXCEPT ![t] = "start_timer"]
        /\ node' = [node EXCEPT ![t] = n]
        /\ UNCHANGED <<ppend, vpend, stack, cx, timers, armed, ref, gone, msgs, bugs>>
  BY DEF RequestActive, timing
<1>2. /\ n \in pool /\ pool' = pool \ {n} /\ ncmd' = [ncmd EXCEPT ![n] = c]
      /\ CountWaiting(c) /\ DisableBy(c) /\ live' = [live EXCEPT ![c] = @ + 1]
      /\ pc[t] = "idle" /\ n \notin Elems(pact)
  BY <1>1 DEF RequestAccepted, RequestMade, IndInv, NodesAccounted
<1>3. c.vdev \notin bitmap
  BY <1>1, CmdTypes DEF IsActiveCmdAllowed, IsActiveNonScanCmdAllowed, AnyVdevCmdActive
<1>4. /\ vact[c.vdev] = <<>> /\ BitmapExact' /\ SettlingAlone'
      /\ bitmap' \subseteq Vdevs /\ bact' \in BOOLEAN
  BY <1>1, <1>2, <1>3, AddActiveBitmap
<1>5. ListTypes' /\ NodesAccounted' /\ VdevLists'
  BY <1>1, <1>2, <1>4, ActiveLists
<1>6. bwait' \in UInt16 /\ qdis' \subseteq Vdevs
  BY <1>2, RequestStatus
<1>7. live' \in [Cmds -> Int]
  BY <1>2 DEF IndInv, TypeOK, StatusTypes
<1>8. StatusTypes' /\ NoMoveAssert'
  BY <1>1, <1>4, <1>6, <1>7 DEF IndInv, TypeOK, StatusTypes, NoMoveAssert
<1>9. Elems(pact') = Elems(pact) \cup {n}
  BY <1>1, <1>2, <1>4, AddActiveLists
<1>10. TimerTypes' /\ TimersListed'
  BY <1>1, <1>9 DEF IndInv, TypeOK, TimerTypes, TimersListed
<1>11. ThreadTypes' /\ CancelTypes'
  BY <1>1 DEF IndInv, TypeOK, ThreadTypes, CancelTypes, PCs
<1>12. Shape'
  <2>1. /\ pc'[t] = "start_timer" /\ node'[t] = n /\ cx'[t].removed = NoCmd
        /\ \A u \in Threads \ {t} : pc'[u] = pc[u] /\ node'[u] = node[u]
    BY <1>1, <1>2 DEF IndInv, TypeOK, ThreadTypes, Shape, ThreadShape
  <2>2. ThreadShape(t)'
    BY <2>1 DEF ThreadShape, ActivationPCs
  <2> QED  BY <1>1, <2>1, <2>2, ShapeOfOne
<1>13. ActivationPinned'
  <2>1. ACT \in flags'[n] /\ \A m \in Nodes \ {n} : flags'[m] = flags[m]
    BY <1>1 DEF IndInv, TypeOK, ListTypes
  <2> QED  BY <1>1, <1>2, <1>9, <2>1, ActivationStarts DEF ActivationPCs
<1> QED  BY <1>4, <1>5, <1>8, <1>10, <1>11, <1>12, <1>13 DEF IndInv, TypeOK

(* A node leaves the pending lists and enters the active ones. *)
LEMMA MovedLists ==
  ASSUME IndInv, NEW n \in Elems(ppend), vact[ncmd[n].vdev] = <<>>,
         vpend' = [vpend EXCEPT ![ncmd[n].vdev] = Without(@, n)],
         ppend' = Without(ppend, n), AddActive(n, ncmd[n]), UNCHANGED <<pool, ncmd>>,
         flags' \in [Nodes -> SUBSET Flags], \A m \in pool : flags'[m] = {}
  PROVE  ListTypes' /\ NodesAccounted' /\ VdevLists'
<1> DEFINE c == ncmd[n]
           v == c.vdev
           r == Without(vpend[v], n)
<1>1. /\ n \in Nodes /\ c \in Cmds /\ v \in Vdevs /\ n \in Elems(vpend[v]) /\ n \notin pool
  BY ListedCmds
<1>2. /\ pact \in Seq(Nodes) /\ ppend \in Seq(Nodes) /\ vpend \in [Vdevs -> Seq(Nodes)]
      /\ n \notin Elems(pact) /\ Injective(ppend) /\ Injective(vpend[v])
  BY <1>1 DEF IndInv, TypeOK, ListTypes, NodesAccounted, VdevLists
<1>3. /\ ppend' \in Seq(Nodes) /\ Injective(ppend') /\ Elems(ppend') = Elems(ppend) \ {n}
  BY <1>2, WithoutProps
<1>4. /\ r \in Seq(Nodes) /\ Injective(r) /\ Elems(r) = Elems(vpend[v]) \ {n}
  BY <1>1, <1>2, WithoutProps
<1>5. /\ pact' \in Seq(Nodes) /\ Injective(pact') /\ Elems(pact') = Elems(pact) \cup {n}
      /\ vact' \in [Vdevs -> Seq(Nodes)] /\ Elems(vact'[v]) = {n}
      /\ \A w \in Vdevs \ {v} : vact'[w] = vact[w]
  BY <1>1, <1>2, AddActiveLists
<1>6. vpend'[v] = r /\ \A w \in Vdevs \ {v} : vpend'[w] = vpend[w]
  BY <1>1, <1>2
<1>7. vpend' \in [Vdevs -> Seq(Nodes)]
  BY <1>1, <1>2, <1>4
<1> HIDE DEF r
<1>8. ListTypes'
  BY <1>3, <1>5, <1>7 DEF IndInv, TypeOK, ListTypes
<1>9. NodesAccounted'
  BY <1>1, <1>2, <1>3, <1>5 DEF IndInv, NodesAccounted
<1>10. VdevLists'
  <2> SUFFICES ASSUME NEW w \in Vdevs
               PROVE  /\ Elems(vact'[w]) = {m \in Elems(pact') : ncmd[m].vdev = w}
                      /\ Elems(vpend'[w]) = {m \in Elems(ppend') : ncmd[m].vdev = w}
                      /\ Injective(vpend'[w])
    BY DEF VdevLists
  <2>1. /\ Elems(vact[w]) = {m \in Elems(pact) : ncmd[m].vdev = w}
        /\ Elems(vpend[w]) = {m \in Elems(ppend) : ncmd[m].vdev = w}
        /\ Injective(vpend[w])
    BY DEF IndInv, VdevLists
  <2>2. CASE w = v
    <3>1. Elems(vact[w]) = {}
      BY <2>2 DEF Elems
    <3>2. /\ Elems(vact'[w]) = {m \in Elems(pact') : ncmd[m].vdev = w}
      BY <1>5, <2>1, <2>2, <3>1
    <3> QED  BY <1>3, <1>4, <1>6, <2>1, <2>2, <3>2
  <2>3. CASE w # v
    BY <1>3, <1>5, <1>6, <2>1, <2>3
  <2> QED  BY <2>2, <2>3
<1> QED  BY <1>8, <1>9, <1>10

(* The vdev's bit is clear, so there is room: the assertion is not reached. *)
LEMMA PendingToActiveStep ==
  ASSUME IndInv, NEW t \in Threads, pc[t] \in {"move", "move_resume"},
         NEW n \in Elems(ppend), ncmd[n].vdev \notin bitmap,
         NEW marked \in [Nodes -> SUBSET Flags],
         \A m \in Nodes : /\ m \notin Elems(ppend) => marked[m] = flags[m]
                          /\ ACT \in marked[m] <=> ACT \in flags[m],
         PendingToActive(t, n, marked)
  PROVE  IndInv'
<1> DEFINE c == ncmd[n]
           f == [Top(t) EXCEPT !.vlookup = VdevLookup(t)]
<1>1. n \in Nodes /\ c \in Cmds /\ c.vdev \in Vdevs /\ n \notin pool /\ n \notin Elems(pact)
  BY ListedCmds DEF IndInv, NodesAccounted
<1>2. vact[c.vdev] = <<>>
  BY <1>1 DEF IndInv, BitmapExact
<1>3. ~(Full(vact[c.vdev], MaxVdevActive) \/ Full(pact, MaxActiveCmds))
  BY <1>1, <1>2, ActiveRoom
<1>4. /\ vpend' = [vpend EXCEPT ![c.vdev] = Without(@, n)]
      /\ ppend' = Without(ppend, n)
      /\ stack' = [stack EXCEPT ![t] = <<f>> \o Tail(@)]
      /\ AddActive(n, c)
      /\ flags' = [marked EXCEPT ![n] = @ \cup {ACT}]
      /\ bwait' = IF c.is_blocking THEN Dec16(bwait) ELSE bwait
      /\ pc' = [pc EXCEPT ![t] = "start_timer"]
      /\ node' = [node EXCEPT ![t] = n]
      /\ DisableBy(c)
      /\ UNCHANGED <<pool, bugs, ncmd, timers, armed, ref, gone, msgs, cx, live>>
  BY <1>3 DEF PendingToActive, timing
<1>5. /\ flags' \in [Nodes -> SUBSET Flags] /\ ACT \in flags'[n]
      /\ \A m \in Nodes \ {n} : flags'[m] = marked[m]
  BY <1>1, <1>4 DEF Flags, ACT
<1>6. \A m \in pool : flags'[m] = {}
  BY <1>1, <1>5 DEF IndInv, TypeOK, ListTypes, NodesAccounted
<1>7. ListTypes' /\ NodesAccounted' /\ VdevLists'
  BY <1>2, <1>4, <1>5, <1>6, MovedLists
<1>8. /\ BitmapExact' /\ SettlingAlone' /\ bitmap' \subseteq Vdevs /\ bact' \in BOOLEAN
  BY <1>1, <1>4, AddActiveBitmap
<1>9. bwait' \in UInt16 /\ qdis' \subseteq Vdevs
  <2>1. bwait' \in UInt16
    BY <1>4, WaitingType DEF IndInv, TypeOK, StatusTypes
  <2>2. qdis' \subseteq Vdevs
    BY <1>1, <1>4 DEF DisableBy, IndInv, TypeOK, StatusTypes
  <2> QED  BY <2>1, <2>2
<1>10. StatusTypes' /\ NoMoveAssert'
  BY <1>4, <1>8, <1>9 DEF IndInv, TypeOK, StatusTypes, NoMoveAssert
<1>11. Elems(pact') = Elems(pact) \cup {n}
  BY <1>1, <1>2, <1>4, AddActiveLists
<1>12. TimerTypes' /\ TimersListed'
  BY <1>4, <1>11 DEF IndInv, TypeOK, TimerTypes, TimersListed
<1>13. stack[t] \in Seq(Frames) /\ stack[t] # <<>>
  BY DEF IndInv, TypeOK, ThreadTypes, Shape, ThreadShape
<1>14. Top(t) \in Frames /\ Tail(stack[t]) \in Seq(Frames)
  BY <1>13 DEF Top
<1>15. f \in Frames
  <2>1. VdevLookup(t) \in BOOLEAN
    BY <1>14 DEF VdevLookup, Frames
  <2> QED  BY <1>14, <2>1 DEF Frames
<1> HIDE DEF f
<1>16. <<f>> \o Tail(stack[t]) \in Seq(Frames)
  BY <1>14, <1>15
<1>17. ThreadTypes' /\ CancelTypes'
  BY <1>1, <1>4, <1>16 DEF IndInv, TypeOK, ThreadTypes, CancelTypes, PCs
<1>18. Shape'
  <2>1. /\ pc'[t] = "start_timer" /\ node'[t] = n /\ cx'[t].removed = NoCmd
        /\ \A u \in Threads \ {t} : pc'[u] = pc[u] /\ node'[u] = node[u] /\ stack'[u] = stack[u]
    BY <1>4 DEF IndInv, TypeOK, ThreadTypes, Shape, ThreadShape
  <2>2. ThreadShape(t)'
    BY <1>1, <2>1 DEF ThreadShape, ActivationPCs
  <2> QED  BY <1>4, <2>1, <2>2, ShapeOfOne
<1>19. ActivationPinned'
  BY <1>1, <1>4, <1>5, <1>11, ActivationStarts DEF ActivationPCs
<1> QED  BY <1>7, <1>8, <1>10, <1>12, <1>17, <1>18, <1>19 DEF IndInv, TypeOK

(* A command is moved from the vdev pending list. *)
LEMMA MoveFromVdevStep ==
  ASSUME IndInv, NEW t \in Threads, MoveFromVdev(t)
  PROVE  IndInv'
<1> DEFINE v == Top(t).vdev
           n == Head(vpend[v])
<1>1. pc[t] \in {"move", "move_resume"} /\ VdevCandidate(v) /\ PendingToActive(t, n, flags)
  BY DEF MoveFromVdev, MoveLoop
<1>2. v \in Vdevs
  <2>1. stack[t] \in Seq(Frames) /\ stack[t] # <<>>
    BY <1>1 DEF IndInv, TypeOK, ThreadTypes, Shape, ThreadShape
  <2>2. Top(t) \in Frames
    BY <2>1 DEF Top
  <2> QED  BY <2>2 DEF Frames
<1>3. n \in Elems(vpend[v])
  BY <1>1, <1>2, ElemsProps DEF VdevCandidate, IndInv, TypeOK, ListTypes
<1>4. n \in Elems(ppend) /\ ncmd[n].vdev = v
  BY <1>2, <1>3 DEF IndInv, VdevLists
<1> QED
  BY <1>1, <1>4, PendingToActiveStep DEF VdevCandidate, IndInv, TypeOK, ListTypes

(* A command is moved from the pdev pending list. *)
LEMMA MoveFromPdevStep ==
  ASSUME IndInv, NEW t \in Threads, MoveFromPdev(t)
  PROVE  IndInv'
<1>1. PICK r \in DOMAIN ppend : /\ FirstStop(r) /\ ~BlockedAt(r)
                                /\ PendingToActive(t, ppend[r], MovementMarks(r))
  BY DEF MoveFromPdev
<1>2. pc[t] \in {"move", "move_resume"}
  BY DEF MoveFromPdev, MoveLoop
<1>3. r \in 1..(Len(ppend) + 1) /\ ppend[r] \in Elems(ppend)
  BY DEF IndInv, TypeOK, ListTypes, Elems
<1>4. ncmd[ppend[r]].vdev \notin bitmap
  <2>1. r <= Len(ppend)
    BY DEF IndInv, TypeOK, ListTypes
  <2> QED  BY <1>1, <2>1 DEF FirstStop, StopsAt
<1> QED  BY <1>1, <1>2, <1>3, <1>4, MovementMarksProps, PendingToActiveStep
-----------------------------------------------------------------------------
(* Steps that take a command out of a list *)

(* A vdev has at most one active command. *)
LEMMA ActiveOfVdev ==
  ASSUME IndInv, NEW m \in Elems(pact), NEW n \in Elems(pact), ncmd[m].vdev = ncmd[n].vdev
  PROVE  m = n
<1> DEFINE v == ncmd[n].vdev
<1>1. v \in Vdevs /\ m \in Elems(vact[v]) /\ n \in Elems(vact[v])
  BY ListedCmds
<1>2. vact[v] \in Seq(Nodes) /\ Len(vact[v]) <= 1
  BY <1>1 DEF IndInv, TypeOK, ListTypes, BitmapExact
<1> QED  BY <1>1, <1>2, ElemsProps

(* The timer found by id, type and vdev is the command's own. *)
LEMMA StopTimerProps ==
  ASSUME IndInv, NEW n \in Elems(pact), StopTimer(ncmd[n]), UNCHANGED <<gone, msgs>>
  PROVE  TimerTypes' /\ timers' \subseteq Elems(pact) \ {n}
<1> DEFINE c == ncmd[n]
           m == CHOOSE x \in TimersOf(c) : TRUE
<1>1. TimerTypes /\ timers \subseteq Elems(pact) /\ c.vdev \in Vdevs /\ c # NoCmd
  BY ListedCmds, CmdTypes DEF IndInv, TypeOK, TimersListed
<1>2. \A x \in TimersOf(c) : x \in timers /\ x = n
  <2> SUFFICES ASSUME NEW x \in TimersOf(c)  PROVE x \in timers /\ x = n
    OBVIOUS
  <2>1. x \in timers /\ x \in Elems(pact) /\ ncmd[x].vdev = ncmd[n].vdev
    BY <1>1 DEF TimersOf, MatchIdVdev
  <2> QED  BY <2>1, ActiveOfVdev
<1>3. CASE TimersOf(c) = {}
  <2>1. UNCHANGED <<timers, armed, ref>>
    BY <1>3 DEF StopTimer
  <2>2. n \notin timers
    BY <1>1, <1>3 DEF TimersOf, MatchIdVdev, MatchIdType
  <2> QED  BY <1>1, <2>1, <2>2 DEF TimerTypes
<1>4. CASE TimersOf(c) # {}
  <2>1. m = n
    BY <1>2, <1>4
  <2>2. /\ timers' = timers \ {m} /\ armed' = armed \ {m}
        /\ ref' = [ref EXCEPT ![c.vdev] = @ - 1]
    BY <1>4 DEF StopTimer
  <2> HIDE DEF m
  <2> QED  BY <1>1, <2>1, <2>2, RefType DEF TimerTypes
<1> QED  BY <1>3, <1>4

(* A command that is not being activated leaves the active lists. *)
LEMMA FreedActive ==
  ASSUME IndInv, NEW n \in Elems(pact), NEW j \in DOMAIN pact, n = pact[j],
         pact' = Del(pact, j), vact' \in [Vdevs -> Seq(Nodes)], vact'[ncmd[n].vdev] = <<>>,
         \A w \in Vdevs \ {ncmd[n].vdev} : vact'[w] = vact[w],
         NEW fl \in [Nodes -> SUBSET Flags], \A m \in pool : fl[m] = flags[m],
         FreeNode(n, fl), UNCHANGED <<ppend, vpend>>
  PROVE  /\ ListTypes' /\ NodesAccounted' /\ VdevLists'
         /\ Elems(pact') = Elems(pact) \ {n}
<1> DEFINE v == ncmd[n].vdev
<1>1. n \in Nodes /\ v \in Vdevs /\ n \notin Elems(ppend) /\ n \notin pool
  BY ListedCmds DEF IndInv, NodesAccounted
<1>2. /\ pact \in Seq(Nodes) /\ Injective(pact) /\ ppend \in Seq(Nodes)
      /\ ncmd \in [Nodes -> Cmds \cup {NoCmd}] /\ pool \subseteq Nodes
  BY DEF IndInv, TypeOK, ListTypes, NodesAccounted
<1>3. pact' \in Seq(Nodes) /\ Injective(pact') /\ Elems(pact') = Elems(pact) \ {n}
  BY <1>2, DelProps
<1>4. /\ ncmd' \in [Nodes -> Cmds \cup {NoCmd}] /\ ncmd'[n] = NoCmd
      /\ \A m \in Nodes \ {n} : ncmd'[m] = ncmd[m]
  BY <1>1, <1>2 DEF FreeNode
<1>5. /\ flags' \in [Nodes -> SUBSET Flags] /\ flags'[n] = {} /\ pool' = pool \cup {n}
      /\ \A m \in pool : flags'[m] = flags[m]
  BY <1>1, <1>2 DEF FreeNode
<1>6. ListTypes'
  BY <1>1, <1>3, <1>4, <1>5 DEF IndInv, TypeOK, ListTypes
<1>7. NodesAccounted'
  <2>1. NodesAccounted
    BY DEF IndInv
  <2>2. Injective(pact') /\ Injective(ppend') /\ Elems(pact') \cap Elems(ppend') = {}
    BY <1>3, <2>1 DEF NodesAccounted
  <2>3. /\ pool' \cap (Elems(pact') \cup Elems(ppend')) = {}
        /\ Nodes = pool' \cup Elems(pact') \cup Elems(ppend')
    BY <1>1, <1>3, <1>5, <2>1 DEF NodesAccounted
  <2>4. \A m \in Nodes : m \in pool' <=> ncmd'[m] = NoCmd
    BY <1>4, <1>5, <2>1 DEF NodesAccounted
  <2>5. \A m \in pool' : flags'[m] = {}
    BY <1>5, <2>1 DEF NodesAccounted
  <2> QED  BY <2>2, <2>3, <2>4, <2>5 DEF NodesAccounted
<1>8. VdevLists'
  <2> SUFFICES ASSUME NEW w \in Vdevs
               PROVE  /\ Elems(vact'[w]) = {m \in Elems(pact') : ncmd'[m].vdev = w}
                      /\ Elems(vpend[w]) = {m \in Elems(ppend) : ncmd'[m].vdev = w}
                      /\ Injective(vpend[w])
    BY DEF VdevLists
  <2>1. \A m \in Elems(ppend) \cup Elems(pact') : m \in Nodes \ {n}
    BY <1>1, <1>2, <1>3, ElemsProps
  <2>2. /\ Elems(vpend[w]) = {m \in Elems(ppend) : ncmd'[m].vdev = w}
        /\ Injective(vpend[w])
    <3>1. /\ Elems(vpend[w]) = {m \in Elems(ppend) : ncmd[m].vdev = w}
          /\ Injective(vpend[w])
      BY DEF IndInv, VdevLists
    <3>2. \A m \in Elems(ppend) : ncmd'[m] = ncmd[m]
      BY <1>4, <2>1
    <3> QED  BY ONLY <3>1, <3>2
  <2>3. {m \in Elems(pact') : ncmd'[m].vdev = w} = {m \in Elems(pact) \ {n} : ncmd[m].vdev = w}
    BY <1>3, <1>4, <2>1
  <2>4. CASE w = v
    <3>1. Elems(vact'[w]) = {}
      BY <2>4 DEF Elems
    <3>2. {m \in Elems(pact) \ {n} : ncmd[m].vdev = w} = {}
      BY <2>4, ActiveOfVdev
    <3> QED  BY <2>2, <2>3, <3>1, <3>2
  <2>5. CASE w # v
    <3>1. Elems(vact'[w]) = {m \in Elems(pact) : ncmd[m].vdev = w}
      BY <2>5 DEF IndInv, VdevLists
    <3> QED  BY <2>2, <2>3, <2>5, <3>1
  <2> QED  BY <2>4, <2>5
<1> QED  BY <1>3, <1>6, <1>7, <1>8

(* What is being activated is not disturbed by the loss of another node. *)
LEMMA ActivationUndisturbed ==
  ASSUME IndInv, NEW n \in Nodes, ACT \notin flags[n], ACT \notin flags'[n],
         Elems(pact) \ {n} \subseteq Elems(pact'),
         \A m \in Nodes \ {n} : ACT \in flags'[m] <=> ACT \in flags[m],
         \A t \in Threads : /\ pc'[t] \in ActivationPCs <=> pc[t] \in ActivationPCs
                            /\ pc[t] \in ActivationPCs => node'[t] = node[t]
  PROVE  ActivationPinned'
<1>1. \A t \in Threads : pc[t] \in ActivationPCs =>
          /\ node[t] \in Nodes \ {n} /\ node[t] \in Elems(pact) /\ ACT \in flags[node[t]]
          /\ \A u \in Threads \ {t} : pc[u] \in ActivationPCs => node[u] # node[t]
  BY DEF IndInv, Shape, ThreadShape, ActivationPinned
<1>2. \A m \in Nodes : ACT \in flags'[m] =>
          \E t \in Threads : pc[t] \in ActivationPCs /\ node[t] = m
  BY DEF IndInv, ActivationPinned
<1> QED  BY <1>1, <1>2 DEF ActivationPinned

(* An active command is removed, its timer stopped, its node freed. *)
LEMMA DequeueRemoveStep ==
  ASSUME IndInv, NEW t \in Threads, NEW c \in Cmds, pc[t] \in {"idle", "dequeue"},
         DequeueRemove(t, c)
  PROVE  IndInv'
<1>1. PICK i \in DOMAIN vact[c.vdev], j \in DOMAIN pact :
        /\ FindCmd(vact[c.vdev], c, i) /\ ACT \notin flags[vact[c.vdev][i]]
        /\ FindCmd(pact, c, j)
        /\ vact' = [vact EXCEPT ![c.vdev] = Del(@, i)]
        /\ pact' = Del(pact, j)
        /\ ClearActive(ncmd[pact[j]]) /\ StopTimer(ncmd[pact[j]]) /\ FreeNode(pact[j], flags)
        /\ stack' = [stack EXCEPT ![t] =
              <<[op |-> "move", vdev |-> ncmd[pact[j]].vdev, cmd |-> ncmd[pact[j]],
                 blk |-> ncmd[pact[j]].is_blocking, vlookup |-> FALSE]>> \o @]
        /\ pc' = [pc EXCEPT ![t] = "move"]
        /\ node' = [node EXCEPT ![t] = NoNode]
        /\ UNCHANGED <<ppend, vpend, qdis, bwait, gone, msgs, cx, live, bugs>>
  BY DEF DequeueRemove
<1> DEFINE n == pact[j]
           d == ncmd[n]
           v == c.vdev
           f == [op |-> "move", vdev |-> d.vdev, cmd |-> d, blk |-> d.is_blocking,
                 vlookup |-> FALSE]
<1>2. n \in Elems(pact) /\ d.vdev = v /\ n \in Nodes /\ d \in Cmds /\ v \in Vdevs
      /\ n \in Elems(vact[v])
  <2>1. n \in Elems(pact)
    BY DEF Elems
  <2> QED  BY <1>1, <2>1, ListedCmds DEF FindCmd, MatchIdVdev
<1>3. /\ vact \in [Vdevs -> Seq(Nodes)] /\ vact[v] \in Seq(Nodes) /\ Len(vact[v]) <= 1
      /\ vact[v][i] \in Elems(vact[v])
  BY <1>2 DEF IndInv, TypeOK, ListTypes, BitmapExact, Elems
<1>4. vact[v][i] = n /\ ACT \notin flags[n]
  BY <1>1, <1>2, <1>3, ElemsProps
<1>5. Del(vact[v], i) = <<>>
  <2>1. \A s \in Seq(Nodes) : \A k \in DOMAIN s : Len(s) <= 1 => Del(s, k) = <<>>
    BY LastOneOut
  <2> QED  BY <1>3, <2>1, Zenon
<1>6. /\ vact'[v] = <<>> /\ \A w \in Vdevs \ {v} : vact'[w] = vact[w]
      /\ vact' \in [Vdevs -> Seq(Nodes)]
  BY <1>1, <1>2, <1>3, <1>5
<1>7. flags \in [Nodes -> SUBSET Flags]
  BY DEF IndInv, TypeOK, ListTypes
<1>8. ListTypes' /\ NodesAccounted' /\ VdevLists' /\ Elems(pact') = Elems(pact) \ {n}
  BY <1>1, <1>2, <1>6, <1>7, FreedActive
<1>9. TimerTypes' /\ TimersListed'
  BY <1>1, <1>2, <1>8, StopTimerProps DEF TimersListed
<1>10. bitmap' = bitmap \ {v} /\ bact' \in BOOLEAN
  BY <1>1, <1>2, CmdTypes DEF ClearActive, IndInv, TypeOK, StatusTypes
<1>11. StatusTypes' /\ NoMoveAssert'
  BY <1>1, <1>10 DEF IndInv, TypeOK, StatusTypes, NoMoveAssert
<1>12. \A u \in Threads : Settling(u) => cx[u].removed.vdev \in Vdevs \ {v}
  <2>1. \A u \in Threads : Settling(u) => cx[u].removed.vdev \in Vdevs
    BY CmdTypes DEF Settling, IndInv, TypeOK, CancelTypes, CancelLocals
  <2>2. vact[v] # <<>>
    BY <1>2, <1>3, ElemsProps
  <2> QED  BY <2>1, <2>2 DEF IndInv, SettlingAlone
<1>13. \A u \in Threads : Settling(u)' <=> Settling(u)
  BY <1>1 DEF Settling, OnActive
<1>14. BitmapExact'
  <2> SUFFICES ASSUME NEW w \in Vdevs
               PROVE  /\ Len(vact'[w]) <= 1
                      /\ w \in bitmap' <=> \/ vact'[w] # <<>>
                                           \/ \E u \in Threads : /\ Settling(u)'
                                                                  /\ cx'[u].removed.vdev = w
    BY DEF BitmapExact
  <2>1. CASE w = v
    BY <1>1, <1>6, <1>10, <1>12, <1>13, <2>1
  <2>2. CASE w # v
    BY <1>1, <1>6, <1>10, <1>13, <2>2 DEF IndInv, BitmapExact
  <2> QED  BY <2>1, <2>2
<1>15. SettlingAlone'
  <2>1. \A u \in Threads : Settling(u) => vact'[cx[u].removed.vdev] = <<>>
    BY <1>6, <1>12 DEF IndInv, SettlingAlone
  <2>2. \A u \in Threads : \A w \in Threads \ {u} :
            Settling(u) /\ Settling(w) => cx[w].removed.vdev # cx[u].removed.vdev
    BY DEF IndInv, SettlingAlone
  <2> QED  BY <1>1, <1>13, <2>1, <2>2 DEF SettlingAlone
<1>16. f \in Frames
  BY <1>2, CmdTypes DEF Frames
<1> HIDE DEF f
<1>17. <<f>> \o stack[t] \in Seq(Frames) /\ <<f>> \o stack[t] # <<>>
  BY <1>16 DEF IndInv, TypeOK, ThreadTypes
<1>18. stack' = [stack EXCEPT ![t] = <<f>> \o stack[t]]
  BY <1>1 DEF f
<1>19. ThreadTypes' /\ CancelTypes'
  BY <1>1, <1>17, <1>18, ZenonT(40) DEF IndInv, TypeOK, ThreadTypes, CancelTypes, PCs
<1>20. /\ pc'[t] = "move" /\ stack'[t] # <<>> /\ cx'[t].removed = NoCmd
       /\ \A u \in Threads \ {t} : pc'[u] = pc[u] /\ node'[u] = node[u] /\ stack'[u] = stack[u]
  BY <1>1, <1>17, <1>18 DEF IndInv, TypeOK, ThreadTypes, Shape, ThreadShape
<1>21. Shape'
  <2>1. ThreadShape(t)'
    BY <1>20 DEF ThreadShape, ActivationPCs
  <2> QED  BY <1>1, <1>20, <2>1, ShapeOfOne
<1>22. ActivationPinned'
  <2>1. ACT \notin flags'[n] /\ \A m \in Nodes \ {n} : flags'[m] = flags[m]
    BY <1>1, <1>2, <1>7 DEF FreeNode
  <2> QED  BY <1>2, <1>4, <1>8, <1>20, <2>1, ActivationUndisturbed DEF ActivationPCs
<1> QED  BY <1>8, <1>9, <1>11, <1>14, <1>15, <1>19, <1>21, <1>22 DEF IndInv, TypeOK

(* wlan_serialization_dequeue_cmd, any outcome. *)
LEMMA DequeueCmdStep ==
  ASSUME IndInv, NEW t \in Threads, NEW c \in Cmds, pc[t] \in {"idle", "dequeue"},
         DequeueCmd(t, c)
  PROVE  IndInv'
  BY DequeueMissingStep, DequeueMarkedStep, DequeueRemoveStep DEF DequeueCmd, DequeueMissing

(* The dequeue made by activate_cmd or by the timeout handler. *)
LEMMA DequeueStep ==
  ASSUME IndInv, NEW t \in Threads, Dequeue(t)
  PROVE  IndInv'
<1>1. CASE DequeueArg(t) = NoCmd
  BY <1>1, DequeueMissingStep DEF Dequeue
<1>2. CASE DequeueArg(t) # NoCmd
  <2>1. DequeueArg(t) \in Cmds
    <3>1. CASE node[t] # NoNode
      BY <1>2, <3>1 DEF DequeueArg, IndInv, TypeOK, ListTypes, ThreadTypes
    <3>2. CASE node[t] = NoNode
      <4>1. stack[t] \in Seq(Frames) /\ stack[t] # <<>>
        BY <3>2 DEF Dequeue, IndInv, TypeOK, ThreadTypes, Shape, ThreadShape
      <4>2. Top(t) \in Frames
        BY <4>1 DEF Top
      <4> QED  BY <3>2, <4>2 DEF DequeueArg, Frames
    <3> QED  BY <3>1, <3>2
  <2> QED  BY <1>2, <2>1, DequeueCmdStep DEF Dequeue
<1> QED  BY <1>1, <1>2
-----------------------------------------------------------------------------
(* wlan_ser_cancel_non_scan_cmd *)

(* A cancel marks nodes of its list with CANCEL and changes no other flag. *)
LEMMA CancelMarksProps ==
  ASSUME IndInv, NEW t \in Threads, NEW last
  PROVE  /\ CancelMarks(t, last) \in [Nodes -> SUBSET Flags]
         /\ \A n \in Nodes : /\ CancelMarks(t, last)[n] # flags[n] =>
                                   n \in Elems(pact) \cup Elems(ppend)
                             /\ ACT \in CancelMarks(t, last)[n] <=> ACT \in flags[n]
<1>1. flags \in [Nodes -> SUBSET Flags]
  BY DEF IndInv, TypeOK, ListTypes
<1>2. CANCEL \in Flags /\ ACT # CANCEL
  BY DEF Flags, ACT, CANCEL
<1>3. \A i : Visits(t, i) => CancelList(t)[i] \in Elems(pact) \cup Elems(ppend)
  BY DEF Visits, CancelList, Elems
<1>4. \A n \in Nodes : \/ CancelMarks(t, last)[n] = flags[n]
                       \/ /\ CancelMarks(t, last)[n] = flags[n] \cup {CANCEL}
                          /\ n \in Elems(pact) \cup Elems(ppend)
  BY <1>3 DEF CancelMarks
<1>5. CancelMarks(t, last) = [n \in Nodes |-> CancelMarks(t, last)[n]]
  BY DEF CancelMarks
<1> QED  BY <1>1, <1>2, <1>4, <1>5

(* The bit of the command taken out in the previous round is cleared. *)
LEMMA SettleProps ==
  ASSUME IndInv, NEW t \in Threads, CancelSettle(t)
  PROVE  /\ bact' \in BOOLEAN /\ bwait' \in UInt16
         /\ Settling(t) => bitmap' = bitmap \ {cx[t].removed.vdev}
         /\ ~Settling(t) => bitmap' = bitmap
<1>1. bact \in BOOLEAN /\ bwait \in UInt16 /\ cx[t].removed \in Cmds \cup {NoCmd}
  BY DEF IndInv, TypeOK, StatusTypes, CancelTypes, CancelLocals
<1>2. CASE cx[t].removed = NoCmd
  BY <1>1, <1>2 DEF CancelSettle, Settling
<1>3. CASE cx[t].removed # NoCmd /\ OnActive(t)
  <2>1. ClearActive(cx[t].removed) /\ UNCHANGED bwait
    BY <1>3 DEF CancelSettle
  <2> QED  BY <1>1, <1>3, <2>1, CmdTypes DEF ClearActive, Settling
<1>4. CASE cx[t].removed # NoCmd /\ ~OnActive(t)
  <2>1. /\ bwait' = IF cx[t].removed.is_blocking THEN Dec16(bwait) ELSE bwait
        /\ UNCHANGED <<bitmap, bact>>
    BY <1>4 DEF CancelSettle
  <2>2. bwait' \in UInt16
    BY <1>1, <2>1, WaitingType
  <2> QED  BY <1>1, <1>4, <2>1, <2>2 DEF Settling
<1> QED  BY <1>2, <1>3, <1>4

(* The vdev of a command being settled is a vdev of the pdev. *)
LEMMA SettlingVdev ==
  ASSUME IndInv, NEW t \in Threads, Settling(t)
  PROVE  cx[t].removed.vdev \in Vdevs
  BY CmdTypes DEF Settling, IndInv, TypeOK, CancelTypes, CancelLocals

(* The bitmap is exact again once the cancel has settled. *)
LEMMA SettledBitmap ==
  ASSUME IndInv, NEW t \in Threads, CancelSettle(t), UNCHANGED vact,
         cx'[t].removed = NoCmd, \A u \in Threads \ {t} : cx'[u] = cx[u]
  PROVE  BitmapExact' /\ SettlingAlone'
<1>1. ~Settling(t)' /\ \A u \in Threads \ {t} : Settling(u)' <=> Settling(u)
  BY DEF Settling, OnActive
<1>2. BitmapExact'
  <2> SUFFICES ASSUME NEW w \in Vdevs
               PROVE  /\ Len(vact[w]) <= 1
                      /\ w \in bitmap' <=> \/ vact[w] # <<>>
                                           \/ \E u \in Threads : /\ Settling(u)'
                                                                  /\ cx'[u].removed.vdev = w
    BY DEF BitmapExact
  <2>1. /\ Len(vact[w]) <= 1
        /\ w \in bitmap <=> \/ vact[w] # <<>>
                            \/ \E u \in Threads : Settling(u) /\ cx[u].removed.vdev = w
    BY DEF IndInv, BitmapExact
  <2>2. CASE Settling(t)
    <3>1. bitmap' = bitmap \ {cx[t].removed.vdev}
      BY <2>2, SettleProps
    <3>2. /\ vact[cx[t].removed.vdev] = <<>>
          /\ \A u \in Threads \ {t} : Settling(u) => cx[u].removed.vdev # cx[t].removed.vdev
      BY <2>2 DEF IndInv, SettlingAlone
    <3> QED  BY <1>1, <2>1, <3>1, <3>2
  <2>3. CASE ~Settling(t)
    <3>1. bitmap' = bitmap
      BY <2>3, SettleProps
    <3> QED  BY <1>1, <2>1, <2>3, <3>1
  <2> QED  BY <2>2, <2>3
<1>3. SettlingAlone'
  BY <1>1 DEF IndInv, SettlingAlone
<1> QED  BY <1>2, <1>3

(* The locals of the next pass have their types. *)
LEMMA NextPassType ==
  ASSUME NEW y \in CancelLocals, NEW q \in Seq(BOOLEAN)
  PROVE  LET x == [y EXCEPT !.queues = q, !.fresh = TRUE, !.qsize = 0, !.pnode = NoNode,
                            !.removed = NoCmd]
         IN  x \in CancelLocals /\ x.queues = q /\ x.removed = NoCmd
<1> DEFINE a == [y EXCEPT !.queues = q]
           b == [a EXCEPT !.fresh = TRUE]
           c == [b EXCEPT !.qsize = 0]
           d == [c EXCEPT !.pnode = NoNode]
           e == [d EXCEPT !.removed = NoCmd]
<1>1. a \in CancelLocals /\ a.queues = q
  BY DEF CancelLocals
<1> HIDE DEF a
<1>2. b \in CancelLocals /\ b.queues = q
  BY <1>1 DEF CancelLocals
<1> HIDE DEF b
<1>3. c \in CancelLocals /\ c.queues = q
  BY <1>2, SMTT(30) DEF CancelLocals
<1> HIDE DEF c
<1>4. d \in CancelLocals /\ d.queues = q
  BY <1>3 DEF CancelLocals
<1> HIDE DEF d
<1>5. e \in CancelLocals /\ e.queues = q /\ e.removed = NoCmd
  BY <1>4 DEF CancelLocals
<1> QED  BY <1>5 DEF a, b, c, d

(* The next pass starts, or the call returns. *)
LEMMA PassEndsShape ==
  ASSUME IndInv, NEW t \in Threads, pc[t] = "cancel", CancelPassEnds(t)
  PROVE  /\ ThreadTypes' /\ CancelTypes' /\ Shape' /\ cx'[t].removed = NoCmd
         /\ \A u \in Threads \ {t} : cx'[u] = cx[u]
         /\ \A u \in Threads : /\ pc'[u] \in ActivationPCs <=> pc[u] \in ActivationPCs
                               /\ pc[u] \in ActivationPCs => node'[u] = node[u]
<1>1. cx \in [Threads -> CancelLocals] /\ cx[t] \in CancelLocals /\ stack[t] \in Seq(Frames)
  BY DEF IndInv, TypeOK, CancelTypes, ThreadTypes
<1>2. CASE Len(cx[t].queues) > 1
  <2> DEFINE q == Tail(cx[t].queues)
             x == [cx[t] EXCEPT !.queues = q, !.fresh = TRUE, !.qsize = 0,
                                !.pnode = NoNode, !.removed = NoCmd]
  <2>1. cx' = [cx EXCEPT ![t] = x] /\ UNCHANGED <<pc, node, stack>>
    BY <1>2 DEF CancelPassEnds
  <2>2. q \in Seq(BOOLEAN) /\ q # <<>>
    <3>1. cx[t].queues \in Seq(BOOLEAN)
      BY <1>1 DEF CancelLocals
    <3>2. \A r \in Seq(BOOLEAN) : Len(r) > 1 => Tail(r) \in Seq(BOOLEAN) /\ Len(Tail(r)) > 0
      OBVIOUS
    <3>3. q \in Seq(BOOLEAN) /\ Len(q) > 0
      BY <1>2, <3>1, <3>2, Zenon
    <3> HIDE DEF q
    <3> QED  BY <3>3
  <2> HIDE DEF q
  <2>3. x \in CancelLocals /\ x.queues = q /\ x.removed = NoCmd
    BY <1>1, <2>2, NextPassType
  <2> HIDE DEF x
  <2>4. ThreadTypes' /\ CancelTypes'
    BY <1>1, <2>1, <2>3 DEF IndInv, TypeOK, ThreadTypes, CancelTypes
  <2>5. cx'[t] = x /\ \A u \in Threads \ {t} : cx'[u] = cx[u]
    BY <1>1, <2>1
  <2>6. ThreadShape(t)'
    BY <2>1, <2>2, <2>3, <2>5 DEF ThreadShape, ActivationPCs
  <2>7. Shape'
    BY <2>1, <2>5, <2>6, ShapeOfOne
  <2> QED  BY <2>1, <2>3, <2>4, <2>5, <2>7
<1>3. CASE ~(Len(cx[t].queues) > 1)
  <2>1. Return(t, stack[t]) /\ cx' = [cx EXCEPT ![t] = NoCancel]
    BY <1>3 DEF CancelPassEnds
  <2>2. NoCancel \in CancelLocals /\ NoCancel.removed = NoCmd
    BY NoCancelType DEF NoCancel
  <2>3. CancelTypes' /\ cx'[t].removed = NoCmd /\ \A u \in Threads \ {t} : cx'[u] = cx[u]
    BY <1>1, <2>1, <2>2 DEF CancelTypes
  <2>4. Shape'
    BY <1>1, <2>1, <2>3, ReturnShape, ReturnThreadShape, ShapeOfOne
  <2> QED  BY <1>1, <2>1, <2>3, <2>4, ReturnShape DEF ActivationPCs
<1> QED  BY <1>2, <1>3

(* A pass of a cancel ends without taking a command. *)
LEMMA CancelEndsStep ==
  ASSUME IndInv, NEW t \in Threads, CancelStop(t) \/ CancelNoTimer(t)
  PROVE  IndInv'
<1>1. /\ pc[t] = "cancel" /\ CancelSettle(t) /\ CancelPassEnds(t)
      /\ UNCHANGED <<pool, pact, ppend, vact, vpend, qdis, ncmd, timers, armed, ref, gone,
                     msgs, live>>
      /\ flags' = flags \/ \E last : flags' = CancelMarks(t, last)
      /\ bugs' = bugs \/ bugs' = bugs \cup {"timer"}
  BY DEF CancelStop, CancelNoTimer, timing
<1>2. /\ flags' \in [Nodes -> SUBSET Flags]
      /\ \A n \in Nodes : /\ flags'[n] # flags[n] => n \in Elems(pact) \cup Elems(ppend)
                          /\ ACT \in flags'[n] <=> ACT \in flags[n]
  <2>1. CASE flags' = flags
    BY <2>1 DEF IndInv, TypeOK, ListTypes
  <2>2. CASE \E last : flags' = CancelMarks(t, last)
    BY <2>2, CancelMarksProps
  <2> QED  BY <1>1, <2>1, <2>2
<1>3. ListTypes' /\ NodesAccounted' /\ VdevLists'
  BY <1>1, <1>2, FlagsChanged
<1>4. bact' \in BOOLEAN /\ bwait' \in UInt16 /\ bitmap' \subseteq Vdevs
  BY <1>1, SettleProps DEF IndInv, TypeOK, StatusTypes
<1>5. StatusTypes' /\ NoMoveAssert'
  BY <1>1, <1>4 DEF IndInv, TypeOK, StatusTypes, NoMoveAssert
<1>6. TimerTypes' /\ TimersListed'
  BY <1>1, TimersKept DEF timing
<1>7. BitmapExact' /\ SettlingAlone'
  BY <1>1, PassEndsShape, SettledBitmap
<1>8. ActivationPinned'
  BY <1>1, <1>2, PassEndsShape, ActivationKept
<1> QED  BY <1>1, <1>3, <1>5, <1>6, <1>7, <1>8, PassEndsShape DEF IndInv, TypeOK

(* A command leaves the pending lists. *)
LEMMA FreedPending ==
  ASSUME IndInv, NEW i \in DOMAIN ppend, NEW n, n = ppend[i], ppend' = Del(ppend, i),
         vpend' = [vpend EXCEPT ![ncmd[n].vdev] = Without(@, n)],
         NEW fl \in [Nodes -> SUBSET Flags], \A m \in pool : fl[m] = flags[m],
         FreeNode(n, fl), UNCHANGED <<pact, vact>>
  PROVE  ListTypes' /\ NodesAccounted' /\ VdevLists'
<1> DEFINE v == ncmd[n].vdev
           r == Without(vpend[v], n)
<1>1. /\ n \in Elems(ppend) /\ n \in Nodes /\ v \in Vdevs /\ n \in Elems(vpend[v])
      /\ n \notin Elems(pact) /\ n \notin pool
  <2>1. n \in Elems(ppend)
    BY DEF Elems
  <2> QED  BY <2>1, ListedCmds DEF IndInv, NodesAccounted
<1>2. /\ pact \in Seq(Nodes) /\ Injective(ppend) /\ ppend \in Seq(Nodes)
      /\ ncmd \in [Nodes -> Cmds \cup {NoCmd}] /\ pool \subseteq Nodes
      /\ vpend \in [Vdevs -> Seq(Nodes)] /\ Injective(vpend[v])
  BY <1>1 DEF IndInv, TypeOK, ListTypes, NodesAccounted, VdevLists
<1>3. ppend' \in Seq(Nodes) /\ Injective(ppend') /\ Elems(ppend') = Elems(ppend) \ {n}
  BY <1>2, DelProps
<1>4. r \in Seq(Nodes) /\ Injective(r) /\ Elems(r) = Elems(vpend[v]) \ {n}
  BY <1>1, <1>2, WithoutProps
<1>5. /\ vpend'[v] = r /\ \A w \in Vdevs \ {v} : vpend'[w] = vpend[w]
      /\ vpend' \in [Vdevs -> Seq(Nodes)]
  BY <1>1, <1>2, <1>4
<1> HIDE DEF r
<1>6. /\ ncmd' \in [Nodes -> Cmds \cup {NoCmd}] /\ ncmd'[n] = NoCmd
      /\ \A m \in Nodes \ {n} : ncmd'[m] = ncmd[m]
  BY <1>1, <1>2 DEF FreeNode
<1>7. /\ flags' \in [Nodes -> SUBSET Flags] /\ flags'[n] = {} /\ pool' = pool \cup {n}
      /\ \A m \in pool : flags'[m] = flags[m]
  BY <1>1, <1>2 DEF FreeNode
<1>8. ListTypes'
  BY <1>1, <1>3, <1>5, <1>6, <1>7 DEF IndInv, TypeOK, ListTypes
<1>9. NodesAccounted'
  <2>1. NodesAccounted
    BY DEF IndInv
  <2>2. Injective(pact') /\ Injective(ppend') /\ Elems(pact') \cap Elems(ppend') = {}
    BY <1>3, <2>1 DEF NodesAccounted
  <2>3. /\ pool' \cap (Elems(pact') \cup Elems(ppend')) = {}
        /\ Nodes = pool' \cup Elems(pact') \cup Elems(ppend')
    BY <1>1, <1>3, <1>7, <2>1 DEF NodesAccounted
  <2>4. \A m \in Nodes : m \in pool' <=> ncmd'[m] = NoCmd
    BY <1>6, <1>7, <2>1 DEF NodesAccounted
  <2>5. \A m \in pool' : flags'[m] = {}
    BY <1>7, <2>1 DEF NodesAccounted
  <2> QED  BY <2>2, <2>3, <2>4, <2>5 DEF NodesAccounted
<1>10. VdevLists'
  <2> SUFFICES ASSUME NEW w \in Vdevs
               PROVE  /\ Elems(vact[w]) = {m \in Elems(pact) : ncmd'[m].vdev = w}
                      /\ Elems(vpend'[w]) = {m \in Elems(ppend') : ncmd'[m].vdev = w}
                      /\ Injective(vpend'[w])
    BY DEF VdevLists
  <2>1. /\ Elems(vact[w]) = {m \in Elems(pact) : ncmd[m].vdev = w}
        /\ Elems(vpend[w]) = {m \in Elems(ppend) : ncmd[m].vdev = w}
        /\ Injective(vpend[w])
    BY DEF IndInv, VdevLists
  <2>2. \A m \in Elems(pact) \cup Elems(ppend') : ncmd'[m] = ncmd[m]
    BY <1>1, <1>2, <1>3, <1>6, ElemsProps
  <2>3. Elems(vact[w]) = {m \in Elems(pact) : ncmd'[m].vdev = w}
    BY ONLY <2>1, <2>2
  <2>4. Elems(vpend'[w]) = Elems(vpend[w]) \ {n} /\ Injective(vpend'[w])
    BY <1>4, <1>5, <2>1
  <2>5. Elems(vpend'[w]) = {m \in Elems(ppend') : ncmd'[m].vdev = w}
    BY ONLY <1>3, <2>1, <2>2, <2>4
  <2> QED  BY <2>3, <2>4, <2>5
<1> QED  BY <1>8, <1>9, <1>10

(* The locals after a command c has been taken out *)
Taken(y, c, k, m) == [y EXCEPT !.fresh = FALSE, !.removed = c, !.qsize = k, !.pnode = m]

(* The locals of a cancel that has taken a command have their types. *)
LEMMA TakeType ==
  ASSUME NEW y \in CancelLocals, NEW c \in Cmds, NEW k \in Int, NEW m \in Nodes \cup {NoNode}
  PROVE  /\ Taken(y, c, k, m) \in CancelLocals /\ Taken(y, c, k, m).queues = y.queues
         /\ Taken(y, c, k, m).removed = c
<1> DEFINE a == [y EXCEPT !.fresh = FALSE]
           b == [a EXCEPT !.removed = c]
           d == [b EXCEPT !.qsize = k]
           e == [d EXCEPT !.pnode = m]
<1>1. a \in CancelLocals /\ a.queues = y.queues
  BY DEF CancelLocals
<1> HIDE DEF a
<1>2. b \in CancelLocals /\ b.queues = y.queues /\ b.removed = c
  BY <1>1 DEF CancelLocals
<1> HIDE DEF b
<1>3. d \in CancelLocals /\ d.queues = y.queues /\ d.removed = c
  BY <1>2 DEF CancelLocals
<1> HIDE DEF d
<1>4. e \in CancelLocals /\ e.queues = y.queues /\ e.removed = c
  BY <1>3 DEF CancelLocals
<1> QED  BY <1>4 DEF a, b, d, Taken

(* The vdev of the command taken now is not the one being settled. *)
LEMMA TakenBitmap ==
  ASSUME IndInv, NEW t \in Threads, CancelSettle(t), OnActive(t), NEW n \in Elems(pact),
         vact'[ncmd[n].vdev] = <<>>,
         \A w \in Vdevs \ {ncmd[n].vdev} : vact'[w] = vact[w],
         Settling(t)', cx'[t].removed = ncmd[n], \A u \in Threads \ {t} : cx'[u] = cx[u]
  PROVE  BitmapExact' /\ SettlingAlone'
<1> DEFINE v == ncmd[n].vdev
<1>1. \A u \in Threads \ {t} : Settling(u)' <=> Settling(u)
  BY DEF Settling, OnActive
<1>2. v \in Vdevs /\ vact[v] # <<>>
  BY ListedCmds DEF Elems
<1>3. \A u \in Threads : Settling(u) => /\ cx[u].removed.vdev \in Vdevs \ {v}
                                        /\ vact[cx[u].removed.vdev] = <<>>
  BY <1>2, SettlingVdev DEF IndInv, SettlingAlone
<1>4. \A u \in Threads : \A w \in Threads \ {u} :
          Settling(u) /\ Settling(w) => cx[w].removed.vdev # cx[u].removed.vdev
  BY DEF IndInv, SettlingAlone
<1>5. BitmapExact'
  <2> SUFFICES ASSUME NEW w \in Vdevs
               PROVE  /\ Len(vact'[w]) <= 1
                      /\ w \in bitmap' <=> \/ vact'[w] # <<>>
                                           \/ \E u \in Threads : /\ Settling(u)'
                                                                  /\ cx'[u].removed.vdev = w
    BY DEF BitmapExact
  <2>1. /\ Len(vact[w]) <= 1
        /\ w \in bitmap <=> \/ vact[w] # <<>>
                            \/ \E u \in Threads : Settling(u) /\ cx[u].removed.vdev = w
    BY DEF IndInv, BitmapExact
  <2>2. w \in bitmap' <=> w \in bitmap /\ ~(Settling(t) /\ cx[t].removed.vdev = w)
    BY SettleProps
  <2>3. CASE w = v
    BY <1>2, <1>3, <2>1, <2>2, <2>3
  <2>4. CASE w # v
    <3>1. vact'[w] = vact[w]
      BY <2>4
    <3>2. (\E u \in Threads : Settling(u)' /\ cx'[u].removed.vdev = w)
            <=> \E u \in Threads \ {t} : Settling(u) /\ cx[u].removed.vdev = w
      BY <1>1, <2>4
    <3>3. CASE Settling(t) /\ cx[t].removed.vdev = w
      BY <1>3, <1>4, <2>1, <2>2, <3>1, <3>2, <3>3
    <3>4. CASE ~(Settling(t) /\ cx[t].removed.vdev = w)
      BY <2>1, <2>2, <3>1, <3>2, <3>4
    <3> QED  BY <3>3, <3>4
  <2> QED  BY <2>3, <2>4
<1>6. SettlingAlone'
  <2>1. \A u \in Threads : Settling(u)' => vact'[cx'[u].removed.vdev] = <<>>
    BY <1>1, <1>3
  <2>2. \A u \in Threads : \A w \in Threads \ {u} :
            Settling(u)' /\ Settling(w)' => cx'[w].removed.vdev # cx'[u].removed.vdev
    BY <1>1, <1>3, <1>4
  <2> QED  BY <2>1, <2>2 DEF SettlingAlone
<1> QED  BY <1>5, <1>6

(* A cancel takes a command out of the active or the pending lists. *)
LEMMA CancelTakeStep ==
  ASSUME IndInv, NEW t \in Threads, CancelTake(t)
  PROVE  IndInv'
<1> DEFINE s == CancelList(t)
<1>1. PICK i \in DOMAIN s, p \in 0..Len(s) :
        /\ CancelSettle(t) /\ ~CursorLost(t) /\ Takes(t, i)
        /\ IF OnActive(t)
           THEN /\ StopTimer(ncmd[s[i]])
                /\ pact' = Del(pact, i)
                /\ vact' = [vact EXCEPT ![ncmd[s[i]].vdev] = Without(@, s[i])]
                /\ UNCHANGED <<ppend, vpend>>
           ELSE /\ UNCHANGED <<timers, armed, ref, pact, vact>>
                /\ ppend' = Del(ppend, i)
                /\ vpend' = [vpend EXCEPT ![ncmd[s[i]].vdev] = Without(@, s[i])]
        /\ FreeNode(s[i], CancelMarks(t, i - 1))
        /\ cx' = [cx EXCEPT ![t].fresh = FALSE, ![t].removed = ncmd[s[i]],
                    ![t].qsize = Budget(t) - (i - WalkFrom(t) + 1),
                    ![t].pnode = IF p = 0 THEN @ ELSE s[p]]
        /\ pc' = [pc EXCEPT ![t] = "cancel_cb"]
        /\ UNCHANGED <<qdis, gone, msgs, node, stack, live, bugs>>
  BY DEF CancelTake, FirstTake
<1> DEFINE n == s[i]
           c == ncmd[n]
           fl == CancelMarks(t, i - 1)
           k == Budget(t) - (i - WalkFrom(t) + 1)
           m == IF p = 0 THEN cx[t].pnode ELSE s[p]
           x == Taken(cx[t], c, k, m)
<1>2. /\ pc[t] = "cancel" /\ cx \in [Threads -> CancelLocals] /\ cx[t] \in CancelLocals
      /\ cx[t].queues # <<>> /\ flags \in [Nodes -> SUBSET Flags]
      /\ pact \in Seq(Nodes) /\ ppend \in Seq(Nodes) /\ vact \in [Vdevs -> Seq(Nodes)]
  BY DEF CancelTake, IndInv, TypeOK, ListTypes, CancelTypes, Shape, ThreadShape
<1>3. s \in Seq(Nodes)
  BY <1>2 DEF CancelList
<1>4. /\ n \in Elems(pact) \cup Elems(ppend) /\ n \in Nodes /\ c \in Cmds /\ c.vdev \in Vdevs
      /\ n \notin pool /\ c # NoCmd
  <2>1. n \in Elems(pact) \cup Elems(ppend)
    BY <1>1 DEF CancelList, Elems
  <2> QED  BY <2>1, ListedCmds, CmdTypes
<1>5. ACT \notin flags[n]
  <2>1. CASE OnActive(t)
    BY <1>1, <2>1 DEF Takes, Activating
  <2>2. CASE ~OnActive(t)
    <3>1. n \in Elems(ppend)
      BY <1>1, <2>2 DEF CancelList, Elems
    <3> QED  BY <1>4, <3>1 DEF IndInv, NodesAccounted, ActivationPinned
  <2> QED  BY <2>1, <2>2
<1>6. /\ fl \in [Nodes -> SUBSET Flags]
      /\ \A u \in pool : fl[u] = flags[u]
      /\ \A u \in Nodes : ACT \in fl[u] <=> ACT \in flags[u]
  BY CancelMarksProps, ListedCmds DEF IndInv, TypeOK, ListTypes, NodesAccounted
<1>7. x \in CancelLocals /\ x.queues = cx[t].queues /\ x.removed = c
  <2>1. k \in Int
    <3>1. Len(s) \in Int /\ cx[t].qsize \in Int
      BY <1>2, <1>3 DEF CancelLocals
    <3>2. Budget(t) \in Int
      BY <3>1 DEF Budget
    <3>3. WalkFrom(t) \in Int
      <4>1. CASE cx[t].pnode = NoNode
        BY <4>1 DEF WalkFrom
      <4>2. CASE cx[t].pnode # NoNode
        <5>1. Index(s, cx[t].pnode) \in DOMAIN s
          BY <1>1, <4>2 DEF CursorLost, Index, Elems
        <5>2. DOMAIN s \subseteq Int
          BY <1>3
        <5>3. Index(s, cx[t].pnode) \in Int
          BY <5>1, <5>2
        <5> QED  BY <4>2, <5>3 DEF WalkFrom
      <4> QED  BY <4>1, <4>2
    <3>4. i \in Int
      BY <1>1, <1>3
    <3> QED  BY <3>2, <3>3, <3>4
  <2>2. m \in Nodes \cup {NoNode}
    <3>1. cx[t].pnode \in Nodes \cup {NoNode}
      BY <1>2 DEF CancelLocals
    <3>2. p # 0 => s[p] \in Nodes
      BY <1>1, <1>3
    <3> QED  BY <3>1, <3>2
  <2>3. cx[t] \in CancelLocals /\ c \in Cmds
    BY <1>2, <1>4
  <2> HIDE DEF k, m, c, s
  <2> QED  BY <2>1, <2>2, <2>3, TakeType
<1>8. cx' = [cx EXCEPT ![t] = x]
  BY <1>1 DEF Taken
<1> HIDE DEF x, fl
<1>9. cx'[t] = x /\ CancelTypes' /\ \A u \in Threads \ {t} : cx'[u] = cx[u]
  BY <1>2, <1>7, <1>8 DEF CancelTypes
<1>10. OnActive(t)' <=> OnActive(t)
  BY <1>7, <1>9 DEF OnActive
<1>11. Settling(t)' <=> OnActive(t)
  BY <1>4, <1>7, <1>9, <1>10 DEF Settling
<1>12. /\ ThreadTypes' /\ pc'[t] = "cancel_cb" /\ \A u \in Threads \ {t} : pc'[u] = pc[u]
  BY <1>1 DEF IndInv, TypeOK, ThreadTypes, PCs
<1>13. Shape'
  <2>1. ThreadShape(t)'
    BY <1>2, <1>4, <1>7, <1>9, <1>12 DEF ThreadShape, ActivationPCs
  <2> QED  BY <1>1, <1>9, <1>12, <2>1, ShapeOfOne
<1>14. StatusTypes' /\ NoMoveAssert'
  <2>1. bact' \in BOOLEAN /\ bwait' \in UInt16 /\ bitmap' \subseteq Vdevs
    BY <1>1, SettleProps DEF IndInv, TypeOK, StatusTypes
  <2> QED  BY <1>1, <2>1 DEF IndInv, TypeOK, StatusTypes, NoMoveAssert
<1>15. /\ flags' = [fl EXCEPT ![n] = {}] /\ ACT \notin flags'[n]
       /\ \A u \in Nodes \ {n} : ACT \in flags'[u] <=> ACT \in flags[u]
  BY <1>1, <1>4, <1>6 DEF FreeNode, fl
<1>16. CASE OnActive(t)
  <2> DEFINE v == c.vdev
  <2>1. /\ s = pact /\ n \in Elems(pact) /\ StopTimer(c) /\ pact' = Del(pact, i)
        /\ vact' = [vact EXCEPT ![v] = Without(@, n)] /\ UNCHANGED <<ppend, vpend>>
    BY <1>1, <1>16 DEF CancelList, Elems
  <2>2. Without(vact[v], n) = <<>>
    <3>1. /\ vact[v] \in Seq(Nodes) /\ Len(vact[v]) <= 1 /\ n \in Elems(vact[v])
      BY <1>2, <1>4, <2>1, ListedCmds DEF IndInv, BitmapExact
    <3>2. \A r \in Seq(Nodes) : Len(r) <= 1 => \A u \in Elems(r) : Without(r, u) = <<>>
      BY LastOneOut
    <3> QED  BY <3>1, <3>2, Zenon
  <2>3. /\ vact'[v] = <<>> /\ \A w \in Vdevs \ {v} : vact'[w] = vact[w]
        /\ vact' \in [Vdevs -> Seq(Nodes)]
    BY <1>2, <1>4, <2>1, <2>2
  <2>4. /\ ListTypes' /\ NodesAccounted' /\ VdevLists' /\ Elems(pact') = Elems(pact) \ {n}
    BY <1>1, <1>6, <2>1, <2>3, FreedActive DEF fl
  <2>5. TimerTypes' /\ TimersListed'
    BY <1>1, <2>1, <2>4, StopTimerProps DEF TimersListed
  <2>6. BitmapExact' /\ SettlingAlone'
    BY <1>1, <1>7, <1>9, <1>11, <1>16, <2>1, <2>3, TakenBitmap
  <2>7. ActivationPinned'
    BY <1>1, <1>2, <1>4, <1>5, <1>12, <1>15, <2>4, ActivationUndisturbed DEF ActivationPCs
  <2> QED  BY <1>9, <1>12, <1>13, <1>14, <2>4, <2>5, <2>6, <2>7 DEF IndInv, TypeOK
<1>17. CASE ~OnActive(t)
  <2>1. /\ s = ppend /\ UNCHANGED <<timers, armed, ref, pact, vact>> /\ ppend' = Del(ppend, i)
        /\ vpend' = [vpend EXCEPT ![c.vdev] = Without(@, n)]
    BY <1>1, <1>17 DEF CancelList
  <2>2. ListTypes' /\ NodesAccounted' /\ VdevLists'
    BY <1>1, <1>6, <2>1, FreedPending DEF fl
  <2>3. TimerTypes' /\ TimersListed'
    BY <1>1, <2>1, TimersKept DEF timing
  <2>4. BitmapExact' /\ SettlingAlone'
    <3>1. ~Settling(t) /\ bitmap' = bitmap
      BY <1>1, <1>17, SettleProps DEF Settling
    <3>2. \A u \in Threads : /\ Settling(u)' <=> Settling(u)
                             /\ Settling(u) => cx'[u].removed = cx[u].removed
      BY <1>9, <1>11, <1>17, <3>1 DEF Settling, OnActive
    <3> QED  BY <2>1, <3>1, <3>2, BitmapKept
  <2>5. ActivationPinned'
    BY <1>1, <1>2, <1>4, <1>5, <1>12, <1>15, <2>1, ActivationUndisturbed DEF ActivationPCs
  <2> QED  BY <1>9, <1>12, <1>13, <1>14, <2>2, <2>3, <2>4, <2>5 DEF IndInv, TypeOK
<1> QED  BY <1>16, <1>17
-----------------------------------------------------------------------------
(* The queues as created satisfy the inductive invariant. *)
LEMMA Initially == Init => IndInv
<1> SUFFICES ASSUME Init  PROVE IndInv
  OBVIOUS
<1>1. ListTypes
  BY DEF Init, ListTypes
<1>2. StatusTypes
  <2>1. bwait \in UInt16
    BY DEF Init, UInt16, Word
  <2>2. bact \in BOOLEAN
    BY DEF Init
  <2>3. /\ qdis \subseteq Vdevs /\ bitmap \subseteq Vdevs /\ live \in [Cmds -> Int]
        /\ bugs \subseteq {"move", "timer", "cursor"}
    BY DEF Init
  <2> QED  BY <2>1, <2>2, <2>3 DEF StatusTypes
<1>3. TimerTypes /\ TimersListed
  BY DEF Init, TimerTypes, TimersListed
<1>4. ThreadTypes
  BY DEF Init, ThreadTypes, PCs
<1>5. CancelTypes
  BY NoCancelType DEF Init, CancelTypes
<1>6. \A t \in Threads : cx[t].removed = NoCmd /\ pc[t] = "idle"
  BY DEF Init, NoCancel
<1>7. Shape
  BY <1>6 DEF Shape, ThreadShape, ActivationPCs
<1>8. Elems(<<>>) = {} /\ Injective(<<>>)
  BY DEF Elems, Injective
<1>9. NodesAccounted
  BY <1>8 DEF Init, NodesAccounted
<1>10. VdevLists
  BY <1>8 DEF Init, VdevLists
<1>11. \A t \in Threads : ~Settling(t)
  BY <1>6 DEF Settling
<1>12. BitmapExact /\ SettlingAlone
  BY <1>11 DEF Init, BitmapExact, SettlingAlone
<1>13. ActivationPinned
  BY <1>6 DEF Init, ActivationPinned, ActivationPCs
<1>14. NoMoveAssert
  BY DEF Init, NoMoveAssert
<1> QED
  BY <1>1, <1>2, <1>3, <1>4, <1>5, <1>7, <1>9, <1>10, <1>12, <1>13, <1>14 DEF IndInv, TypeOK

(* Every step of every context preserves the inductive invariant. *)
LEMMA Preserved == IndInv /\ [Next]_vars => IndInv'
<1> SUFFICES ASSUME IndInv, [Next]_vars  PROVE IndInv'
  OBVIOUS
<1>1. CASE UNCHANGED vars
  <2>1. UNCHANGED <<pool, pact, ppend, vact, vpend, qdis, bitmap, bact, bwait, ncmd, flags,
                    timers, armed, ref, gone, msgs, pc, node, stack, cx, live, bugs>>
    BY <1>1 DEF vars, queues, timing, locals
  <2> QED  BY <2>1, StatusKept, TimersKept, EnvironmentStep DEF timing
<1>2. ASSUME NEW t \in Threads, Continue(t)  PROVE IndInv'
  <2>1. CASE \/ StartTimer(t) \/ StartTimerFails(t) \/ ActivateCallback(t)
             \/ FinishActivation(t) \/ TestRemoval(t) \/ TestCancel(t)
    BY <2>1, StartTimerStep, StartTimerFailsStep, ActivateCallbackStep,
       FinishActivationStep, TestRemovalStep, TestCancelStep
  <2>2. CASE Dequeue(t) \/ ReleaseMem(t) \/ TimeoutFree(t)
    BY <2>2, DequeueStep, ReleaseMemStep, TimeoutFreeStep
  <2>3. CASE \/ MoveFromVdev(t) \/ MoveFromPdev(t) \/ MoveNothingVdev(t)
             \/ MoveNothingPdev(t) \/ MoveBreak(t)
    BY <2>3, MoveFromVdevStep, MoveFromPdevStep, MoveOverStep, MoveNothingPdevStep
  <2>4. CASE \/ CancelStop(t) \/ CancelTake(t) \/ CancelNoTimer(t) \/ CancelLost(t)
             \/ CancelCallbacks(t)
    BY <2>4, CancelEndsStep, CancelTakeStep, CancelLostStep, CancelCallbacksStep
  <2> QED  BY <1>2, <2>1, <2>2, <2>3, <2>4 DEF Continue
<1>3. ASSUME NEW t \in Threads, Call(t)  PROVE IndInv'
  <2>1. ASSUME NEW c \in Cmds, \/ RequestRefused(t, c) \/ RequestListFull(t, c)
                               \/ RequestPending(t, c) \/ RequestActive(t, c)
        PROVE  IndInv'
    BY <2>1, RequestDeniedStep, RequestPendingStep, RequestActiveStep
  <2>2. ASSUME NEW c \in Removals, RemoveCmd(t, c)  PROVE IndInv'
    BY <2>2, RequestAssumption, DequeueCmdStep DEF RemoveCmd
  <2>3. ASSUME NEW c \in Removals, UpdateTimer(t, c)  PROVE IndInv'
    BY <2>3, TimerStep
  <2> QED
    BY <1>3, <2>1, <2>2, <2>3, CancelRequestStep, VdevQueueDisableStep DEF Call
<1>4. CASE Timeout
  BY <1>4, TimerStep, TimeoutHandledStep DEF Timeout
<1>5. CASE Environment
  BY <1>5, TimerStep DEF Environment
<1> QED  BY <1>1, <1>2, <1>3, <1>4, <1>5 DEF Next, Running, Halted

(* IndInv holds in every state of every execution. *)
THEOREM Inductive == Spec => []IndInv
  BY Initially, Preserved, PTL DEF Spec

(* No variable ever leaves the type of the C object it stands for: the     *)
(* 16-bit count of waiting blocking commands included, and no thread finds *)
(* a frame, a node or a list entry missing where the code relies on it.    *)
THEOREM TypeCorrect == Spec => []TypeOK
<1>1. IndInv => TypeOK
  BY DEF IndInv
<1> QED  BY <1>1, Inductive, PTL

(* vdev_active_cmd_bitmap says exactly which vdevs have an active command, *)
(* whatever requests, removals, cancels and timeouts interleave.           *)
THEOREM BitmapCorrect == Spec => []BitmapExact
<1>1. IndInv => BitmapExact
  BY DEF IndInv
<1> QED  BY <1>1, Inductive, PTL

(* No node is lost, freed twice or put in two lists.                       *)
THEOREM NodesNeverLost == Spec => []NodesAccounted
<1>1. IndInv => NodesAccounted
  BY DEF IndInv
<1> QED  BY <1>1, Inductive, PTL

(* A command being activated is neither freed nor activated twice.         *)
THEOREM ActivationSafe == Spec => []ActivationPinned
<1>1. IndInv => ActivationPinned
  BY DEF IndInv
<1> QED  BY <1>1, Inductive, PTL

(* The move to the active queue never runs into its QDF_ASSERT(0).         *)
THEOREM MoveNeverAsserts == Spec => []NoMoveAssert
<1>1. IndInv => NoMoveAssert
  BY DEF IndInv
<1> QED  BY <1>1, Inductive, PTL
=============================================================================
