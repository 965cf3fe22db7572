---------------------------- MODULE CmdMgr_proofs ----------------------------
(***************************************************************************)
(* Proofs about the command manager, for every number of senders, slots    *)
(* and calls, every list limit, with fatal signals and timeouts:           *)
(* IInv is inductive, and it implies type correctness, the list invariant, *)
(* the one-at-a-time rule and that no message is sent after it is freed.   *)
(***************************************************************************)
EXTENDS CmdMgr, SequenceTheorems, TLAPS

\* Removing the i-th element closes the gap and keeps the order.
LEMMA RemoveAtProperties ==
    ASSUME NEW S, NEW q \in Seq(S), NEW i \in 1..Len(q)
    PROVE  /\ RemoveAt(q, i) \in Seq(S)
           /\ Len(RemoveAt(q, i)) = Len(q) - 1
           /\ \A j \in 1..(Len(q) - 1) :
                RemoveAt(q, i)[j] = IF j < i THEN q[j] ELSE q[j + 1]
<1> DEFINE a == SubSeq(q, 1, i - 1)
           b == SubSeq(q, i + 1, Len(q))
<1>0. Len(q) \in Nat /\ \A j \in 1..Len(q) : q[j] \in S
  BY LenProperties, ElementOfSeq
<1>1. /\ a \in Seq(S) /\ Len(a) = i - 1
      /\ \A j \in 1..(i - 1) : a[j] = q[j]
  <2>1. \A j \in 1..(i - 1) : q[j] \in S
    BY <1>0
  <2>2. /\ a \in Seq(S)
        /\ Len(a) = IF 1 <= i - 1 THEN (i - 1) - 1 + 1 ELSE 0
        /\ \A j \in 1..((i - 1) - 1 + 1) : a[j] = q[1 + j - 1]
    BY <2>1, <1>0, SubSeqProperties, SMT
  <2> QED BY <2>2, <1>0
<1>2. /\ b \in Seq(S) /\ Len(b) = Len(q) - i
      /\ \A j \in 1..(Len(q) - i) : b[j] = q[i + j]
  <2>1. \A j \in (i + 1)..Len(q) : q[j] \in S
    BY <1>0
  <2>2. /\ b \in Seq(S)
        /\ Len(b) = IF i + 1 <= Len(q) THEN Len(q) - (i + 1) + 1 ELSE 0
        /\ \A j \in 1..(Len(q) - (i + 1) + 1) : b[j] = q[(i + 1) + j - 1]
    BY <2>1, <1>0, SubSeqProperties, SMT
  <2> QED BY <2>2, <1>0
<1>3. /\ a \o b \in Seq(S)
      /\ Len(a \o b) = Len(a) + Len(b)
      /\ \A j \in 1..(Len(a) + Len(b)) :
            (a \o b)[j] = IF j <= Len(a) THEN a[j] ELSE b[j - Len(a)]
  BY <1>1, <1>2, ConcatProperties
<1>4. RemoveAt(q, i) = a \o b
  BY DEF RemoveAt
<1> HIDE DEF a, b
<1>5. Len(a) = i - 1 /\ Len(b) = Len(q) - i /\ Len(a) + Len(b) = Len(q) - 1
  BY <1>0, <1>1, <1>2
<1>6. ASSUME NEW j \in 1..(Len(q) - 1)
      PROVE  (a \o b)[j] = IF j < i THEN q[j] ELSE q[j + 1]
  <2>1. CASE j < i
    BY <2>1, <1>0, <1>1, <1>3, <1>5
  <2>2. CASE ~(j < i)
    <3>1. (a \o b)[j] = b[j - (i - 1)]
      BY <2>2, <1>0, <1>3, <1>5
    <3>2. j - (i - 1) \in 1..(Len(q) - i) /\ i + (j - (i - 1)) = j + 1
      BY <2>2, <1>0
    <3> QED BY <3>1, <3>2, <2>2, <1>2
  <2> QED BY <2>1, <2>2
<1> QED BY <1>3, <1>4, <1>5, <1>6

\* Positions of listed slots are positions of the list.
LEMMA PositionProperties ==
    ASSUME TypeOK, NEW s \in Slots, Listed(s)
    PROVE  Position(s) \in 1..Len(cmds) /\ cmds[Position(s)] = s
<1>1. DOMAIN cmds = 1..Len(cmds)
  BY LenProperties DEF TypeOK
<1>2. \E i \in DOMAIN cmds : cmds[i] = s
  BY DEF Listed, Range
<1> QED BY <1>1, <1>2 DEF Position

TypeInv == TypeOK /\ Held

LEMMA InitTypeInv == Init => TypeInv
<1> SUFFICES ASSUME Init PROVE TypeInv
  OBVIOUS
<1>0. (CHOOSE i \in Ids : TRUE) \in Ids
  BY CmdMgrAssumption DEF CmdMgrAssumption
<1>1. slots \in [Slots -> Command]
  BY <1>0, CmdMgrAssumption DEF Init, Command, Flags, NoFlags, CmdMgrAssumption
<1>2. wflags \in Flags
  BY DEF Init, Flags, NoFlags
<1>3. calls \in 0..MaxCalls
  BY CmdMgrAssumption DEF Init, CmdMgrAssumption
<1>4. cmds \in Seq(Slots)
  BY EmptySeq DEF Init
<1>5. TypeOK
  <2>1. pc \in [Senders -> SenderPc] /\ my \in [Senders -> Slots \cup {NoSlot}]
    BY DEF Init, SenderPc
  <2>2. wpc \in WorkerPc /\ wcur \in Slots \cup {NoSlot}
    BY DEF Init, WorkerPc
  <2>3. /\ queue_sz \in Int /\ mgr \in {"INITED", "CRASHED", "DEINIT"}
        /\ usb \in {"UP", "DOWN"} /\ dpc \in {"up", "drain", "flush", "done"}
        /\ fw = {} /\ heap = {}
    BY DEF Init
  <2>4. work \in BOOLEAN /\ oops \in BOOLEAN /\ killed \in BOOLEAN
    BY Zenon DEF Init
  <2> QED BY <1>1, <1>2, <1>3, <1>4, <2>1, <2>2, <2>3, <2>4 DEF TypeOK
<1>6. Held
  BY DEF Init, Held, HasSlot
<1> QED BY <1>5, <1>6 DEF TypeInv

\* What each assignment to a slot leaves it as.
LEMMA CommandUpdates ==
    ASSUME NEW c \in Command, NEW b \in BOOLEAN, NEW i \in Ids,
           NEW n \in 0..MaxCalls, NEW f \in Flags
    PROVE  /\ [c EXCEPT !.used = TRUE, !.id = i, !.buf = b, !.msg = n] \in Command
           /\ [c EXCEPT !.used = FALSE, !.complete = FALSE] \in Command
           /\ [c EXCEPT !.complete = b, !.flags = f] \in Command
           /\ [c EXCEPT !.flags = f] \in Command
<1>1. [c EXCEPT !.used = TRUE, !.id = i, !.buf = b, !.msg = n] \in Command
  BY DEF Command
<1>2. [c EXCEPT !.used = FALSE, !.complete = FALSE] \in Command
  BY DEF Command
<1>3. [c EXCEPT !.complete = b, !.flags = f] \in Command
  BY DEF Command
<1>4. [c EXCEPT !.flags = f] \in Command
  BY DEF Command
<1> QED BY <1>1, <1>2, <1>3, <1>4

LEMMA FlagUpdates ==
    ASSUME NEW f \in Flags, NEW d \in BOOLEAN
    PROVE  /\ Queued(f, d) \in Flags /\ Answered(f) \in Flags
           /\ Done(f) \in Flags /\ ClearPush(f) \in Flags
<1>1. Queued(f, d) \in Flags
  BY DEF Flags, Queued
<1>2. Answered(f) \in Flags
  BY DEF Flags, Answered
<1>3. Done(f) \in Flags
  BY DEF Flags, Done
<1>4. ClearPush(f) \in Flags
  BY DEF Flags, ClearPush
<1> QED BY <1>1, <1>2, <1>3, <1>4

\* Freeing or unlinking a command keeps the pool and the list well typed.
LEMMA PoolUpdates ==
    ASSUME TypeOK, NEW s \in Slots
    PROVE  /\ FreeCmd(s) => slots' \in [Slots -> Command]
           /\ slots[s] \in Command /\ slots[s].flags \in Flags
           /\ slots[s].msg \in 0..MaxCalls /\ slots[s].id \in Ids
           /\ \A c \in Command : [slots EXCEPT ![s] = c] \in [Slots -> Command]
<1>1. slots \in [Slots -> Command]
  BY DEF TypeOK
<1>2. slots[s] \in Command
  BY <1>1
<1>3. /\ slots[s].flags \in Flags /\ slots[s].msg \in 0..MaxCalls
      /\ slots[s].id \in Ids
  BY <1>2 DEF Command
<1>4. \A c \in Command : [slots EXCEPT ![s] = c] \in [Slots -> Command]
  BY <1>1
<1>5. Ids # {} /\ 0 \in 0..MaxCalls /\ FALSE \in BOOLEAN
  BY CmdMgrAssumption DEF CmdMgrAssumption
<1>6. [slots[s] EXCEPT !.used = FALSE, !.complete = FALSE] \in Command
  BY <1>2 DEF Command
<1>7. FreeCmd(s) => slots' = [slots EXCEPT ![s] =
            [slots[s] EXCEPT !.used = FALSE, !.complete = FALSE]]
  BY DEF FreeCmd
<1> QED BY <1>2, <1>3, <1>4, <1>6, <1>7

LEMMA EnlistType ==
    ASSUME TypeOK, NEW s \in Slots, NEW d \in BOOLEAN, Enlist(s, d)
    PROVE  /\ slots' \in [Slots -> Command]
           /\ cmds' \in Seq(Slots) /\ queue_sz' \in Int
<1>1. Queued(slots[s].flags, d) \in Flags
  BY PoolUpdates, FlagUpdates
<1>2. [slots[s] EXCEPT !.complete = FALSE, !.flags = Queued(slots[s].flags, d)]
            \in Command
  BY <1>1, PoolUpdates DEF Command
<1>3. slots' \in [Slots -> Command]
  BY <1>2, PoolUpdates DEF Enlist
<1>4. cmds' \in Seq(Slots) /\ queue_sz' \in Int
  BY AppendProperties DEF Enlist, TypeOK
<1> QED BY <1>3, <1>4

LEMMA UnlinkType ==
    ASSUME TypeOK, NEW i \in 1..Len(cmds), Unlink(i)
    PROVE  cmds' \in Seq(Slots) /\ queue_sz' \in Int
BY RemoveAtProperties DEF Unlink, TypeOK

LEMMA GiveUpType ==
    ASSUME TypeOK, NEW s \in Slots, GiveUp(s)
    PROVE  /\ slots' \in [Slots -> Command]
           /\ cmds' \in Seq(Slots) /\ queue_sz' \in Int
           /\ oops' \in BOOLEAN
<1>1. CASE slots[s].flags.done /\ UNCHANGED <<slots, listVars, oops>>
  BY <1>1 DEF TypeOK, listVars
<1>2. CASE /\ ~slots[s].flags.done /\ Listed(s)
           /\ Unlink(Position(s))
           /\ slots' = [slots EXCEPT ![s] =
                [@ EXCEPT !.flags = Done(slots[s].flags)]]
           /\ UNCHANGED oops
  <2>1. Done(slots[s].flags) \in Flags
    BY PoolUpdates, FlagUpdates
  <2>2. [slots[s] EXCEPT !.flags = Done(slots[s].flags)] \in Command
    BY <2>1, PoolUpdates DEF Command
  <2>4. slots' \in [Slots -> Command]
    BY <1>2, <2>2, PoolUpdates
  <2>5. Position(s) \in 1..Len(cmds)
    BY <1>2, PositionProperties
  <2>6. cmds' \in Seq(Slots) /\ queue_sz' \in Int
    BY <1>2, <2>5, UnlinkType
  <2> QED BY <2>4, <2>6, <1>2 DEF TypeOK
<1>3. CASE ~slots[s].flags.done /\ ~Listed(s) /\ Fault
           /\ UNCHANGED <<slots, listVars>>
  BY <1>3 DEF TypeOK, listVars, Fault
<1> QED BY <1>1, <1>2, <1>3 DEF GiveUp

\* Types and Held under the steps of a sender that keeps its slot, or loses it.
LEMMA SenderMoves ==
    ASSUME TypeOK, Held, NEW p \in Senders, NEW l \in SenderPc, GoTo(p, l)
    PROVE  /\ pc' \in [Senders -> SenderPc]
           /\ my' = my /\ UNCHANGED <<wpc, wcur>>
                /\ (pc[p] \in HasSlot <=> l \in HasSlot) => Held'
           /\ my' = [my EXCEPT ![p] = NoSlot] /\ UNCHANGED <<wpc, wcur>>
                /\ l \notin HasSlot =>
                     my' \in [Senders -> Slots \cup {NoSlot}] /\ Held'
<1>1. pc' \in [Senders -> SenderPc] /\ pc' = [pc EXCEPT ![p] = l]
  BY DEF GoTo, TypeOK
<1>2. my \in [Senders -> Slots \cup {NoSlot}] /\ pc \in [Senders -> SenderPc]
  BY DEF TypeOK
<1>3. ASSUME my' = my, UNCHANGED <<wpc, wcur>>,
             pc[p] \in HasSlot <=> l \in HasSlot
      PROVE  Held'
  BY <1>1, <1>2, <1>3 DEF Held
<1>4. ASSUME my' = [my EXCEPT ![p] = NoSlot], UNCHANGED <<wpc, wcur>>,
             l \notin HasSlot
      PROVE  my' \in [Senders -> Slots \cup {NoSlot}] /\ Held'
  BY <1>1, <1>2, <1>4 DEF Held
<1> QED BY <1>1, <1>3, <1>4

\* A sender in the middle of a call has a slot.
LEMMA SlotOfSender ==
    ASSUME TypeOK, Held, NEW p \in Senders, pc[p] \in HasSlot
    PROVE  my[p] \in Slots
BY DEF TypeOK, Held

LEMMA SlotOfWorker ==
    ASSUME TypeOK, Held, wpc \notin {"idle", "scan"}
    PROVE  wcur \in Slots
BY DEF TypeOK, Held

LEMMA TransmitType ==
    ASSUME TypeOK, NEW s \in Slots, Transmit(s)
    PROVE  fw' \subseteq [msg : 0..MaxCalls, id : Ids]
<1>1. [msg |-> slots[s].msg, id |-> slots[s].id] \in [msg : 0..MaxCalls, id : Ids]
  BY PoolUpdates
<1> QED BY <1>1 DEF Transmit, TypeOK

\* Every step of a sender keeps the types.
LEMMA SenderTypeInv ==
    ASSUME TypeInv, NEW p \in Senders,
           SenderStep(p) \/ \E r \in Requests : Malloc(p, r)
    PROVE  TypeInv'
<1>0. TypeOK /\ Held
  BY DEF TypeInv
<1>1. ASSUME Poll(p)
      PROVE  TypeInv'
  <2>1. GoTo(p, "queue") /\ UNCHANGED my
    BY <1>1 DEF Poll
  <2>2. pc' \in [Senders -> SenderPc] /\ Held'
    BY <2>1, <1>1, <1>0, SenderMoves DEF Poll, HasSlot, SenderPc, workerVars
  <2> QED BY <2>2, <1>0, <1>1
            DEF TypeInv, TypeOK, Poll, listVars, senderVars,
                workerVars, busVars, msgVars
<1>2. ASSUME Refuse(p)
      PROVE  TypeInv'
  <2>1. GoTo(p, "idle") /\ my' = [my EXCEPT ![p] = NoSlot]
    BY <1>2 DEF Refuse, Return
  <2>2. /\ pc' \in [Senders -> SenderPc]
        /\ my' \in [Senders -> Slots \cup {NoSlot}] /\ Held'
    BY <2>1, <1>2, <1>0, SenderMoves DEF Refuse, HasSlot, SenderPc, workerVars
  <2>3. slots' \in [Slots -> Command]
    BY <1>2, <1>0, SlotOfSender, PoolUpdates DEF Refuse, HasSlot
  <2> QED BY <2>2, <2>3, <1>0, <1>2
            DEF TypeInv, TypeOK, Refuse, listVars, senderVars,
                workerVars, busVars, msgVars
<1>3. ASSUME QueueDirect(p)
      PROVE  TypeInv'
  <2>1. GoTo(p, "push") /\ UNCHANGED my
    BY <1>3 DEF QueueDirect
  <2>2. pc' \in [Senders -> SenderPc] /\ Held'
    BY <2>1, <1>3, <1>0, SenderMoves DEF QueueDirect, HasSlot, SenderPc, workerVars
  <2>3. my[p] \in Slots
    BY <1>3, <1>0, SlotOfSender DEF QueueDirect, HasSlot
  <2>4. /\ slots' \in [Slots -> Command]
        /\ cmds' \in Seq(Slots) /\ queue_sz' \in Int
    BY <2>3, <1>3, <1>0, EnlistType DEF QueueDirect
  <2> QED BY <2>2, <2>4, <1>0, <1>3
            DEF TypeInv, TypeOK, QueueDirect, listVars, senderVars,
                workerVars, busVars, msgVars
<1>4. ASSUME QueueDeferred(p)
      PROVE  TypeInv'
  <2> DEFINE l == IF pc[p] = "force" THEN "wakeforce" ELSE "wake"
  <2>1. /\ GoTo(p, l) /\ my' = [my EXCEPT ![p] = NoSlot]
        /\ l \in SenderPc /\ l \notin HasSlot
    BY <1>4 DEF QueueDeferred, SenderPc, HasSlot
  <2> HIDE DEF l
  <2>2. /\ pc' \in [Senders -> SenderPc]
        /\ my' \in [Senders -> Slots \cup {NoSlot}] /\ Held'
    BY <2>1, <1>4, <1>0, SenderMoves DEF QueueDeferred, workerVars
  <2>3. my[p] \in Slots
    BY <1>4, <1>0, SlotOfSender DEF QueueDeferred, HasSlot
  <2>4. /\ slots' \in [Slots -> Command]
        /\ cmds' \in Seq(Slots) /\ queue_sz' \in Int
    BY <2>3, <1>4, <1>0, EnlistType DEF QueueDeferred
  <2> QED BY <2>2, <2>4, <1>0, <1>4
            DEF TypeInv, TypeOK, QueueDeferred, listVars, senderVars,
                workerVars, busVars, msgVars
<1>5. ASSUME LinkTwice(p)
      PROVE  TypeInv'
  <2>1. Held'
    BY <1>5, <1>0 DEF LinkTwice, Held, senderVars, workerVars
  <2>2. oops' \in BOOLEAN
    BY <1>5 DEF LinkTwice, Fault
  <2> QED BY <2>2, <2>1, <1>0, <1>5
            DEF TypeInv, TypeOK, LinkTwice, listVars, senderVars,
                workerVars, busVars, msgVars
<1>6. ASSUME WakeAfterQueue(p)
      PROVE  TypeInv'
  <2>1. GoTo(p, "idle") /\ UNCHANGED my
    BY <1>6 DEF WakeAfterQueue
  <2>2. pc' \in [Senders -> SenderPc] /\ Held'
    BY <2>1, <1>6, <1>0, SenderMoves DEF WakeAfterQueue, HasSlot, SenderPc, workerVars
  <2>3. work' \in BOOLEAN
    BY <1>6, <1>0, Zenon DEF WakeAfterQueue, TypeOK
  <2> QED BY <2>2, <2>3, <1>0, <1>6
            DEF TypeInv, TypeOK, WakeAfterQueue, listVars, senderVars,
                workerVars, busVars, msgVars
<1>7. ASSUME PushDirect(p)
      PROVE  TypeInv'
  <2>1. GoTo(p, "wait") /\ UNCHANGED my
    BY <1>7 DEF PushDirect
  <2>2. pc' \in [Senders -> SenderPc] /\ Held'
    BY <2>1, <1>7, <1>0, SenderMoves DEF PushDirect, HasSlot, SenderPc, workerVars
  <2>3. my[p] \in Slots
    BY <1>7, <1>0, SlotOfSender DEF PushDirect, HasSlot
  <2>4. fw' \subseteq [msg : 0..MaxCalls, id : Ids]
    BY <2>3, <1>7, <1>0, TransmitType DEF PushDirect
  <2>5. heap' \subseteq Calls
    BY <1>7, <1>0 DEF PushDirect, FreeMsg, TypeOK
  <2> QED BY <2>2, <2>4, <2>5, <1>0, <1>7
            DEF TypeInv, TypeOK, PushDirect, listVars, senderVars,
                workerVars, busVars, msgVars
<1>8. ASSUME SendOneWay(p)
      PROVE  TypeInv'
  <2>1. GoTo(p, "idle") /\ my' = [my EXCEPT ![p] = NoSlot]
    BY <1>8 DEF SendOneWay, Return
  <2>2. /\ pc' \in [Senders -> SenderPc]
        /\ my' \in [Senders -> Slots \cup {NoSlot}] /\ Held'
    BY <2>1, <1>8, <1>0, SenderMoves DEF SendOneWay, HasSlot, SenderPc, workerVars
  <2>3. slots' \in [Slots -> Command]
    BY <1>8, <1>0, SlotOfSender, PoolUpdates DEF SendOneWay, HasSlot
  <2> QED BY <2>2, <2>3, <1>0, <1>8
            DEF TypeInv, TypeOK, SendOneWay, listVars, senderVars,
                workerVars, busVars, msgVars
<1>9. ASSUME Awake(p)
      PROVE  TypeInv'
  <2>1. GoTo(p, "resume") /\ my' = [my EXCEPT ![p] = NoSlot]
    BY <1>9 DEF Awake, Return
  <2>2. /\ pc' \in [Senders -> SenderPc]
        /\ my' \in [Senders -> Slots \cup {NoSlot}] /\ Held'
    BY <2>1, <1>9, <1>0, SenderMoves DEF Awake, HasSlot, SenderPc, workerVars
  <2>3. slots' \in [Slots -> Command]
    BY <1>9, <1>0, SlotOfSender, PoolUpdates DEF Awake, HasSlot
  <2>4. killed' \in BOOLEAN
    BY <1>9, <1>0, Zenon DEF Awake, TypeOK
  <2> QED BY <2>2, <2>3, <2>4, <1>0, <1>9
            DEF TypeInv, TypeOK, Awake, listVars, senderVars,
                workerVars, busVars, msgVars
<1>10. ASSUME WakeAfterWait(p)
      PROVE  TypeInv'
  <2>1. GoTo(p, "idle") /\ UNCHANGED my
    BY <1>10 DEF WakeAfterWait
  <2>2. pc' \in [Senders -> SenderPc] /\ Held'
    BY <2>1, <1>10, <1>0, SenderMoves DEF WakeAfterWait, HasSlot, SenderPc, workerVars
  <2>3. work' \in BOOLEAN
    BY <1>10, <1>0, Zenon DEF WakeAfterWait, TypeOK
  <2> QED BY <2>2, <2>3, <1>0, <1>10
            DEF TypeInv, TypeOK, WakeAfterWait, listVars, senderVars,
                workerVars, busVars, msgVars
<1>11. ASSUME TimerExpires(p)
      PROVE  TypeInv'
  <2>1. GoTo(p, "timedout") /\ UNCHANGED my
    BY <1>11 DEF TimerExpires
  <2>2. pc' \in [Senders -> SenderPc] /\ Held'
    BY <2>1, <1>11, <1>0, SenderMoves DEF TimerExpires, HasSlot, SenderPc, workerVars
  <2> QED BY <2>2, <1>0, <1>11
            DEF TypeInv, TypeOK, TimerExpires, listVars, senderVars,
                workerVars, busVars, msgVars
<1>12. ASSUME TimeoutDirect(p)
      PROVE  TypeInv'
  <2>1. GoTo(p, "release") /\ UNCHANGED my
    BY <1>12 DEF TimeoutDirect
  <2>2. pc' \in [Senders -> SenderPc] /\ Held'
    BY <2>1, <1>12, <1>0, SenderMoves DEF TimeoutDirect, HasSlot, SenderPc, workerVars
  <2>3. my[p] \in Slots
    BY <1>12, <1>0, SlotOfSender DEF TimeoutDirect, HasSlot
  <2>4. /\ slots' \in [Slots -> Command] /\ cmds' \in Seq(Slots)
        /\ queue_sz' \in Int /\ oops' \in BOOLEAN
    BY <2>3, <1>12, <1>0, GiveUpType DEF TimeoutDirect
  <2>5. mgr' \in {"INITED", "CRASHED", "DEINIT"}
    BY <1>12 DEF TimeoutDirect, Crash
  <2> QED BY <2>2, <2>4, <2>5, <1>0, <1>12
            DEF TypeInv, TypeOK, TimeoutDirect, listVars, senderVars,
                workerVars, busVars, msgVars
<1>13. ASSUME Release(p)
      PROVE  TypeInv'
  <2>1. GoTo(p, "idle") /\ my' = [my EXCEPT ![p] = NoSlot]
    BY <1>13 DEF Release, Return
  <2>2. /\ pc' \in [Senders -> SenderPc]
        /\ my' \in [Senders -> Slots \cup {NoSlot}] /\ Held'
    BY <2>1, <1>13, <1>0, SenderMoves DEF Release, HasSlot, SenderPc, workerVars
  <2>3. slots' \in [Slots -> Command]
    BY <1>13, <1>0, SlotOfSender, PoolUpdates DEF Release, HasSlot
  <2> QED BY <2>2, <2>3, <1>0, <1>13
            DEF TypeInv, TypeOK, Release, listVars, senderVars,
                workerVars, busVars, msgVars
<1>14. ASSUME UseAfterDeinit(p)
      PROVE  TypeInv'
  <2>1. Held'
    BY <1>14, <1>0 DEF UseAfterDeinit, Held, senderVars, workerVars
  <2>2. oops' \in BOOLEAN
    BY <1>14 DEF UseAfterDeinit, Fault
  <2> QED BY <2>2, <2>1, <1>0, <1>14
            DEF TypeInv, TypeOK, UseAfterDeinit, listVars, senderVars,
                workerVars, busVars, msgVars
<1>15. ASSUME NEW r \in Requests, Malloc(p, r)
      PROVE  TypeInv'
  <2>1. calls' \in 0..MaxCalls /\ calls + 1 \in 0..MaxCalls
    BY <1>15, <1>0, CmdMgrAssumption DEF Malloc, TypeOK, CmdMgrAssumption
  <2>2. heap' \subseteq Calls
    BY <1>15, <1>0, CmdMgrAssumption DEF Malloc, TypeOK, Calls, CmdMgrAssumption
  <2>3. ASSUME NEW s \in Slots,
               Claim(s, r), my' = [my EXCEPT ![p] = s],
               GoTo(p, EntryPc[r.kind]), UNCHANGED oops
        PROVE  TypeInv'
    <3>1. r.id \in Ids /\ r.kind \in Kinds
      BY CmdMgrAssumption DEF CmdMgrAssumption
    <3>2. EntryPc[r.kind] \in SenderPc /\ EntryPc[r.kind] \in HasSlot
      BY <3>1 DEF Kinds, EntryPc, SenderPc, HasSlot
    <3>3. pc' \in [Senders -> SenderPc]
      BY <2>3, <3>2, <1>0 DEF GoTo, TypeOK
    <3>4. my' \in [Senders -> Slots \cup {NoSlot}]
      BY <2>3, <1>0 DEF TypeOK
    <3>5. Held'
      <4>1. ASSUME NEW q \in Senders
            PROVE  my'[q] # NoSlot <=> pc'[q] \in HasSlot
        <5>1. CASE q = p
          BY <5>1, <2>3, <3>2, <1>0 DEF GoTo, TypeOK, NoSlot, Slots
        <5>2. CASE q # p
          BY <5>2, <2>3, <1>0 DEF GoTo, TypeOK, Held
        <5> QED BY <5>1, <5>2
      <4> QED BY <4>1, <1>15, <1>0 DEF Held, Malloc, workerVars
    <3> DEFINE b == r.kind = "buffer"
    <3>6. b \in BOOLEAN
      OBVIOUS
    <3>7. slots' = [slots EXCEPT ![s] = [slots[s] EXCEPT !.used = TRUE,
                        !.id = r.id, !.buf = b, !.msg = calls + 1]]
      BY <2>3 DEF Claim
    <3> HIDE DEF b
    <3>8. slots' \in [Slots -> Command]
      BY <3>1, <3>6, <3>7, <2>1, <1>0, PoolUpdates, CommandUpdates
    <3> QED BY <3>3, <3>4, <3>5, <3>8, <2>1, <2>2, <2>3, <1>0, <1>15
            DEF TypeInv, TypeOK, Malloc, listVars, workerVars, busVars
  <2>4. ASSUME Fault, UNCHANGED <<slots, senderVars>>
        PROVE  TypeInv'
    <3>1. Held'
      BY <2>4, <1>15, <1>0 DEF Held, Malloc, senderVars, workerVars
    <3> QED BY <3>1, <2>1, <2>2, <2>4, <1>0, <1>15
            DEF TypeInv, TypeOK, Malloc, Fault, listVars, senderVars,
                workerVars, busVars
  <2>5. \/ \E s \in Slots : /\ Claim(s, r) /\ my' = [my EXCEPT ![p] = s]
                             /\ GoTo(p, EntryPc[r.kind]) /\ UNCHANGED oops
        \/ Fault /\ UNCHANGED <<slots, senderVars>>
    BY <1>15 DEF Malloc
  <2> QED BY <2>3, <2>4, <2>5
<1> QED BY <1>1, <1>2, <1>3, <1>4, <1>5, <1>6, <1>7, <1>8, <1>9, <1>10, <1>11, <1>12, <1>13, <1>14, <1>15 DEF SenderStep

\* Every step of the worker keeps the types.
LEMMA WorkerTypeInv ==
    ASSUME TypeInv, WorkerStep
    PROVE  TypeInv'
<1>0. TypeOK /\ Held
  BY DEF TypeInv
<1>1. ASSUME WorkerStart
      PROVE  TypeInv'
  <2>1. /\ wpc' \in WorkerPc /\ wcur' \in Slots \cup {NoSlot} /\ Held'
    BY <1>1, <1>0 DEF WorkerStart, TypeOK, WorkerPc, Held, senderVars
  <2>2. work' \in BOOLEAN
    BY <1>1, Zenon DEF WorkerStart
  <2> QED BY <2>2, <2>1, <1>0, <1>1
            DEF TypeInv, TypeOK, WorkerStart, listVars, senderVars,
                workerVars, busVars, msgVars
<1>2. ASSUME WorkerScan
      PROVE  TypeInv'
  <2>0. NextCmd \in Slots \cup {NoSlot}
    <3>1. cmds # <<>> => Head(cmds) \in Slots
      BY <1>0, HeadTailProperties DEF TypeOK
    <3> QED BY <3>1 DEF NextCmd
  <2>1. /\ wpc' \in WorkerPc /\ wcur' \in Slots \cup {NoSlot} /\ Held'
    BY <2>0, <1>2, <1>0 DEF WorkerScan, TypeOK, WorkerPc, Held, senderVars
  <2> QED BY <2>1, <1>0, <1>2
            DEF TypeInv, TypeOK, WorkerScan, listVars, senderVars,
                workerVars, busVars, msgVars
<1>3. ASSUME WorkerLoad
      PROVE  TypeInv'
  <2>1. /\ wpc' \in WorkerPc /\ wcur' \in Slots \cup {NoSlot} /\ Held'
    BY <1>3, <1>0 DEF WorkerLoad, TypeOK, WorkerPc, Held, senderVars
  <2>2. wcur \in Slots
    BY <1>3, <1>0, SlotOfWorker DEF WorkerLoad
  <2>3. wflags' \in Flags
    BY <2>2, <1>3, <1>0, PoolUpdates DEF WorkerLoad
  <2> QED BY <2>3, <2>1, <1>0, <1>3
            DEF TypeInv, TypeOK, WorkerLoad, listVars, senderVars,
                workerVars, busVars, msgVars
<1>4. ASSUME WorkerStore
      PROVE  TypeInv'
  <2>1. /\ wpc' \in WorkerPc /\ wcur' \in Slots \cup {NoSlot} /\ Held'
    BY <1>4, <1>0 DEF WorkerStore, TypeOK, WorkerPc, Held, senderVars
  <2>2. wcur \in Slots
    BY <1>4, <1>0, SlotOfWorker DEF WorkerStore
  <2>3. ClearPush(wflags) \in Flags
    BY <1>0, FlagUpdates DEF TypeOK
  <2>4. [slots[wcur] EXCEPT !.flags = ClearPush(wflags)] \in Command
    BY <2>2, <2>3, <1>0, PoolUpdates DEF Command
  <2>5. slots' \in [Slots -> Command]
    BY <2>2, <2>4, <1>4, <1>0, PoolUpdates DEF WorkerStore
  <2> QED BY <2>5, <2>1, <1>0, <1>4
            DEF TypeInv, TypeOK, WorkerStore, listVars, senderVars,
                workerVars, busVars, msgVars
<1>5. ASSUME WorkerPush
      PROVE  TypeInv'
  <2>1. /\ wpc' \in WorkerPc /\ wcur' \in Slots \cup {NoSlot} /\ Held'
    BY <1>5, <1>0 DEF WorkerPush, TypeOK, WorkerPc, Held, senderVars
  <2>2. wcur \in Slots
    BY <1>5, <1>0, SlotOfWorker DEF WorkerPush
  <2>3. fw' \subseteq [msg : 0..MaxCalls, id : Ids]
    BY <2>2, <1>5, <1>0, TransmitType DEF WorkerPush
  <2>4. heap' \subseteq Calls
    BY <1>5, <1>0 DEF WorkerPush, FreeMsg, TypeOK
  <2> QED BY <2>3, <2>4, <2>1, <1>0, <1>5
            DEF TypeInv, TypeOK, WorkerPush, listVars, senderVars,
                workerVars, busVars, msgVars
<1>6. ASSUME WorkerComplete
      PROVE  TypeInv'
  <2>1. /\ wpc' \in WorkerPc /\ wcur' \in Slots \cup {NoSlot} /\ Held'
    BY <1>6, <1>0 DEF WorkerComplete, TypeOK, WorkerPc, Held, senderVars
  <2>2. wcur \in Slots
    BY <1>6, <1>0, SlotOfWorker DEF WorkerComplete
  <2>3. slots' \in [Slots -> Command]
    BY <2>2, <1>6, <1>0, PoolUpdates DEF WorkerComplete
  <2> QED BY <2>3, <2>1, <1>0, <1>6
            DEF TypeInv, TypeOK, WorkerComplete, listVars, senderVars,
                workerVars, busVars, msgVars
<1>7. ASSUME WorkerTimerExpires
      PROVE  TypeInv'
  <2>1. /\ wpc' \in WorkerPc /\ wcur' \in Slots \cup {NoSlot} /\ Held'
    BY <1>7, <1>0 DEF WorkerTimerExpires, TypeOK, WorkerPc, Held, senderVars
  <2> QED BY <2>1, <1>0, <1>7
            DEF TypeInv, TypeOK, WorkerTimerExpires, listVars, senderVars,
                workerVars, busVars, msgVars
<1>8. ASSUME WorkerTimeout
      PROVE  TypeInv'
  <2>1. /\ wpc' \in WorkerPc /\ wcur' \in Slots \cup {NoSlot} /\ Held'
    BY <1>8, <1>0 DEF WorkerTimeout, TypeOK, WorkerPc, Held, senderVars
  <2>2. wcur \in Slots
    BY <1>8, <1>0, SlotOfWorker DEF WorkerTimeout
  <2>3. /\ slots' \in [Slots -> Command] /\ cmds' \in Seq(Slots)
        /\ queue_sz' \in Int /\ oops' \in BOOLEAN
    BY <2>2, <1>8, <1>0, GiveUpType DEF WorkerTimeout
  <2>4. mgr' \in {"INITED", "CRASHED", "DEINIT"}
    BY <1>8 DEF WorkerTimeout, Crash
  <2> QED BY <2>3, <2>4, <2>1, <1>0, <1>8
            DEF TypeInv, TypeOK, WorkerTimeout, listVars, senderVars,
                workerVars, busVars, msgVars
<1> QED BY <1>1, <1>2, <1>3, <1>4, <1>5, <1>6, <1>7, <1>8 DEF WorkerStep

\* So does every step of the firmware and of the teardown.
LEMMA BusTypeInv ==
    ASSUME TypeInv, FirmwareStep \/ BusDown \/ Drain \/ Deinit
    PROVE  TypeInv'
<1>0. TypeOK /\ Held
  BY DEF TypeInv
<1>h. ASSUME UNCHANGED <<senderVars, workerVars>>
      PROVE  Held'
  BY <1>h, <1>0 DEF Held, senderVars, workerVars
<1>1. ASSUME NEW m \in fw, Confirm(m)
      PROVE  TypeInv'
  <2>1. Held'
    BY <1>1, <1>h DEF Confirm
  <2>2. PICK i \in DOMAIN cmds :
            /\ Unlink(i)
            /\ slots' = [slots EXCEPT ![cmds[i]] =
                 [@ EXCEPT !.complete = TRUE,
                           !.flags = Answered(slots[cmds[i]].flags)]]
    BY <1>1 DEF Confirm
  <2>3. i \in 1..Len(cmds) /\ cmds[i] \in Slots
    BY <2>2, <1>0, LenProperties, ElementOfSeq DEF TypeOK
  <2>4. cmds' \in Seq(Slots) /\ queue_sz' \in Int
    BY <2>2, <2>3, <1>0, UnlinkType
  <2>5. Answered(slots[cmds[i]].flags) \in Flags
    BY <2>3, <1>0, PoolUpdates, FlagUpdates
  <2>6. [slots[cmds[i]] EXCEPT !.complete = TRUE,
                !.flags = Answered(slots[cmds[i]].flags)] \in Command
    BY <2>3, <2>5, <1>0, PoolUpdates DEF Command
  <2>7. slots' \in [Slots -> Command]
    BY <2>2, <2>3, <2>6, <1>0, PoolUpdates
  <2>8. fw' \subseteq [msg : 0..MaxCalls, id : Ids]
    BY <1>1, <1>0 DEF Confirm, TypeOK
  <2> QED BY <2>4, <2>7, <2>8, <2>1, <1>0, <1>1
            DEF TypeInv, TypeOK, Confirm, listVars, senderVars,
                workerVars, busVars, msgVars
<1>2. ASSUME NEW m \in fw, Unclaimed(m)
      PROVE  TypeInv'
  <2>1. Held'
    BY <1>2, <1>h DEF Unclaimed
  <2> QED BY <2>1, <1>0, <1>2
            DEF TypeInv, TypeOK, Unclaimed, listVars, senderVars,
                workerVars, busVars, msgVars
<1>3. ASSUME BusDown
      PROVE  TypeInv'
  <2>1. Held'
    BY <1>3, <1>h DEF BusDown
  <2> QED BY <2>1, <1>0, <1>3
            DEF TypeInv, TypeOK, BusDown, listVars, senderVars,
                workerVars, busVars, msgVars
<1>4. ASSUME Drain
      PROVE  TypeInv'
  <2>1. Held'
    BY <1>4, <1>h DEF Drain
  <2>2. \A s \in Slots : LET b == slots[s].complete \/ Listed(s)
                         IN [slots[s] EXCEPT !.complete = b] \in Command
    <3> SUFFICES ASSUME NEW s \in Slots, NEW b \in BOOLEAN
                 PROVE  [slots[s] EXCEPT !.complete = b] \in Command
      OBVIOUS
    <3> QED BY <1>0, PoolUpdates DEF Command
  <2>3. slots' \in [Slots -> Command]
    BY <2>2, <1>4 DEF Drain
  <2>4. cmds' \in Seq(Slots) /\ queue_sz' \in Int
    BY <1>4, <1>0, EmptySeq, LenProperties DEF Drain, TypeOK
  <2> QED BY <2>3, <2>4, <2>1, <1>0, <1>4
            DEF TypeInv, TypeOK, Drain, listVars, senderVars,
                workerVars, busVars, msgVars
<1>5. ASSUME Deinit
      PROVE  TypeInv'
  <2>1. Held'
    BY <1>5, <1>h DEF Deinit
  <2>4. cmds' \in Seq(Slots) /\ queue_sz' \in Int
    BY <1>5, EmptySeq DEF Deinit
  <2> QED BY <2>4, <2>1, <1>0, <1>5
            DEF TypeInv, TypeOK, Deinit, listVars, senderVars,
                workerVars, busVars, msgVars
<1> QED BY <1>1, <1>2, <1>3, <1>4, <1>5 DEF FirmwareStep

LEMMA NextTypeInv == TypeInv /\ [Next]_vars => TypeInv'
<1> SUFFICES ASSUME TypeInv, [Next]_vars PROVE TypeInv'
  OBVIOUS
<1>1. ASSUME UNCHANGED vars
      PROVE  TypeInv'
  BY <1>1 DEF TypeInv, TypeOK, Held, vars, listVars, senderVars, workerVars,
              busVars, msgVars
<1> QED BY <1>1, SenderTypeInv, WorkerTypeInv, BusTypeInv DEF Next, Quiescent

\* Every list, slot and reference stays what it is declared to be, through any
\* interleaving of senders, worker, confirmations, timeouts, fatal signals and
\* teardown; in particular no thread uses a slot it does not hold.
THEOREM TypeCorrect == Spec => [](TypeOK /\ Held)
<1>1. Init => TypeInv
  BY InitTypeInv
<1>2. TypeInv /\ [Next]_vars => TypeInv'
  BY NextTypeInv
<1>3. TypeInv => TypeOK /\ Held
  BY DEF TypeInv
<1> QED BY <1>1, <1>2, <1>3, PTL DEF Spec

-----------------------------------------------------------------------------
(* The invariant of the list and of the messages *)

ListInv == Counted /\ NoDuplicate /\ AllWaitCfm /\ TailWaitsPush

\* What the assignments to a slot leave as it was.
SameData == \A t \in Slots : slots'[t].msg = slots[t].msg
SameFlags == \A t \in Slots : slots'[t].flags = slots[t].flags
SameUse == \A t \in Slots : slots'[t].used = slots[t].used
SameBut(s) == \A t \in Slots : t # s => slots'[t] = slots[t]

\* No sender, and no worker, starts to depend on its message.
SendersQuiet ==
    \A p \in Senders : pc'[p] \in {"poll", "queue", "force", "send", "push"}
        => pc[p] \in {"poll", "queue", "force", "send", "push"}
WorkerQuiet ==
    \/ wpc' = wpc /\ wflags' = wflags
    \/ wpc' = "timedout" /\ wpc = "wait"
    \/ wpc' = "scan" /\ wpc = "idle"
    \/ wpc' = "store" /\ wflags' = slots[wcur].flags /\ wpc = "load"

LEMMA ListElements ==
    ASSUME TypeOK
    PROVE  Len(cmds) \in Nat /\ \A i \in 1..Len(cmds) : cmds[i] \in Slots
BY LenProperties, ElementOfSeq DEF TypeOK

LEMMA FreeCmdEffect ==
    ASSUME TypeOK, NEW s \in Slots, FreeCmd(s)
    PROVE  SameData /\ SameFlags /\ SameBut(s)
<1>1. slots \in [Slots -> Command]
  BY DEF TypeOK
<1>2. slots' = [slots EXCEPT ![s] =
            [slots[s] EXCEPT !.used = FALSE, !.complete = FALSE]]
  BY DEF FreeCmd
<1>3. /\ [slots[s] EXCEPT !.used = FALSE, !.complete = FALSE].msg = slots[s].msg
      /\ [slots[s] EXCEPT !.used = FALSE, !.complete = FALSE].flags = slots[s].flags
  BY <1>1 DEF Command
<1> QED BY <1>1, <1>2, <1>3 DEF SameData, SameFlags, SameBut

LEMMA ClaimEffect ==
    ASSUME TypeOK, NEW s \in Slots, NEW r \in Requests, Claim(s, r)
    PROVE  /\ SameFlags /\ SameBut(s)
           /\ slots'[s].msg = calls + 1 /\ slots'[s].used
<1>1. slots \in [Slots -> Command]
  BY DEF TypeOK
<1> DEFINE b == r.kind = "buffer"
           c == [slots[s] EXCEPT !.used = TRUE, !.id = r.id, !.buf = b,
                                 !.msg = calls + 1]
<1>2. slots' = [slots EXCEPT ![s] = c]
  BY DEF Claim
<1> HIDE DEF b
<1>3. c.msg = calls + 1 /\ c.flags = slots[s].flags /\ c.used = TRUE
  BY <1>1 DEF Command
<1> HIDE DEF c
<1> QED BY <1>1, <1>2, <1>3 DEF SameFlags, SameBut

\* An update of one slot's flags, and perhaps of its completion.
LEMMA FlagsEffect ==
    ASSUME TypeOK, NEW s \in Slots, NEW f \in Flags, NEW b \in BOOLEAN,
           \/ slots' = [slots EXCEPT ![s] = [@ EXCEPT !.flags = f]]
           \/ slots' = [slots EXCEPT ![s] =
                                [@ EXCEPT !.complete = b, !.flags = f]]
    PROVE  SameData /\ SameUse /\ SameBut(s) /\ slots'[s].flags = f
<1>1. slots \in [Slots -> Command]
  BY DEF TypeOK
<1>2. PICK c : /\ slots' = [slots EXCEPT ![s] = c]
               /\ c.msg = slots[s].msg /\ c.used = slots[s].used /\ c.flags = f
  <2>1. /\ [slots[s] EXCEPT !.flags = f].msg = slots[s].msg
        /\ [slots[s] EXCEPT !.flags = f].used = slots[s].used
        /\ [slots[s] EXCEPT !.flags = f].flags = f
    BY <1>1 DEF Command
  <2>2. /\ [slots[s] EXCEPT !.complete = b, !.flags = f].msg = slots[s].msg
        /\ [slots[s] EXCEPT !.complete = b, !.flags = f].used = slots[s].used
        /\ [slots[s] EXCEPT !.complete = b, !.flags = f].flags = f
    BY <1>1 DEF Command
  <2>3. CASE slots' = [slots EXCEPT ![s] = [@ EXCEPT !.flags = f]]
    BY <2>1, <2>3
  <2>4. CASE slots' = [slots EXCEPT ![s] =
                                [@ EXCEPT !.complete = b, !.flags = f]]
    BY <2>2, <2>4
  <2> QED BY <2>3, <2>4
<1> QED BY <1>1, <1>2 DEF SameData, SameUse, SameBut

\* The flags that follow from the three updates.
LEMMA FlagValues ==
    ASSUME NEW f \in Flags, NEW d \in BOOLEAN
    PROVE  /\ Queued(f, d).cfm /\ (Queued(f, d).push <=> f.push \/ d)
           /\ Done(f).push = f.push /\ Done(f).cfm = f.cfm
           /\ Answered(f).push = f.push /\ ~Answered(f).cfm
           /\ ~ClearPush(f).push /\ ClearPush(f).cfm = f.cfm
<1>1. Queued(f, d).cfm /\ (Queued(f, d).push <=> f.push \/ d)
  BY DEF Queued, Flags
<1>2. Done(f).push = f.push /\ Done(f).cfm = f.cfm
  BY DEF Done, Flags
<1>3. Answered(f).push = f.push /\ ~Answered(f).cfm
  BY DEF Answered, Flags
<1>4. ~ClearPush(f).push /\ ClearPush(f).cfm = f.cfm
  BY DEF ClearPush, Flags
<1> QED BY <1>1, <1>2, <1>3, <1>4

\* Steps that leave the list and the flags alone.
LEMMA ListFrame ==
    ASSUME TypeOK, ListInv, UNCHANGED listVars, SameFlags
    PROVE  ListInv'
BY ListElements
DEF ListInv, Counted, NoDuplicate, AllWaitCfm, TailWaitsPush, SameFlags, listVars

\* A slot that is on the list after an unlink was there before, and whatever
\* was at the head still is.
LEMMA UnlinkEffect ==
    ASSUME TypeOK, ListInv, NEW i \in 1..Len(cmds), Unlink(i),
           SameBut(cmds[i]), slots'[cmds[i]].flags.push = slots[cmds[i]].flags.push
    PROVE  /\ ListInv'
           /\ \A j \in 1..Len(cmds') : cmds'[j] # cmds[i]
           /\ \A j \in 1..Len(cmds') : \E k \in 1..Len(cmds) :
                    cmds'[j] = cmds[k] /\ j <= k
<1>1. /\ Len(cmds') = Len(cmds) - 1
      /\ \A j \in 1..(Len(cmds) - 1) :
            cmds'[j] = IF j < i THEN cmds[j] ELSE cmds[j + 1]
  BY RemoveAtProperties DEF Unlink, TypeOK
<1>2. Len(cmds) \in Nat /\ \A j \in 1..Len(cmds) : cmds[j] \in Slots
  BY ListElements
<1>3. ASSUME NEW j \in 1..Len(cmds')
      PROVE  \E k \in 1..Len(cmds) : cmds'[j] = cmds[k] /\ j <= k /\ k # i
  <2>1. CASE j < i
    <3>1. cmds'[j] = cmds[j] /\ j \in 1..Len(cmds) /\ j <= j /\ j # i
      BY <2>1, <1>1, <1>2
    <3> QED BY <3>1
  <2>2. CASE ~(j < i)
    <3>1. cmds'[j] = cmds[j + 1] /\ j + 1 \in 1..Len(cmds) /\ j <= j + 1 /\ j + 1 # i
      BY <2>2, <1>1, <1>2
    <3> QED BY <3>1
  <2> QED BY <2>1, <2>2
<1>4. \A j \in 1..Len(cmds') : cmds'[j] # cmds[i]
  BY <1>3 DEF ListInv, NoDuplicate
<1>5. Counted'
  BY <1>1, <1>2, CmdMgrAssumption DEF ListInv, Counted, Unlink, CmdMgrAssumption
<1>6. NoDuplicate'
  BY <1>1, <1>2 DEF ListInv, NoDuplicate
<1>7. AllWaitCfm'
  BY <1>2, <1>3, <1>4 DEF ListInv, AllWaitCfm, SameBut
<1>8. TailWaitsPush'
  <2> SUFFICES ASSUME NEW j \in 2..Len(cmds')
               PROVE  slots'[cmds'[j]].flags.push
    BY DEF TailWaitsPush
  <2>1. PICK k \in 1..Len(cmds) : cmds'[j] = cmds[k] /\ j <= k /\ k # i
    BY <1>1, <1>2, <1>3
  <2>2. slots[cmds[k]].flags.push /\ cmds[k] # cmds[i]
    BY <2>1, <1>2 DEF ListInv, TailWaitsPush, NoDuplicate
  <2> QED BY <2>1, <2>2, <1>2 DEF SameBut
<1> QED BY <1>3, <1>4, <1>5, <1>6, <1>7, <1>8 DEF ListInv

\* Queueing at the end keeps the list sound, if what is not alone is deferred.
LEMMA EnlistEffect ==
    ASSUME TypeOK, ListInv, CmdMgrAssumption, NEW s \in Slots, NEW d \in BOOLEAN,
           Enlist(s, d), ~Listed(s), ~Refused, d \/ cmds = <<>>
    PROVE  /\ ListInv' /\ SameData /\ SameUse /\ SameBut(s)
           /\ (slots'[s].flags.push <=> slots[s].flags.push \/ d)
           /\ Len(cmds') = Len(cmds) + 1 /\ cmds'[Len(cmds) + 1] = s
           /\ \A j \in 1..Len(cmds) : cmds'[j] = cmds[j]
<1>1. /\ Len(cmds') = Len(cmds) + 1 /\ cmds'[Len(cmds) + 1] = s
      /\ \A j \in 1..Len(cmds) : cmds'[j] = cmds[j]
  BY AppendProperties DEF Enlist, TypeOK
<1>2. Len(cmds) \in Nat /\ \A j \in 1..Len(cmds) : cmds[j] \in Slots /\ cmds[j] # s
  <2>1. 1..Len(cmds) = DOMAIN cmds
    BY LenProperties DEF TypeOK
  <2> QED BY <2>1, ListElements DEF Listed, Range
<1>3. Queued(slots[s].flags, d) \in Flags
  BY PoolUpdates, FlagUpdates
<1>4. /\ SameData /\ SameUse /\ SameBut(s)
      /\ slots'[s].flags = Queued(slots[s].flags, d)
  BY <1>3, FlagsEffect DEF Enlist
<1>5. slots'[s].flags.cfm /\ (slots'[s].flags.push <=> slots[s].flags.push \/ d)
  BY <1>4, PoolUpdates, FlagValues
<1>6. Counted'
  <2>1. cmds = <<>> => Len(cmds) = 0
    BY LenProperties
  <2> QED BY <2>1, <1>1, <1>2, CmdMgrAssumption
          DEF ListInv, Counted, Enlist, Refused, CmdMgrAssumption
<1>7. NoDuplicate'
  BY <1>1, <1>2 DEF ListInv, NoDuplicate
<1>8. AllWaitCfm'
  BY <1>1, <1>2, <1>4, <1>5 DEF ListInv, AllWaitCfm, SameBut
<1>9. TailWaitsPush'
  <2>1. cmds = <<>> => Len(cmds) = 0
    BY LenProperties
  <2> QED BY <2>1, <1>1, <1>2, <1>4, <1>5 DEF ListInv, TailWaitsPush, SameBut
<1> QED BY <1>1, <1>4, <1>5, <1>6, <1>7, <1>8, <1>9 DEF ListInv

-----------------------------------------------------------------------------
(* The invariant under each step *)

\* Steps that touch neither slots, list, references nor messages.
LEMMA QuietStep ==
    ASSUME TypeOK, Held, Core,
           UNCHANGED <<slots, listVars, my, wcur, heap, calls>>,
           SendersQuiet, WorkerQuiet
    PROVE  Core'
<1>1. ListInv'
  BY ListFrame DEF Core, ListInv, SameFlags
<1>2. OneUser'
  BY DEF Core, OneUser
<1>3. WorkerAtHead'
  <2>1. CASE wpc' = wpc /\ wflags' = wflags
    BY <2>1 DEF Core, WorkerAtHead, listVars
  <2>2. CASE wpc' = "timedout" /\ wpc = "wait"
    BY <2>2 DEF Core, WorkerAtHead, listVars
  <2>3. CASE wpc' = "scan" /\ wpc = "idle"
    BY <2>3 DEF Core, WorkerAtHead, listVars, Held
  <2>4. CASE wpc' = "store" /\ wflags' = slots[wcur].flags /\ wpc = "load"
    BY <2>4 DEF Core, WorkerAtHead, AllWaitCfm, listVars
  <2> QED BY <2>1, <2>2, <2>3, <2>4 DEF WorkerQuiet
<1>4. MessagesDistinct'
  BY DEF Core, MessagesDistinct
<1>5. MessagesHeld'
  BY DEF Core, MessagesHeld, SendersQuiet, WorkerQuiet
<1> QED BY <1>1, <1>2, <1>3, <1>4, <1>5 DEF Core, ListInv

\* A sender or the worker gives slot s back, and forgets it.
LEMMA FreeStep ==
    ASSUME TypeOK, Held, TypeOK', Held', Core, NEW s \in Slots, FreeCmd(s),
           UNCHANGED <<listVars, wflags, heap, calls>>,
           \/ \E p \in Senders : /\ my[p] = s /\ my' = [my EXCEPT ![p] = NoSlot]
                                 /\ \E l \in SenderPc \ HasSlot : GoTo(p, l)
                                 /\ UNCHANGED <<wpc, wcur>>
           \/ /\ s = wcur /\ wpc = "wait" /\ wpc' = "scan" /\ wcur' = NoSlot
              /\ UNCHANGED senderVars
    PROVE  Core'
<1>1. SameData /\ SameFlags /\ SameBut(s)
  BY FreeCmdEffect
<1>2. ListInv'
  BY <1>1, ListFrame DEF Core, ListInv
<1>3. ~slots[s].flags.push
  BY DEF Core, OneUser, WorkerAtHead, NoSlot, Slots
<1>4. /\ \A q \in Senders : my'[q] # NoSlot =>
            my'[q] = my[q] /\ my[q] # s /\ pc'[q] = pc[q] /\ my[q] \in Slots
      /\ wcur' # NoSlot => /\ wcur' = wcur /\ wcur # s /\ wpc' = wpc
                           /\ wcur \in Slots
  <2>1. CASE s = wcur /\ wpc' = "scan" /\ wcur' = NoSlot /\ UNCHANGED senderVars
    BY <2>1 DEF Core, OneUser, senderVars, TypeOK, NoSlot, Slots
  <2>2. ASSUME NEW p \in Senders, my[p] = s, my' = [my EXCEPT ![p] = NoSlot],
               NEW l, GoTo(p, l), UNCHANGED <<wpc, wcur>>
        PROVE  <1>4!:
    BY <2>2 DEF Core, OneUser, TypeOK, GoTo, NoSlot, Slots
  <2> QED BY <2>1, <2>2
<1>5. OneUser'
  <2>1. \A t \in Slots : slots'[t].flags.push => slots'[t].used
    BY <1>1, <1>3 DEF Core, OneUser, SameFlags, SameBut
  <2>2. \A q \in Senders : my'[q] # NoSlot =>
            /\ my'[q] # wcur' /\ slots'[my'[q]].used
            /\ ~slots'[my'[q]].flags.push
    BY <1>1, <1>4 DEF Core, OneUser, SameBut
  <2> QED BY <2>1, <2>2, <1>4 DEF Core, OneUser
<1>6. WorkerAtHead'
  BY <1>1, <1>4 DEF Core, WorkerAtHead, SameBut, listVars
<1>7. MessagesDistinct'
  BY <1>1 DEF Core, MessagesDistinct, SameData
<1>8. MessagesHeld'
  <2>1. \A q \in Senders : pc'[q] \in {"poll", "queue", "force", "send", "push"}
            => slots'[my'[q]].msg \in heap
    BY <1>1, <1>4 DEF Core, MessagesHeld, SameData, Held, HasSlot
  <2>2. wpc' \in {"load", "store", "push"} => slots'[wcur'].msg \in heap
    BY <1>1, <1>4 DEF Core, MessagesHeld, SameData, Held
  <2> QED BY <2>1, <2>2, <1>1 DEF Core, MessagesHeld, SameData, SameFlags
<1> QED BY <1>2, <1>5, <1>6, <1>7, <1>8 DEF Core, ListInv

LEMMA MallocStep ==
    ASSUME TypeOK, Held, TypeOK', Held', Core, NEW p \in Senders, NEW r \in Requests,
           Malloc(p, r), ~oops'
    PROVE  Core'
<1>1. PICK s \in Slots : /\ FirstFree(s) /\ Claim(s, r)
                         /\ my' = [my EXCEPT ![p] = s]
                         /\ GoTo(p, EntryPc[r.kind])
  BY DEF Malloc, Fault
<1>2. /\ SameFlags /\ SameBut(s) /\ slots'[s].msg = calls + 1 /\ slots'[s].used
  BY <1>1, ClaimEffect
<1>3. /\ UNCHANGED <<listVars, workerVars>> /\ calls' = calls + 1
      /\ heap' = heap \cup {calls + 1} /\ pc[p] = "idle"
  BY DEF Malloc
<1>4. ~slots[s].used /\ ~slots[s].flags.push
  BY <1>1 DEF FirstFree, Core, OneUser
<1>5. calls \in Nat /\ \A t \in Slots : slots[t].msg \in Nat
  BY PoolUpdates, CmdMgrAssumption DEF TypeOK, CmdMgrAssumption
<1>6. wcur # NoSlot => wcur # s /\ wcur \in Slots
  BY <1>4 DEF Core, WorkerAtHead, TypeOK
<1>7. /\ my'[p] = s /\ my[p] = NoSlot
      /\ \A q \in Senders : q # p => my'[q] = my[q] /\ pc'[q] = pc[q]
      /\ \A q \in Senders : my[q] # NoSlot => my[q] # s /\ my[q] \in Slots
  BY <1>1, <1>3, <1>4 DEF TypeOK, GoTo, Held, HasSlot, Core, OneUser
<1>8. ListInv'
  BY <1>2, <1>3, ListFrame DEF Core, ListInv
<1>9. OneUser'
  <2>1. \A q, t \in Senders : my'[q] = my'[t] /\ my'[q] # NoSlot => q = t
    BY <1>7 DEF Core, OneUser
  <2>2. \A q \in Senders : my'[q] # NoSlot =>
            /\ my'[q] # wcur' /\ slots'[my'[q]].used
            /\ ~slots'[my'[q]].flags.push
    BY <1>1, <1>2, <1>3, <1>4, <1>6, <1>7
    DEF Core, OneUser, SameFlags, SameBut, workerVars, NoSlot, Slots
  <2>3. \A t \in Slots : slots'[t].flags.push => slots'[t].used
    BY <1>2 DEF Core, OneUser, SameFlags, SameBut
  <2> QED BY <2>1, <2>2, <2>3 DEF OneUser
<1>10. WorkerAtHead'
  BY <1>2, <1>3, <1>6 DEF Core, WorkerAtHead, SameBut, listVars, workerVars
<1>11. MessagesDistinct'
  BY <1>2, <1>3, <1>5 DEF Core, MessagesDistinct, SameBut
<1>12. MessagesHeld'
  <2>1. \A t \in Slots : slots'[t].flags.push => slots'[t].msg \in heap'
    BY <1>2, <1>3, <1>4 DEF Core, MessagesHeld, SameFlags, SameBut
  <2>2. ASSUME NEW q \in Senders,
               pc'[q] \in {"poll", "queue", "force", "send", "push"}
        PROVE  slots'[my'[q]].msg \in heap'
    BY <2>2, <1>2, <1>3, <1>7 DEF Core, MessagesHeld, SameBut, Held, HasSlot
  <2>3. wpc' \in {"load", "store", "push"} => slots'[wcur'].msg \in heap'
    BY <1>2, <1>3, <1>6 DEF Core, MessagesHeld, SameBut, Held, workerVars
  <2> QED BY <2>1, <2>2, <2>3 DEF MessagesHeld
<1> QED BY <1>8, <1>9, <1>10, <1>11, <1>12 DEF Core, ListInv

LEMMA QueueDirectStep ==
    ASSUME TypeOK, Held, Core, NEW p \in Senders, QueueDirect(p)
    PROVE  Core'
<1>1. my[p] \in Slots /\ my[p] # wcur
  BY SlotOfSender DEF QueueDirect, HasSlot, Core, OneUser, NoSlot, Slots
<1>2. cmds = <<>>
  <2> SUFFICES ASSUME cmds # <<>> PROVE FALSE
    OBVIOUS
  <2>1. Len(cmds) \in 1..Len(cmds)
    BY EmptySeq, LenProperties, ListElements DEF TypeOK
  <2> QED BY <2>1 DEF QueueDirect, LastBusy, Core, AllWaitCfm
<1>3. /\ ListInv' /\ SameData /\ SameUse /\ SameBut(my[p])
      /\ (slots'[my[p]].flags.push <=> slots[my[p]].flags.push)
      /\ Len(cmds') = Len(cmds) + 1 /\ cmds'[Len(cmds) + 1] = my[p]
      /\ \A j \in 1..Len(cmds) : cmds'[j] = cmds[j]
  BY <1>1, <1>2, EnlistEffect, CmdMgrAssumption DEF QueueDirect, Core, ListInv
<1>4. /\ UNCHANGED <<my, workerVars, heap, calls>> /\ pc[p] = "queue"
      /\ GoTo(p, "push")
  BY DEF QueueDirect, msgVars
<1>5. OneUser'
  BY <1>3, <1>4 DEF Core, OneUser, SameUse, SameBut, TypeOK, workerVars
<1>6. WorkerAtHead'
  <2>1. \A j \in 1..Len(cmds') : cmds'[j] = wcur => j \in 1..Len(cmds) /\ cmds[j] = wcur
    BY <1>1, <1>3, ListElements
  <2>2. wcur # NoSlot => wcur \in Slots /\ slots'[wcur] = slots[wcur]
    BY <1>1, <1>3 DEF TypeOK, SameBut
  <2> QED BY <2>1, <2>2, <1>4 DEF Core, WorkerAtHead, workerVars
<1>7. MessagesDistinct'
  BY <1>3, <1>4 DEF Core, MessagesDistinct, SameData
<1>8. MessagesHeld'
  <2>1. \A t \in Slots : slots'[t].flags.push => slots[t].flags.push
    BY <1>1, <1>3 DEF SameBut
  <2>2. ASSUME NEW q \in Senders,
               pc'[q] \in {"poll", "queue", "force", "send", "push"}
        PROVE  slots'[my[q]].msg \in heap
    <3>1. pc[q] \in {"poll", "queue", "force", "send", "push"}
      BY <2>2, <1>4 DEF GoTo, TypeOK
    <3> QED BY <3>1, <1>3, SlotOfSender DEF Core, MessagesHeld, SameData, HasSlot
  <2>3. wpc \in {"load", "store", "push"} => slots'[wcur].msg \in heap
    BY <1>3, SlotOfWorker DEF Core, MessagesHeld, SameData
  <2> QED BY <2>1, <2>2, <2>3, <1>3, <1>4
          DEF Core, MessagesHeld, SameData, workerVars
<1> QED BY <1>3, <1>5, <1>6, <1>7, <1>8 DEF Core, ListInv

LEMMA QueueDeferredStep ==
    ASSUME TypeOK, Held, TypeOK', Held', Core, NEW p \in Senders, QueueDeferred(p)
    PROVE  Core'
<1>1. my[p] \in Slots /\ my[p] # wcur /\ slots[my[p]].used
  BY SlotOfSender DEF QueueDeferred, HasSlot, Core, OneUser, NoSlot, Slots
<1>2. /\ ListInv' /\ SameData /\ SameUse /\ SameBut(my[p])
      /\ Len(cmds') = Len(cmds) + 1 /\ cmds'[Len(cmds) + 1] = my[p]
      /\ \A j \in 1..Len(cmds) : cmds'[j] = cmds[j]
  BY <1>1, EnlistEffect, CmdMgrAssumption DEF QueueDeferred, Core, ListInv
<1>3. /\ UNCHANGED <<workerVars, heap, calls>> /\ pc[p] \in {"queue", "force"}
      /\ my' = [my EXCEPT ![p] = NoSlot] /\ \E l \in {"wake", "wakeforce"} : GoTo(p, l)
  BY DEF QueueDeferred, msgVars
<1>4. \A q \in Senders : my'[q] # NoSlot =>
            my'[q] = my[q] /\ my[q] # my[p] /\ my[q] \in Slots /\ pc'[q] = pc[q]
  BY <1>3 DEF Core, OneUser, TypeOK, GoTo
<1>5. OneUser'
  <2>1. \A t \in Slots : slots'[t].flags.push => slots'[t].used
    BY <1>1, <1>2 DEF Core, OneUser, SameUse, SameBut
  <2>2. \A q \in Senders : my'[q] # NoSlot =>
            /\ my'[q] # wcur' /\ slots'[my'[q]].used
            /\ ~slots'[my'[q]].flags.push
    BY <1>2, <1>3, <1>4 DEF Core, OneUser, SameBut, workerVars
  <2> QED BY <2>1, <2>2, <1>4 DEF Core, OneUser
<1>6. WorkerAtHead'
  <2>1. \A j \in 1..Len(cmds') : cmds'[j] = wcur => j \in 1..Len(cmds) /\ cmds[j] = wcur
    BY <1>1, <1>2, ListElements
  <2>2. wcur # NoSlot => wcur \in Slots /\ slots'[wcur] = slots[wcur]
    BY <1>1, <1>2 DEF TypeOK, SameBut
  <2> QED BY <2>1, <2>2, <1>3 DEF Core, WorkerAtHead, workerVars
<1>7. MessagesDistinct'
  BY <1>2, <1>3 DEF Core, MessagesDistinct, SameData
<1>8. MessagesHeld'
  <2>1. slots[my[p]].msg \in heap
    BY <1>3 DEF Core, MessagesHeld
  <2>2. \A t \in Slots : slots'[t].flags.push => slots'[t].msg \in heap
    BY <1>1, <1>2, <2>1 DEF Core, MessagesHeld, SameBut, SameData
  <2>3. ASSUME NEW q \in Senders,
               pc'[q] \in {"poll", "queue", "force", "send", "push"}
        PROVE  slots'[my'[q]].msg \in heap
    <3>1. my'[q] # NoSlot
      BY <2>3 DEF Held, HasSlot
    <3> QED BY <2>3, <3>1, <1>2, <1>4 DEF Core, MessagesHeld, SameData
  <2>4. wpc \in {"load", "store", "push"} => slots'[wcur].msg \in heap
    BY <1>2, SlotOfWorker DEF Core, MessagesHeld, SameData
  <2> QED BY <2>2, <2>3, <2>4, <1>3 DEF MessagesHeld, workerVars
<1> QED BY <1>2, <1>5, <1>6, <1>7, <1>8 DEF Core, ListInv

\* A message leaves the heap when its own command is pushed: all the messages
\* still to be sent are others.
LEMMA PushDirectStep ==
    ASSUME TypeOK, Held, Core, NEW p \in Senders, PushDirect(p)
    PROVE  Core'
<1>1. my[p] \in Slots /\ my[p] # wcur /\ ~slots[my[p]].flags.push
  BY SlotOfSender DEF PushDirect, HasSlot, Core, OneUser, NoSlot, Slots
<1>2. /\ UNCHANGED <<slots, listVars, my, workerVars, calls>> /\ pc[p] = "push"
      /\ heap' = heap \ {slots[my[p]].msg} /\ GoTo(p, "wait")
  BY DEF PushDirect, FreeMsg
<1>3. 0 \notin heap
  BY CmdMgrAssumption DEF TypeOK, Calls, CmdMgrAssumption
<1>4. \A t \in Slots : t # my[p] /\ slots[t].msg \in heap
            => slots[t].msg # slots[my[p]].msg
  BY <1>1, <1>3 DEF Core, MessagesDistinct
<1>5. ListInv'
  BY <1>2, ListFrame DEF Core, ListInv, SameFlags
<1>6. OneUser' /\ WorkerAtHead' /\ MessagesDistinct'
  BY <1>2 DEF Core, OneUser, WorkerAtHead, MessagesDistinct, workerVars, listVars
<1>7. MessagesHeld'
  <2>1. \A t \in Slots : slots[t].flags.push => slots[t].msg \in heap'
    BY <1>1, <1>2, <1>4 DEF Core, MessagesHeld
  <2>2. ASSUME NEW q \in Senders,
               pc'[q] \in {"poll", "queue", "force", "send", "push"}
        PROVE  slots[my[q]].msg \in heap'
    <3>1. q # p /\ pc[q] \in {"poll", "queue", "force", "send", "push"}
      BY <2>2, <1>2 DEF GoTo, TypeOK
    <3>2. my[q] \in Slots /\ my[q] # my[p]
      BY <3>1, SlotOfSender DEF Core, OneUser, HasSlot, NoSlot, Slots
    <3> QED BY <3>1, <3>2, <1>2, <1>4 DEF Core, MessagesHeld
  <2>3. wpc \in {"load", "store", "push"} => slots[wcur].msg \in heap'
    BY <1>1, <1>2, <1>4, SlotOfWorker DEF Core, MessagesHeld
  <2> QED BY <2>1, <2>2, <2>3, <1>2 DEF MessagesHeld, workerVars
<1> QED BY <1>5, <1>6, <1>7 DEF Core, ListInv

LEMMA WorkerPushStep ==
    ASSUME TypeOK, Held, Core, WorkerPush
    PROVE  Core'
<1>1. wcur \in Slots /\ ~slots[wcur].flags.push
  BY SlotOfWorker DEF WorkerPush, Core, WorkerAtHead, NoSlot, Slots
<1>2. /\ UNCHANGED <<slots, listVars, senderVars, wcur, wflags, calls>>
      /\ heap' = heap \ {slots[wcur].msg} /\ wpc = "push" /\ wpc' = "wait"
  BY DEF WorkerPush, FreeMsg
<1>3. 0 \notin heap
  BY CmdMgrAssumption DEF TypeOK, Calls, CmdMgrAssumption
<1>4. \A t \in Slots : t # wcur /\ slots[t].msg \in heap
            => slots[t].msg # slots[wcur].msg
  BY <1>1, <1>3 DEF Core, MessagesDistinct
<1>5. ListInv'
  BY <1>2, ListFrame DEF Core, ListInv, SameFlags
<1>6. OneUser' /\ WorkerAtHead' /\ MessagesDistinct'
  BY <1>2 DEF Core, OneUser, WorkerAtHead, MessagesDistinct, senderVars, listVars
<1>7. MessagesHeld'
  <2>1. \A t \in Slots : slots[t].flags.push => slots[t].msg \in heap'
    BY <1>1, <1>2, <1>4 DEF Core, MessagesHeld
  <2>2. ASSUME NEW q \in Senders,
               pc[q] \in {"poll", "queue", "force", "send", "push"}
        PROVE  slots[my[q]].msg \in heap'
    <3>1. my[q] \in Slots /\ my[q] # wcur
      BY <2>2, SlotOfSender DEF Core, OneUser, HasSlot, NoSlot, Slots
    <3> QED BY <2>2, <3>1, <1>2, <1>4 DEF Core, MessagesHeld
  <2> QED BY <2>1, <2>2, <1>2 DEF MessagesHeld, senderVars
<1> QED BY <1>5, <1>6, <1>7 DEF Core, ListInv

\* A timeout or a confirmation takes s off the list without touching WAIT_PUSH.
LEMMA TakenOff ==
    ASSUME TypeOK, Held, Core, NEW i \in 1..Len(cmds), Unlink(i),
           SameData, SameUse, SameBut(cmds[i]),
           slots'[cmds[i]].flags.push = slots[cmds[i]].flags.push,
           UNCHANGED <<my, heap, calls, wflags>>,
           SendersQuiet,
           UNCHANGED <<wpc, wcur>> \/ (wpc' = "scan" /\ wcur' = NoSlot)
    PROVE  Core'
<1>1. cmds[i] \in Slots
  BY ListElements
<1>3. /\ ListInv' /\ \A j \in 1..Len(cmds') : cmds'[j] # cmds[i]
      /\ \A j \in 1..Len(cmds') : \E k \in 1..Len(cmds) :
                    cmds'[j] = cmds[k] /\ j <= k
  BY UnlinkEffect DEF Core, ListInv
<1>4. \A t \in Slots : slots'[t].flags.push = slots[t].flags.push
  BY <1>1 DEF SameBut
<1>5. OneUser'
  <2>1. \A q \in Senders : my[q] # NoSlot => my[q] \in Slots /\ my[q] # wcur'
    BY DEF TypeOK, Core, OneUser
  <2> QED BY <2>1, <1>4 DEF Core, OneUser, SameUse
<1>6. WorkerAtHead'
  <2>1. CASE wcur' = NoSlot
    BY <2>1 DEF WorkerAtHead
  <2>2. CASE wcur # NoSlot /\ UNCHANGED <<wpc, wcur>>
    <3>1. wcur \in Slots
      BY <2>2 DEF TypeOK
    <3>2. ASSUME NEW j \in 1..Len(cmds'), cmds'[j] = wcur
          PROVE  j = 1 /\ cmds[1] = wcur /\ 1 \in 1..Len(cmds)
      BY <3>2, <2>2, <1>3, ListElements DEF Core, WorkerAtHead
    <3> QED BY <2>2, <3>1, <3>2, <1>4, ListElements
            DEF Core, WorkerAtHead, SameUse
  <2> QED BY <2>1, <2>2
<1>7. MessagesDistinct'
  BY DEF Core, MessagesDistinct, SameData
<1>8. MessagesHeld'
  <2>1. \A t \in Slots : slots'[t].flags.push => slots'[t].msg \in heap
    BY <1>4 DEF Core, MessagesHeld, SameData
  <2>2. ASSUME NEW q \in Senders,
               pc'[q] \in {"poll", "queue", "force", "send", "push"}
        PROVE  slots'[my[q]].msg \in heap
    BY <2>2, SlotOfSender DEF Core, MessagesHeld, SameData, HasSlot, SendersQuiet
  <2>3. wpc' \in {"load", "store", "push"} => slots'[wcur'].msg \in heap
    BY SlotOfWorker DEF Core, MessagesHeld, SameData
  <2> QED BY <2>1, <2>2, <2>3 DEF MessagesHeld
<1> QED BY <1>3, <1>5, <1>6, <1>7, <1>8 DEF Core, ListInv

LEMMA GiveUpStep ==
    ASSUME TypeOK, Held, Core, NEW s \in Slots, GiveUp(s), ~oops',
           UNCHANGED <<my, heap, calls, wflags>>,
           SendersQuiet,
           UNCHANGED <<wpc, wcur>> \/ (wpc' = "scan" /\ wcur' = NoSlot)
    PROVE  Core'
<1>1. CASE UNCHANGED <<slots, listVars>>
  <2>1. ListInv'
    BY <1>1, ListFrame DEF Core, ListInv, SameFlags
  <2>2. OneUser' /\ WorkerAtHead' /\ MessagesDistinct' /\ MessagesHeld'
    BY <1>1 DEF Core, OneUser, WorkerAtHead, MessagesDistinct, MessagesHeld,
                SendersQuiet, listVars, TypeOK
  <2> QED BY <2>1, <2>2 DEF Core, ListInv
<1>2. CASE /\ Listed(s) /\ Unlink(Position(s))
           /\ slots' = [slots EXCEPT ![s] =
                        [@ EXCEPT !.flags = Done(slots[s].flags)]]
  <2>1. Position(s) \in 1..Len(cmds) /\ cmds[Position(s)] = s
    BY <1>2, PositionProperties
  <2>2. /\ Done(slots[s].flags) \in Flags
        /\ Done(slots[s].flags).push = slots[s].flags.push
    BY PoolUpdates, FlagUpdates, FlagValues
  <2>3. /\ SameData /\ SameUse /\ SameBut(s)
        /\ slots'[s].flags = Done(slots[s].flags)
    BY <1>2, <2>2, FlagsEffect
  <2> QED BY <1>2, <2>1, <2>2, <2>3, TakenOff
<1> QED BY <1>1, <1>2 DEF GiveUp, Fault

LEMMA WorkerScanStep ==
    ASSUME TypeOK, Held, Core, WorkerScan
    PROVE  Core'
<1>1. /\ UNCHANGED <<slots, listVars, senderVars, wflags, heap, calls>>
      /\ wcur' = NextCmd /\ wpc = "scan" /\ wcur = NoSlot
      /\ wpc' = IF NextCmd = NoSlot THEN "idle" ELSE "load"
  BY DEF WorkerScan, msgVars, Held
<1>2. ListInv'
  BY <1>1, ListFrame DEF Core, ListInv, SameFlags
<1>3. MessagesDistinct'
  BY <1>1 DEF Core, MessagesDistinct
<1>4. CASE NextCmd = NoSlot
  <2>1. OneUser' /\ WorkerAtHead' /\ MessagesHeld'
    BY <1>1, <1>4 DEF Core, OneUser, WorkerAtHead, MessagesHeld, senderVars
  <2> QED BY <2>1, <1>2, <1>3 DEF Core, ListInv
<1>5. CASE NextCmd # NoSlot
  <2>1. cmds # <<>> /\ NextCmd = Head(cmds) /\ slots[NextCmd].flags.push
    BY <1>5 DEF NextCmd
  <2>2. NextCmd = cmds[1] /\ NextCmd \in Slots
    BY <2>1, HeadTailProperties DEF TypeOK
  <2>3. 1 \in 1..Len(cmds)
    BY <2>1, EmptySeq, ListElements DEF TypeOK
  <2>4. \A i \in 1..Len(cmds) : cmds[i] = NextCmd => i = 1
    BY <2>2, <2>3 DEF Core, NoDuplicate
  <2>5. OneUser'
    BY <2>1, <1>1 DEF Core, OneUser, senderVars
  <2>6. WorkerAtHead'
    BY <2>1, <2>2, <2>4, <1>1, <1>5 DEF Core, OneUser, WorkerAtHead, listVars
  <2>7. MessagesHeld'
    BY <2>1, <2>2, <1>1, <1>5 DEF Core, MessagesHeld, senderVars
  <2> QED BY <2>5, <2>6, <2>7, <1>2, <1>3 DEF Core, ListInv
<1> QED BY <1>4, <1>5

\* The store may overwrite what a confirmation wrote since the load: then the
\* command has left the list, and nobody looks at its WAIT_CFM any more.
LEMMA WorkerStoreStep ==
    ASSUME TypeOK, Held, Core, WorkerStore
    PROVE  Core'
<1>1. wcur \in Slots
  BY SlotOfWorker DEF WorkerStore
<1>2. /\ UNCHANGED <<listVars, senderVars, wcur, heap, calls>>
      /\ wpc = "store" /\ wpc' = "push"
      /\ slots' = [slots EXCEPT ![wcur] = [@ EXCEPT !.flags = ClearPush(wflags)]]
  BY DEF WorkerStore, msgVars
<1>3. ClearPush(wflags) \in Flags /\ wflags \in Flags
  BY FlagUpdates DEF TypeOK
<1>4. /\ SameData /\ SameUse /\ SameBut(wcur)
      /\ slots'[wcur].flags = ClearPush(wflags)
  BY <1>1, <1>2, <1>3, FlagsEffect
<1>5. ~slots'[wcur].flags.push /\ slots'[wcur].flags.cfm = wflags.cfm
  <2>1. ~ClearPush(wflags).push /\ ClearPush(wflags).cfm = wflags.cfm
    BY <1>3, FlagValues, Zenon
  <2> QED BY <2>1, <1>4
<1>6. \A t \in Slots : slots'[t].flags.push => slots[t].flags.push /\ t # wcur
  BY <1>1, <1>4, <1>5 DEF SameBut
<1>7. ListInv'
  <2>1. Counted' /\ NoDuplicate'
    BY <1>2 DEF Core, Counted, NoDuplicate, listVars
  <2>2. AllWaitCfm'
    <3> SUFFICES ASSUME NEW i \in 1..Len(cmds) PROVE slots'[cmds[i]].flags.cfm
      BY <1>2 DEF AllWaitCfm, listVars
    <3>1. CASE cmds[i] = wcur
      BY <3>1, <1>1, <1>2, <1>5 DEF Core, WorkerAtHead, NoSlot, Slots
    <3>2. CASE cmds[i] # wcur
      BY <3>2, <1>4, ListElements DEF Core, AllWaitCfm, SameBut
    <3> QED BY <3>1, <3>2
  <2>3. TailWaitsPush'
    <3> SUFFICES ASSUME NEW i \in 2..Len(cmds) PROVE slots'[cmds[i]].flags.push
      BY <1>2 DEF TailWaitsPush, listVars
    <3>1. cmds[i] # wcur /\ cmds[i] \in Slots
      BY <1>1, ListElements DEF Core, WorkerAtHead, NoSlot, Slots
    <3> QED BY <3>1, <1>4 DEF Core, TailWaitsPush, SameBut
  <2> QED BY <2>1, <2>2, <2>3 DEF ListInv
<1>8. OneUser'
  <2>1. \A q \in Senders : my[q] # NoSlot => my[q] \in Slots
    BY DEF TypeOK
  <2> QED BY <2>1, <1>2, <1>4, <1>6 DEF Core, OneUser, SameUse, senderVars
<1>9. WorkerAtHead'
  BY <1>1, <1>2, <1>4, <1>5 DEF Core, WorkerAtHead, SameUse, listVars
<1>10. MessagesDistinct'
  BY <1>2, <1>4 DEF Core, MessagesDistinct, SameData
<1>11. MessagesHeld'
  <2>1. ASSUME NEW q \in Senders,
               pc[q] \in {"poll", "queue", "force", "send", "push"}
        PROVE  slots'[my[q]].msg \in heap
    BY <2>1, <1>4, SlotOfSender DEF Core, MessagesHeld, SameData, HasSlot
  <2> QED BY <2>1, <1>1, <1>2, <1>4, <1>6
          DEF Core, MessagesHeld, SameData, senderVars
<1> QED BY <1>7, <1>8, <1>9, <1>10, <1>11 DEF Core, ListInv

LEMMA ConfirmStep ==
    ASSUME TypeOK, Held, Core, NEW m \in fw, Confirm(m)
    PROVE  Core'
<1>1. PICK i \in DOMAIN cmds :
            /\ Unlink(i)
            /\ slots' = [slots EXCEPT ![cmds[i]] =
                 [@ EXCEPT !.complete = TRUE,
                           !.flags = Answered(slots[cmds[i]].flags)]]
  BY DEF Confirm
<1>2. i \in 1..Len(cmds) /\ cmds[i] \in Slots
  BY LenProperties, ListElements DEF TypeOK
<1>3. /\ Answered(slots[cmds[i]].flags) \in Flags
      /\ Answered(slots[cmds[i]].flags).push = slots[cmds[i]].flags.push
  BY <1>2, PoolUpdates, FlagUpdates, FlagValues
<1>4. /\ SameData /\ SameUse /\ SameBut(cmds[i])
      /\ slots'[cmds[i]].flags = Answered(slots[cmds[i]].flags)
  BY <1>1, <1>2, <1>3, FlagsEffect
<1>5. UNCHANGED <<my, pc, wpc, wcur, wflags, heap, calls>>
  BY DEF Confirm, senderVars, workerVars
<1>6. SendersQuiet
  BY <1>5 DEF SendersQuiet
<1> QED BY <1>1, <1>2, <1>3, <1>4, <1>5, <1>6, TakenOff

LEMMA DrainStep ==
    ASSUME TypeOK, Held, Core, Drain
    PROVE  Core'
<1>1. SameData /\ SameFlags /\ SameUse
  <2> SUFFICES ASSUME NEW t \in Slots
               PROVE  /\ slots'[t].msg = slots[t].msg
                      /\ slots'[t].flags = slots[t].flags
                      /\ slots'[t].used = slots[t].used
    BY DEF SameData, SameFlags, SameUse
  <2>1. slots[t] \in Command
    BY PoolUpdates
  <2> DEFINE b == slots[t].complete \/ Listed(t)
  <2>2. slots'[t] = [slots[t] EXCEPT !.complete = b]
    BY DEF Drain
  <2> HIDE DEF b
  <2> QED BY <2>1, <2>2 DEF Command
<1>2. /\ cmds' = <<>> /\ queue_sz' = queue_sz - Len(cmds)
      /\ UNCHANGED <<senderVars, workerVars, heap, calls>>
  BY DEF Drain, msgVars
<1>3. Len(cmds') = 0
  BY <1>2, EmptySeq
<1>4. Counted'
  BY <1>2, <1>3, ListElements, CmdMgrAssumption DEF Core, Counted, CmdMgrAssumption
<1>5. NoDuplicate' /\ AllWaitCfm' /\ TailWaitsPush'
  BY <1>3 DEF NoDuplicate, AllWaitCfm, TailWaitsPush
<1>6. OneUser'
  <2>1. \A q \in Senders : my[q] # NoSlot => my[q] \in Slots
    BY DEF TypeOK
  <2> QED BY <2>1, <1>1, <1>2
          DEF Core, OneUser, SameFlags, SameUse, senderVars, workerVars
<1>7. WorkerAtHead'
  <2>1. wcur # NoSlot => wcur \in Slots
    BY DEF TypeOK
  <2> QED BY <2>1, <1>1, <1>2, <1>3
          DEF Core, WorkerAtHead, SameFlags, SameUse, workerVars
<1>8. MessagesDistinct'
  BY <1>1, <1>2 DEF Core, MessagesDistinct, SameData
<1>9. MessagesHeld'
  <2>1. ASSUME NEW q \in Senders,
               pc[q] \in {"poll", "queue", "force", "send", "push"}
        PROVE  slots'[my[q]].msg \in heap
    BY <2>1, <1>1, SlotOfSender DEF Core, MessagesHeld, SameData, HasSlot
  <2>2. wpc \in {"load", "store", "push"} => slots'[wcur].msg \in heap
    BY <1>1, SlotOfWorker DEF Core, MessagesHeld, SameData
  <2> QED BY <2>1, <2>2, <1>1, <1>2
          DEF Core, MessagesHeld, SameData, SameFlags, senderVars, workerVars
<1> QED BY <1>4, <1>5, <1>6, <1>7, <1>8, <1>9 DEF Core

LEMMA DeinitStep ==
    ASSUME TypeOK, Held, Core, Deinit
    PROVE  Core'
<1>1. /\ cmds' = <<>> /\ queue_sz' = 0
      /\ UNCHANGED <<slots, senderVars, workerVars, heap, calls>>
  BY DEF Deinit, msgVars
<1>2. Len(cmds') = 0
  BY <1>1, EmptySeq
<1>3. Counted'
  BY <1>1, <1>2, CmdMgrAssumption DEF Counted, CmdMgrAssumption
<1>4. NoDuplicate' /\ AllWaitCfm' /\ TailWaitsPush'
  BY <1>2 DEF NoDuplicate, AllWaitCfm, TailWaitsPush
<1>5. OneUser' /\ MessagesDistinct' /\ MessagesHeld'
  BY <1>1 DEF Core, OneUser, MessagesDistinct, MessagesHeld, senderVars, workerVars
<1>6. WorkerAtHead'
  BY <1>1, <1>2 DEF Core, WorkerAtHead, workerVars
<1> QED BY <1>3, <1>4, <1>5, <1>6 DEF Core

LEMMA SenderCore ==
    ASSUME TypeOK, Held, TypeOK', Held', Core, ~oops', NEW p \in Senders,
           SenderStep(p) \/ \E r \in Requests : Malloc(p, r)
    PROVE  Core'
<1>0. ASSUME NEW l, GoTo(p, l),
             l \notin {"poll", "queue", "force", "send", "push"} \/ pc[p] = "poll"
      PROVE  SendersQuiet
  BY <1>0 DEF GoTo, TypeOK, SendersQuiet
<1>1. CASE Poll(p)
  <2>1. GoTo(p, "queue") /\ UNCHANGED <<slots, listVars, my, wcur, heap, calls, wpc, wflags>>
    BY <1>1 DEF Poll, workerVars, msgVars
  <2>2. SendersQuiet
    BY <2>1, <1>1, <1>0 DEF Poll
  <2>3. WorkerQuiet
    BY <2>1 DEF WorkerQuiet
  <2> QED BY <2>1, <2>2, <2>3, QuietStep
<1>2. CASE WakeAfterQueue(p)
  <2>1. GoTo(p, "idle") /\ UNCHANGED <<slots, listVars, my, wcur, heap, calls, wpc, wflags>>
    BY <1>2 DEF WakeAfterQueue, workerVars, msgVars
  <2>2. SendersQuiet
    BY <2>1, <1>2, <1>0 DEF WakeAfterQueue
  <2>3. WorkerQuiet
    BY <2>1 DEF WorkerQuiet
  <2> QED BY <2>1, <2>2, <2>3, QuietStep
<1>3. CASE WakeAfterWait(p)
  <2>1. GoTo(p, "idle") /\ UNCHANGED <<slots, listVars, my, wcur, heap, calls, wpc, wflags>>
    BY <1>3 DEF WakeAfterWait, workerVars, msgVars
  <2>2. SendersQuiet
    BY <2>1, <1>3, <1>0 DEF WakeAfterWait
  <2>3. WorkerQuiet
    BY <2>1 DEF WorkerQuiet
  <2> QED BY <2>1, <2>2, <2>3, QuietStep
<1>4. CASE TimerExpires(p)
  <2>1. GoTo(p, "timedout") /\ UNCHANGED <<slots, listVars, my, wcur, heap, calls, wpc, wflags>>
    BY <1>4 DEF TimerExpires, workerVars, msgVars
  <2>2. SendersQuiet
    BY <2>1, <1>4, <1>0 DEF TimerExpires
  <2>3. WorkerQuiet
    BY <2>1 DEF WorkerQuiet
  <2> QED BY <2>1, <2>2, <2>3, QuietStep
<1>5. CASE Refuse(p)
  <2>1. /\ FreeCmd(my[p]) /\ my' = [my EXCEPT ![p] = NoSlot] /\ GoTo(p, "idle")
        /\ UNCHANGED <<listVars, wflags, heap, calls, wpc, wcur>>
    BY <1>5 DEF Refuse, Return, workerVars, msgVars
  <2>2. my[p] \in Slots
    BY <1>5, SlotOfSender DEF Refuse, HasSlot
  <2>3. "idle" \in SenderPc \ HasSlot
    BY DEF SenderPc, HasSlot
  <2> QED BY <2>1, <2>2, <2>3, FreeStep
<1>6. CASE SendOneWay(p)
  <2>1. /\ FreeCmd(my[p]) /\ my' = [my EXCEPT ![p] = NoSlot] /\ GoTo(p, "idle")
        /\ UNCHANGED <<listVars, wflags, heap, calls, wpc, wcur>>
    BY <1>6 DEF SendOneWay, Return, workerVars, msgVars
  <2>2. my[p] \in Slots
    BY <1>6, SlotOfSender DEF SendOneWay, HasSlot
  <2>3. "idle" \in SenderPc \ HasSlot
    BY DEF SenderPc, HasSlot
  <2> QED BY <2>1, <2>2, <2>3, FreeStep
<1>7. CASE Awake(p)
  <2>1. /\ FreeCmd(my[p]) /\ my' = [my EXCEPT ![p] = NoSlot] /\ GoTo(p, "resume")
        /\ UNCHANGED <<listVars, wflags, heap, calls, wpc, wcur>>
    BY <1>7 DEF Awake, Return, workerVars, msgVars
  <2>2. my[p] \in Slots
    BY <1>7, SlotOfSender DEF Awake, HasSlot
  <2>3. "resume" \in SenderPc \ HasSlot
    BY DEF SenderPc, HasSlot
  <2> QED BY <2>1, <2>2, <2>3, FreeStep
<1>8. CASE Release(p)
  <2>1. /\ FreeCmd(my[p]) /\ my' = [my EXCEPT ![p] = NoSlot] /\ GoTo(p, "idle")
        /\ UNCHANGED <<listVars, wflags, heap, calls, wpc, wcur>>
    BY <1>8 DEF Release, Return, workerVars, msgVars
  <2>2. my[p] \in Slots
    BY <1>8, SlotOfSender DEF Release, HasSlot
  <2>3. "idle" \in SenderPc \ HasSlot
    BY DEF SenderPc, HasSlot
  <2> QED BY <2>1, <2>2, <2>3, FreeStep
<1>9. CASE QueueDirect(p)
  BY <1>9, QueueDirectStep
<1>10. CASE QueueDeferred(p)
  BY <1>10, QueueDeferredStep
<1>11. CASE PushDirect(p)
  BY <1>11, PushDirectStep
<1>12. CASE \E r \in Requests : Malloc(p, r)
  BY <1>12, MallocStep
<1>13. CASE TimeoutDirect(p)
  <2>1. /\ GiveUp(my[p]) /\ GoTo(p, "release")
        /\ UNCHANGED <<my, heap, calls, wflags, wpc, wcur>>
    BY <1>13 DEF TimeoutDirect, workerVars, msgVars
  <2>2. my[p] \in Slots
    BY <1>13, SlotOfSender DEF TimeoutDirect, HasSlot
  <2>3. SendersQuiet
    BY <2>1, <1>0
  <2> QED BY <2>1, <2>2, <2>3, GiveUpStep
<1>14. CASE LinkTwice(p) \/ UseAfterDeinit(p)
  BY <1>14 DEF LinkTwice, UseAfterDeinit, Fault
<1> QED BY <1>1, <1>2, <1>3, <1>4, <1>5, <1>6, <1>7, <1>8, <1>9, <1>10, <1>11, <1>12, <1>13, <1>14
        DEF SenderStep

LEMMA WorkerCore ==
    ASSUME TypeOK, Held, TypeOK', Held', Core, ~oops', WorkerStep
    PROVE  Core'
<1>1. CASE WorkerStart
  <2>1. /\ UNCHANGED <<slots, listVars, my, pc, wcur, heap, calls>>
        /\ SendersQuiet /\ WorkerQuiet
    BY <1>1 DEF WorkerStart, senderVars, msgVars, SendersQuiet, WorkerQuiet
  <2> QED BY <2>1, QuietStep
<1>2. CASE WorkerLoad
  <2>1. /\ UNCHANGED <<slots, listVars, my, pc, wcur, heap, calls>>
        /\ SendersQuiet /\ WorkerQuiet
    BY <1>2 DEF WorkerLoad, senderVars, msgVars, SendersQuiet, WorkerQuiet
  <2> QED BY <2>1, QuietStep
<1>3. CASE WorkerTimerExpires
  <2>1. /\ UNCHANGED <<slots, listVars, my, pc, wcur, heap, calls>>
        /\ SendersQuiet /\ WorkerQuiet
    BY <1>3 DEF WorkerTimerExpires, senderVars, msgVars, SendersQuiet, WorkerQuiet
  <2> QED BY <2>1, QuietStep
<1>4. CASE WorkerScan
  BY <1>4, WorkerScanStep
<1>5. CASE WorkerStore
  BY <1>5, WorkerStoreStep
<1>6. CASE WorkerPush
  BY <1>6, WorkerPushStep
<1>7. CASE WorkerComplete
  <2>1. /\ FreeCmd(wcur) /\ wpc = "wait" /\ wpc' = "scan" /\ wcur' = NoSlot
        /\ UNCHANGED <<listVars, wflags, heap, calls, senderVars>>
    BY <1>7 DEF WorkerComplete, msgVars
  <2>2. wcur \in Slots
    BY <2>1, SlotOfWorker
  <2> QED BY <2>1, <2>2, FreeStep
<1>8. CASE WorkerTimeout
  <2>1. /\ GiveUp(wcur) /\ wpc = "timedout" /\ wpc' = "scan" /\ wcur' = NoSlot
        /\ UNCHANGED <<my, pc, heap, calls, wflags>>
    BY <1>8 DEF WorkerTimeout, msgVars, senderVars
  <2>2. wcur \in Slots /\ SendersQuiet
    BY <2>1, SlotOfWorker DEF SendersQuiet
  <2> QED BY <2>1, <2>2, GiveUpStep
<1> QED BY <1>1, <1>2, <1>3, <1>4, <1>5, <1>6, <1>7, <1>8 DEF WorkerStep

LEMMA BusCore ==
    ASSUME TypeOK, Held, Core, FirmwareStep \/ BusDown \/ Drain \/ Deinit
    PROVE  Core'
<1>1. CASE BusDown \/ \E m \in fw : Unclaimed(m)
  <2>1. UNCHANGED <<slots, listVars, my, pc, wpc, wcur, wflags, heap, calls>>
    BY <1>1 DEF BusDown, Unclaimed, senderVars, workerVars
  <2>2. SendersQuiet /\ WorkerQuiet
    BY <2>1 DEF SendersQuiet, WorkerQuiet
  <2> QED BY <2>1, <2>2, QuietStep
<1> QED BY <1>1, ConfirmStep, DrainStep, DeinitStep DEF FirmwareStep

LEMMA InitCore == Init => Core
<1> SUFFICES ASSUME Init PROVE Core
  OBVIOUS
<1>1. cmds = <<>> /\ Len(cmds) = 0 /\ queue_sz = 0
  BY EmptySeq DEF Init
<1>2. Counted
  BY <1>1, CmdMgrAssumption DEF Counted, CmdMgrAssumption
<1>3. NoDuplicate /\ AllWaitCfm /\ TailWaitsPush
  BY <1>1 DEF NoDuplicate, AllWaitCfm, TailWaitsPush
<1>4. \A s \in Slots : ~slots[s].flags.push /\ slots[s].msg = 0
  BY DEF Init, NoFlags
<1>5. OneUser /\ WorkerAtHead /\ MessagesDistinct /\ MessagesHeld
  BY <1>4, CmdMgrAssumption
  DEF Init, OneUser, WorkerAtHead, MessagesDistinct, MessagesHeld, CmdMgrAssumption
<1> QED BY <1>2, <1>3, <1>5 DEF Core

LEMMA NextIInv == IInv /\ [Next]_vars => IInv'
<1> SUFFICES ASSUME IInv, [Next]_vars PROVE IInv'
  OBVIOUS
<1>1. TypeOK /\ Held /\ TypeOK' /\ Held'
  BY NextTypeInv DEF IInv, TypeInv
<1>2. ASSUME ~oops'
      PROVE  Core'
  <2>1. CASE UNCHANGED vars
    <3>1. UNCHANGED <<slots, listVars, my, pc, wpc, wcur, wflags, heap, calls>> /\ ~oops
      BY <2>1, <1>2 DEF vars, senderVars, workerVars, msgVars
    <3>2. SendersQuiet /\ WorkerQuiet
      BY <3>1 DEF SendersQuiet, WorkerQuiet
    <3> QED BY <3>1, <3>2, <1>1, QuietStep DEF IInv
  <2>2. CASE /\ ~oops
             /\ \/ \E p \in Senders : SenderStep(p) \/ \E r \in Requests : Malloc(p, r)
                \/ WorkerStep
                \/ FirmwareStep
                \/ BusDown \/ Drain \/ Deinit
    BY <2>2, <1>1, <1>2, SenderCore, WorkerCore, BusCore DEF IInv
  <2> QED BY <2>1, <2>2 DEF Next, Quiescent
<1> QED BY <1>1, <1>2 DEF IInv

\* The inductive invariant: list, slots, references and messages fit together
\* until, if ever, a broken link or a null pointer is followed.
THEOREM Inductive == Spec => []IInv
<1>1. Init => IInv
  BY InitTypeInv, InitCore DEF IInv, TypeInv
<1> QED BY <1>1, NextIInv, PTL DEF Spec

\* cmd_mgr's hand-kept count is the length of the list, within its limit, and no
\* slot is linked twice, whatever times out, is killed or is drained.
THEOREM ListIsSound == Spec => []ListSound
<1>1. IInv => ListSound
  <2> SUFFICES ASSUME IInv, ~oops PROVE ListSound
    BY DEF ListSound
  <2>1. DOMAIN cmds = 1..Len(cmds)
    BY LenProperties DEF IInv, TypeOK
  <2>2. IsInjective(cmds)
    BY <2>1 DEF IInv, Core, NoDuplicate, IsInjective
  <2> QED BY <2>2 DEF IInv, Core, Counted, ListSound
<1> QED BY <1>1, Inductive, PTL

\* Only the head of the list is ever handed to the firmware: neither the caller
\* nor the worker overtakes an unfinished command.
THEOREM OneAtATime == Spec => []OnlyHeadSent
<1>1. IInv => OnlyHeadSent
  BY ListElements DEF IInv, Core, TailWaitsPush, MessagesHeld, OnlyHeadSent
<1> QED BY <1>1, Inductive, PTL

\* aicwf_set_cmd_tx never gets a message that has been freed: the two paths that
\* push, and free, messages never push the same one.
THEOREM MessageAlive == Spec => []SentMessageAlive
<1>1. IInv => SentMessageAlive
  BY DEF IInv, Core, MessagesHeld, SentMessageAlive
<1> QED BY <1>1, Inductive, PTL
=============================================================================
