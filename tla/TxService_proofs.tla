-------------------------- MODULE TxService_proofs --------------------------
(***************************************************************************)
(* More theorems about TxQueue, on top of the invariant of TxQueue_proofs: *)
(* which steps break what a service period promises, what the beacon       *)
(* announces and what the tasklet owes, the bookkeeping of the service     *)
(* periods, and what a request of a station comes to.                      *)
(***************************************************************************)
EXTENDS TxQueue_proofs

-----------------------------------------------------------------------------
(* One step of one queue *)

LEMMA GoodSteps ==
    ASSUME Quiet, QInv, [Next]_vars
    PROVE  /\ \A q \in Txqs : Good(q, txq[q], sta[StaOf[q]].ps, vifStop, tbusy)
           /\ \A q \in Txqs : Good(q, txq'[q], sta'[StaOf[q]].ps, vifStop', tbusy')
           /\ \A q \in Txqs : txq[q] \in Queue /\ txq'[q] \in Queue /\ StaOf[q] \in Stas
<1>1. GoodQueues' /\ TypeOK'
  BY QuietNext DEF QInv
<1> QED BY <1>1, Constants DEF QInv, GoodQueues, TypeOK

\* Queueing a frame wakes nobody up and puts nobody to sleep.
LEMMA QueuePs ==
    ASSUME QInv, NEW x \in Senders, XmitQueue(x)
    PROVE  \A q \in Txqs : sta'[StaOf[q]].ps = sta[StaOf[q]].ps
<1> DEFINE r == xmit[x].q
<1>1. r \in Txqs /\ \A q \in Txqs : StaOf[q] \in Stas
  BY QuietQueue, Constants
<1>2. sta' = IF sta[StaOf[r]].ps
             THEN [sta EXCEPT ![StaOf[r]] =
                     CountReady(sta[StaOf[r]], PsOf[r], sta[StaOf[r]].ready[PsOf[r]])]
             ELSE sta
  BY DEF XmitQueue
<1>3. \A s \in Stas : \A p, o : CountReady(sta[s], p, o).ps = sta[s].ps
  BY DEF CountReady, QInv, TypeOK, Station
<1> HIDE DEF r
<1> QED BY <1>1, <1>2, <1>3 DEF QInv, TypeOK

\* Only the interruption of a period leaves a queue of a sleeping station in
\* the list without a limit.
LEMMA UnlimitedStep ==
    ASSUME Quiet, QInv, [Next]_vars, NEW u \in Txqs, Unlimited(u)'
    PROVE  Unlimited(u) \/ SpInterrupted(StaOf[u])
<1>0. /\ Good(u, txq[u], sta[StaOf[u]].ps, vifStop, tbusy)
      /\ Good(u, txq'[u], sta'[StaOf[u]].ps, vifStop', tbusy')
      /\ txq[u] \in Queue /\ txq'[u] \in Queue /\ StaOf[u] \in Stas
  BY GoodSteps
<1>a. txq'[u].listed /\ sta'[StaOf[u]].ps /\ txq'[u].push_limit = 0
  BY DEF Unlimited
<1>b. Stopped(txq'[u])
  BY <1>0, <1>a DEF Good, Stopped
<1>1. CASE UNCHANGED vars
  BY <1>1, <1>a DEF vars, Unlimited
<1>2. CASE Next
  <2>1. QuietStep
    BY <1>2, QuietSteps
  <2>2. ASSUME NEW x \in Senders, NEW r \in Txqs, NEW f \in Frames, XmitCheck(x, r, f)
        PROVE  Unlimited(u)
    BY <1>a, <2>2 DEF XmitCheck, Unlimited
  <2>3. ASSUME NEW x \in Senders, XmitQueue(x) PROVE Unlimited(u)
    <3>1. /\ u # xmit[x].q => txq'[u] = txq[u]
          /\ u = xmit[x].q =>
               /\ txq'[u].push_limit = txq[u].push_limit /\ txq'[u].stop = txq[u].stop
               /\ Stopped(txq[u]) => (txq'[u].listed <=> txq[u].listed)
      BY <2>3, QuietQueue
    <3>2. sta'[StaOf[u]].ps = sta[StaOf[u]].ps
      BY <2>3, QueuePs
    <3> QED BY <1>a, <1>b, <3>1, <3>2 DEF Unlimited, Stopped
  <2>4. ASSUME (\E x \in Senders : XmitProcess(x)) \/ Task PROVE Unlimited(u)
    <3>1. PICK H : Process(H) /\ UNCHANGED <<vifStop, tbusy>>
      BY <2>4 DEF XmitProcess, Task
    <3>2. /\ sta'[StaOf[u]].ps = sta[StaOf[u]].ps
          /\ u \in Work(H) => /\ txq[u].listed
                              /\ txq[u].push_limit > 0 => ~txq'[u].listed
          /\ u \notin Work(H) => txq'[u] = txq[u]
      BY <1>0, <3>1, QuietProcess
    <3>3. txq[u].push_limit \in Nat
      BY <1>0, QueueFields
    <3> QED BY <1>a, <3>2, <3>3 DEF Unlimited
  <2>5. ASSUME NEW s \in Stas, NEW on \in BOOLEAN, PsChangeInd(s, on) PROVE Unlimited(u)
    BY <1>a, <2>5 DEF PsChangeInd, Unlimited
  <2>6. ASSUME PsChange PROVE Unlimited(u)
    <3>1. /\ sta'[rx.s].ps = rx.on
          /\ \A s \in Stas \ {rx.s} : sta'[s] = sta[s]
          /\ StaOf[u] # rx.s => txq'[u] = txq[u]
          /\ StaOf[u] = rx.s /\ rx.on => ~txq'[u].listed
      BY <2>6, QuietPs
    <3> QED BY <1>0, <1>a, <3>1 DEF Unlimited
  <2>7. ASSUME NEW s \in Stas, NEW n \in 0..MaxReq, NEW p \in PsIds, TrafficReq(s, n, p)
        PROVE  Unlimited(u)
    <3>1. sta'[StaOf[u]].ps = sta[StaOf[u]].ps
      BY <1>0, <2>7, QuietTraffic
    <3>2. txq'[u].listed <=> txq[u].listed \/ Asked(s, n, p)[u] # 0
      BY <2>7, TrafficListed
    <3>3. txq'[u].push_limit = IF Asked(s, n, p)[u] = 0
                               THEN txq[u].push_limit ELSE Asked(s, n, p)[u]
      BY <2>7, TrafficLimits
    <3> QED BY <1>a, <3>1, <3>2, <3>3 DEF Unlimited
  <2>8. ASSUME NEW s \in Stas, SpInterrupted(s), StaOf[u] # s PROVE Unlimited(u)
    <3>1. txq'[u] = txq[u]
      BY <2>8 DEF SpInterrupted
    <3>2. sta'[StaOf[u]].ps = sta[StaOf[u]].ps
      BY <1>0, <2>8, QuietInterrupt
    <3> QED BY <1>a, <3>1, <3>2 DEF Unlimited
  <2>9. ASSUME NEW r \in VifReasons, VifStop(r) PROVE FALSE
    BY <1>a, <2>9, QuietVifStop
  <2>10. ASSUME NEW r \in VifReasons, VifStart(r) PROVE Unlimited(u)
    <3>1. /\ UNCHANGED sta /\ txq'[u].push_limit = txq[u].push_limit
          /\ ~txq[u].listed /\ txq'[u].listed => ~Stopped(txq'[u])
      BY <2>10, QuietVifStart
    <3> QED BY <1>a, <1>b, <3>1 DEF Unlimited
  <2>11. ASSUME BusStop \/ BusWake PROVE Unlimited(u)
    <3>1. UNCHANGED sta /\ txq'[u].listed = txq[u].listed
          /\ txq'[u].push_limit = txq[u].push_limit
      BY <2>11, QuietBus
    <3> QED BY <1>a, <3>1 DEF Unlimited
  <2> QED BY <2>1, <2>2, <2>3, <2>4, <2>5, <2>6, <2>7, <2>8, <2>9, <2>10, <2>11
          DEF QuietStep
<1> QED BY <1>1, <1>2

\* A pass takes from a queue of a sleeping station what the firmware has asked
\* for, never more (the push limit of rwnx_txq_get_skb_to_push), unless an
\* interruption has left the queue in the list without a limit.
THEOREM OnlyRequestedHolds == ASSUME Quiet PROVE Spec => OnlyRequested
<1>1. Spec => []QInv
  BY QuietAlways
<1>2. ASSUME QInv, [Next]_vars, NEW q \in Txqs, Leaves(q), sta[StaOf[q]].ps
      PROVE  \/ Len(txq[q].sk_list) - Len(txq'[q].sk_list) <= txq[q].push_limit
             \/ Unlimited(q)
  <2>1. Lens'[q] < Lens[q]
    BY <1>2 DEF Leaves, Lens
  <2>2. PICK H : Process(H) /\ UNCHANGED <<vifStop, tbusy>> /\ q \in Work(H)
    BY <1>2, <2>1, WhoLeaves
  <2>3. /\ txq[q].listed /\ Pushed(H)[q] = Taken(txq[q])
        /\ txq[q].push_limit > 0 => Taken(txq[q]) = txq[q].push_limit
        /\ Lens[q] \in Nat /\ Lens'[q] \in Nat /\ Pushed(H)[q] \in Nat
        /\ Lens[q] = Lens'[q] + Pushed(H)[q]
    BY <1>2, <2>2, QuietProcess
  <2>4. txq[q].push_limit \in Nat
    BY <1>2, QueueFields DEF QInv, TypeOK
  <2>5. CASE txq[q].push_limit = 0
    BY <1>2, <2>3, <2>5 DEF Unlimited
  <2>6. CASE txq[q].push_limit > 0
    <3>1. Lens[q] - Lens'[q] <= txq[q].push_limit
      BY <2>3, <2>4, <2>6
    <3> QED BY <3>1 DEF Lens
  <2>7. txq[q].push_limit = 0 \/ txq[q].push_limit > 0
    BY <2>4
  <2> QED BY <2>5, <2>6, <2>7
<1>3. QInv /\ [Next]_vars =>
        [\A q \in Txqs :
           /\ Leaves(q) /\ sta[StaOf[q]].ps =>
                \/ Len(txq[q].sk_list) - Len(txq'[q].sk_list) <= txq[q].push_limit
                \/ Unlimited(q)
           /\ Unlimited(q)' => Unlimited(q) \/ SpInterrupted(StaOf[q])]_vars
  BY <1>2, UnlimitedStep
<1> QED BY <1>1, <1>3, PTL DEF Spec, OnlyRequested

\* A queue that owes frames to an open period is taken out of the list only by
\* a stop of the interface.
LEMMA ServedStep ==
    ASSUME Quiet, QInv, [Next]_vars, NEW u \in Txqs, Owes(u)', ~txq'[u].listed
    PROVE  \/ Owes(u) /\ ~txq[u].listed
           \/ \E r \in VifReasons : VifStop(r)
<1>0. /\ Good(u, txq[u], sta[StaOf[u]].ps, vifStop, tbusy)
      /\ Good(u, txq'[u], sta'[StaOf[u]].ps, vifStop', tbusy')
      /\ txq[u] \in Queue /\ txq'[u] \in Queue /\ StaOf[u] \in Stas
  BY GoodSteps
<1>a. sta'[StaOf[u]].ps /\ txq'[u].push_limit > 0
  BY DEF Owes
<1>b. SUFFICES ASSUME \A r \in VifReasons : ~VifStop(r)
               PROVE  sta[StaOf[u]].ps /\ txq[u].push_limit > 0 /\ ~txq[u].listed
  BY <1>0 DEF Owes, Good
<1>1. CASE UNCHANGED vars
  BY <1>1, <1>a DEF vars
<1>2. CASE Next
  <2>1. QuietStep
    BY <1>2, QuietSteps
  <2>2. ASSUME NEW x \in Senders, NEW r \in Txqs, NEW f \in Frames, XmitCheck(x, r, f)
        PROVE  UNCHANGED <<txq, sta>>
    BY <2>2 DEF XmitCheck
  <2>3. CASE \E x \in Senders : XmitQueue(x)
    <3>1. PICK x \in Senders : XmitQueue(x)
      BY <2>3
    <3>2. /\ u # xmit[x].q => txq'[u] = txq[u]
          /\ u = xmit[x].q =>
               /\ txq'[u].push_limit = txq[u].push_limit
               /\ Stopped(txq[u]) => (txq'[u].listed <=> txq[u].listed)
      BY <3>1, QuietQueue
    <3>3. sta'[StaOf[u]].ps = sta[StaOf[u]].ps
      BY <3>1, QueuePs
    <3>4. Stopped(txq[u])
      BY <1>0, <1>a, <3>3 DEF Good, Stopped
    <3> QED BY <1>a, <3>2, <3>3, <3>4
  <2>4. CASE (\E x \in Senders : XmitProcess(x)) \/ Task
    <3>1. PICK H : Process(H) /\ UNCHANGED <<vifStop, tbusy>>
      BY <2>4 DEF XmitProcess, Task
    <3>2. /\ sta'[StaOf[u]].ps = sta[StaOf[u]].ps
          /\ u \in Work(H) => txq'[u].push_limit = 0
          /\ u \notin Work(H) => txq'[u] = txq[u]
      BY <1>0, <3>1, QuietProcess
    <3> QED BY <1>a, <3>2
  <2>5. ASSUME NEW s \in Stas, NEW on \in BOOLEAN, PsChangeInd(s, on)
        PROVE  UNCHANGED <<txq, sta>>
    BY <2>5 DEF PsChangeInd
  <2>6. CASE PsChange
    <3>1. /\ sta'[rx.s].ps = rx.on /\ sta[rx.s].ps = ~rx.on
          /\ \A s \in Stas \ {rx.s} : sta'[s] = sta[s]
          /\ StaOf[u] # rx.s => txq'[u] = txq[u]
          /\ StaOf[u] = rx.s /\ rx.on => txq'[u].push_limit = txq[u].push_limit
      BY <2>6, QuietPs
    <3>2. StaOf[u] # rx.s
      BY <1>0, <1>a, <3>1 DEF Good
    <3> QED BY <1>0, <1>a, <3>1, <3>2
  <2>7. ASSUME NEW s \in Stas, NEW n \in 0..MaxReq, NEW p \in PsIds, TrafficReq(s, n, p)
        PROVE  sta[StaOf[u]].ps /\ txq[u].push_limit > 0 /\ ~txq[u].listed
    <3>1. sta'[StaOf[u]].ps = sta[StaOf[u]].ps
      BY <1>0, <2>7, QuietTraffic
    <3>2. txq'[u].listed <=> txq[u].listed \/ Asked(s, n, p)[u] # 0
      BY <2>7, TrafficListed
    <3>3. txq'[u].push_limit = IF Asked(s, n, p)[u] = 0
                               THEN txq[u].push_limit ELSE Asked(s, n, p)[u]
      BY <2>7, TrafficLimits
    <3> QED BY <1>a, <3>1, <3>2, <3>3
  <2>8. ASSUME NEW s \in Stas, SpInterrupted(s)
        PROVE  sta[StaOf[u]].ps /\ txq[u].push_limit > 0 /\ ~txq[u].listed
    <3>1. /\ sta'[StaOf[u]].ps = sta[StaOf[u]].ps
          /\ txq'[u].listed = txq[u].listed
          /\ txq'[u].push_limit \in {0, txq[u].push_limit}
      BY <1>0, <2>8, QuietInterrupt
    <3> QED BY <1>a, <3>1
  <2>9. ASSUME NEW r \in VifReasons, VifStart(r)
        PROVE  sta[StaOf[u]].ps /\ txq[u].push_limit > 0 /\ ~txq[u].listed
    <3>1. /\ UNCHANGED sta /\ txq'[u].push_limit = txq[u].push_limit
          /\ txq[u].listed => txq'[u].listed
      BY <2>9, QuietVifStart
    <3> QED BY <1>a, <3>1
  <2>10. CASE BusStop \/ BusWake
    <3>1. UNCHANGED sta /\ txq'[u].listed = txq[u].listed
          /\ txq'[u].push_limit = txq[u].push_limit
      BY <2>10, QuietBus
    <3> QED BY <1>a, <3>1
  <2> QED BY <1>a, <1>b, <2>1, <2>2, <2>3, <2>4, <2>5, <2>6, <2>7, <2>8, <2>9, <2>10
          DEF QuietStep
<1> QED BY <1>1, <1>2

\* A queue that owes frames to an open period is in the list, whatever the
\* firmware requests and interrupts, until the interface is stopped: the start
\* that follows would not link a queue that is still stopped for power save.
THEOREM SpServedHolds == ASSUME Quiet PROVE Spec => SpServed
<1>1. Spec => []QInv
  BY QuietAlways
<1>2. QInv /\ [Next]_vars =>
        [\A q \in Txqs : Owes(q)' /\ ~txq'[q].listed =>
           \/ Owes(q) /\ ~txq[q].listed
           \/ \E r \in VifReasons : VifStop(r)]_vars
  BY ServedStep
<1> QED BY <1>1, <1>2, PTL DEF Spec, SpServed

-----------------------------------------------------------------------------
(* Who looks at a queue in the list *)

\* A linked queue is looked at when the step that links it schedules the
\* tasklet or has a sender process its list, and forgets nobody.
LEMMA MoreWork ==
    ASSUME NEW u \in Txqs, UNCHANGED need \/ need' = NeedAfter(txq'),
           tasklet => tasklet',
           \A x \in Senders : xmit[x].pc = "queued" => xmit'[x] = xmit[x],
           txq'[u].listed =>
              \/ txq[u].listed
              \/ tasklet' /\ txq'[u].links > txq[u].links /\ need' = NeedAfter(txq')
              \/ \E x \in Senders : xmit'[x].pc = "queued"
                                      /\ HwqOf[xmit'[x].q] = HwqOf[u],
           Stranded(u)'
    PROVE  Stranded(u)
<1>1. HwqOf[u] \in Hwqs
  BY Constants
<1>2. /\ txq'[u].listed
      /\ ~(need'[HwqOf[u]] /\ tasklet')
      /\ ~ \E x \in Senders : xmit'[x].pc = "queued" /\ HwqOf[xmit'[x].q] = HwqOf[u]
  BY DEF Stranded, Ahead
<1>3. ~(tasklet' /\ txq'[u].links > txq[u].links /\ need' = NeedAfter(txq'))
  BY <1>1, <1>2 DEF NeedAfter
<1>4. txq[u].listed
  BY <1>2, <1>3
<1>5. ~(need[HwqOf[u]] /\ tasklet)
  BY <1>1, <1>2 DEF NeedAfter
<1> QED BY <1>2, <1>4, <1>5 DEF Stranded, Ahead

\* A pass keeps a queue in the list only after taking as many frames as it has
\* credits.
LEMMA PassStrands ==
    ASSUME Quiet, QInv, [Next]_vars, NEW u \in Txqs, NEW H, Process(H),
           UNCHANGED <<vifStop, tbusy>>, u \in Work(H), txq'[u].listed
    PROVE  Leaves(u) /\ Len(txq[u].sk_list) > txq[u].credits
<1>1. /\ Lens[u] \in Nat /\ Lens'[u] \in Nat /\ Pushed(H)[u] = Taken(txq[u])
      /\ Lens[u] = Lens'[u] + Pushed(H)[u]
      /\ Lens[u] <= CREDITS \/ txq[u].push_limit > 0 => ~txq'[u].listed
  BY QuietProcess
<1>2. /\ txq[u].active /\ txq'[u].active /\ txq[u].credits = CREDITS
      /\ txq[u].push_limit \in Nat
  BY GoodSteps, QueueFields DEF Good
<1>3. Lens[u] > CREDITS /\ txq[u].push_limit = 0 /\ CREDITS \in Nat \ {0}
  BY <1>1, <1>2, TxQueueAssumption
<1>4. Taken(txq[u]) = CREDITS
  BY <1>1, <1>2, <1>3 DEF Taken, Allowed, Lens
<1>5. Lens'[u] < Lens[u]
  BY <1>1, <1>3, <1>4
<1> QED BY <1>2, <1>3, <1>5 DEF Leaves, Lens

LEMMA WorkStep ==
    ASSUME Quiet, QInv, [Next]_vars, NEW u \in Txqs, Stranded(u)'
    PROVE  \/ Stranded(u) \/ bug'
           \/ ~txq[u].listed /\ VifStart("CSA")
           \/ Leaves(u) /\ Len(txq[u].sk_list) > txq[u].credits
<1>0. /\ txq'[u].listed
      /\ ~(need'[HwqOf[u]] /\ tasklet')
      /\ \A x \in Senders : xmit'[x].pc = "queued" => HwqOf[xmit'[x].q] # HwqOf[u]
      /\ HwqOf[u] \in Hwqs
  BY Constants DEF Stranded, Ahead
<1>1. CASE UNCHANGED vars
  BY <1>1 DEF vars, Stranded, Ahead
<1>2. CASE Next
  <2>1. QuietStep
    BY <1>2, QuietSteps
  <2>2. ASSUME NEW x \in Senders, NEW r \in Txqs, NEW f \in Frames, XmitCheck(x, r, f)
        PROVE  Stranded(u)
    <3>1. /\ UNCHANGED <<txq, need, tasklet>>
          /\ \A y \in Senders : xmit[y].pc = "queued" => xmit'[y] = xmit[y]
      BY <2>2 DEF XmitCheck, QInv, TypeOK
    <3> QED BY <3>1, MoreWork
  <2>3. ASSUME NEW x \in Senders, XmitQueue(x) PROVE Stranded(u)
    <3> DEFINE r == xmit[x].q
    <3>1. /\ r \in Txqs /\ need' = NeedAfter(txq') /\ (u # r => txq'[u] = txq[u])
          /\ Stopped(txq[r]) => (txq'[r].listed <=> txq[r].listed)
          /\ ~Stopped(txq[r]) => xmit' = [xmit EXCEPT ![x] = [pc |-> "queued", q |-> r]]
      BY <2>3, QuietQueue
    <3>2. UNCHANGED tasklet /\ xmit[x].pc = "checked"
          /\ \A y \in Senders \ {x} : xmit'[y] = xmit[y]
      BY <2>3 DEF XmitQueue, QInv, TypeOK
    <3> HIDE DEF r
    <3>3. ~Stopped(txq[r]) => xmit'[x].pc = "queued" /\ xmit'[x].q = r
      BY <3>1 DEF QInv, TypeOK
    <3>4. txq'[u].listed =>
            \/ txq[u].listed
            \/ \E y \in Senders : xmit'[y].pc = "queued" /\ HwqOf[xmit'[y].q] = HwqOf[u]
      BY <3>1, <3>3
    <3>5. \A y \in Senders : xmit[y].pc = "queued" => xmit'[y] = xmit[y]
      BY <3>2
    <3> QED BY <3>1, <3>2, <3>4, <3>5, MoreWork
  <2>4. ASSUME NEW H, Process(H), UNCHANGED <<vifStop, tbusy>>, u \notin Work(H)
        PROVE  /\ txq[u].listed /\ HwqOf[u] \notin H
               /\ need[HwqOf[u]] => need'[HwqOf[u]]
    <3>1. /\ txq'[u] = txq[u]
          /\ HwqOf[u] \in H /\ txq[u].listed => u \in Work(H)
          /\ need' = [h \in Hwqs |-> need[h] /\ h \notin H]
      BY <2>4, QuietProcess
    <3> QED BY <1>0, <2>4, <3>1
  <2>5. ASSUME NEW x \in Senders, XmitProcess(x),
               ~(Leaves(u) /\ Len(txq[u].sk_list) > txq[u].credits)
        PROVE  Stranded(u)
    <3> DEFINE H == {HwqOf[xmit[x].q]}
    <3>1. /\ Process(H) /\ UNCHANGED <<vifStop, tbusy, tasklet>>
          /\ \A y \in Senders \ {x} : xmit'[y] = xmit[y]
      BY <2>5 DEF XmitProcess, QInv, TypeOK
    <3>2. u \notin Work(H)
      <4> HIDE DEF H
      <4> QED BY <1>0, <2>5, <3>1, PassStrands
    <3>3. txq[u].listed /\ HwqOf[u] \notin H /\ (need[HwqOf[u]] => need'[HwqOf[u]])
      <4> HIDE DEF H
      <4> QED BY <2>4, <3>1, <3>2
    <3> QED BY <1>0, <3>1, <3>3 DEF Stranded, Ahead
  <2>6. ASSUME Task, ~(Leaves(u) /\ Len(txq[u].sk_list) > txq[u].credits)
        PROVE  Stranded(u)
    <3> DEFINE H == {h \in Hwqs : need[h]}
    <3>1. Process(H) /\ UNCHANGED <<vifStop, tbusy>> /\ LockFree
      BY <2>6 DEF Task
    <3>2. u \notin Work(H)
      <4> HIDE DEF H
      <4> QED BY <1>0, <2>6, <3>1, PassStrands
    <3>3. txq[u].listed /\ HwqOf[u] \notin H
      <4> HIDE DEF H
      <4> QED BY <2>4, <3>1, <3>2
    <3>4. ~ \E y \in Senders : xmit[y].pc = "queued"
      BY <3>1, TxQueueAssumption DEF LockFree, QInv, LockHeld
    <3> QED BY <1>0, <3>3, <3>4 DEF Stranded, Ahead
  <2>7. ASSUME NEW s \in Stas, NEW on \in BOOLEAN, PsChangeInd(s, on) PROVE Stranded(u)
    BY <1>0, <2>7 DEF PsChangeInd, Stranded, Ahead
  <2>8. ASSUME PsChange PROVE Stranded(u)
    <3>1. /\ need' = NeedAfter(txq') /\ (tasklet' <=> tasklet \/ ~rx.on)
          /\ StaOf[u] # rx.s => txq'[u] = txq[u]
          /\ StaOf[u] = rx.s /\ rx.on => ~txq'[u].listed
          /\ StaOf[u] = rx.s /\ ~rx.on =>
               (~txq[u].listed /\ txq'[u].listed => txq'[u].links > txq[u].links)
          /\ rx.on \in BOOLEAN
      BY <2>8, QuietPs
    <3>2. UNCHANGED xmit
      BY <2>8 DEF PsChange
    <3> QED BY <3>1, <3>2, MoreWork
  <2>9. ASSUME NEW s \in Stas, NEW n \in 0..MaxReq, NEW p \in PsIds, TrafficReq(s, n, p)
        PROVE  Stranded(u)
    <3>1. /\ need' = NeedAfter(txq') /\ tasklet' = TRUE
          /\ ~txq[u].listed /\ txq'[u].listed => txq'[u].links > txq[u].links
      BY <2>9, QuietTraffic
    <3>2. UNCHANGED xmit
      BY <2>9 DEF TrafficReq
    <3> QED BY <3>1, <3>2, MoreWork
  <2>10. ASSUME NEW s \in Stas, SpInterrupted(s) PROVE Stranded(u)
    <3>1. UNCHANGED <<need, tasklet, xmit>> /\ txq'[u].listed = txq[u].listed
      BY <2>10, QuietInterrupt
    <3> QED BY <3>1, MoreWork
  <2>11. ASSUME NEW r \in VifReasons, VifStop(r) PROVE FALSE
    BY <1>0, <2>11, QuietVifStop
  <2>12. ASSUME NEW r \in VifReasons, VifStart(r)
         PROVE  Stranded(u) \/ (~txq[u].listed /\ VifStart("CSA"))
    <3>1. /\ UNCHANGED xmit /\ need' = NeedAfter(txq')
          /\ (tasklet' <=> tasklet \/ r # "CSA")
          /\ ~txq[u].listed /\ txq'[u].listed => txq'[u].links > txq[u].links
      BY <2>12, QuietVifStart
    <3>2. CASE ~txq[u].listed /\ r = "CSA"
      BY <2>12, <3>2
    <3>3. CASE txq[u].listed \/ r # "CSA"
      BY <3>1, <3>3, MoreWork
    <3> QED BY <3>2, <3>3
  <2>13. ASSUME BusStop \/ BusWake PROVE Stranded(u)
    <3>1. UNCHANGED <<need, tasklet, xmit>> /\ txq'[u].listed = txq[u].listed
      BY <2>13, QuietBus
    <3> QED BY <3>1, MoreWork
  <2> QED BY <2>1, <2>2, <2>3, <2>5, <2>6, <2>7, <2>8, <2>9, <2>10, <2>11, <2>12, <2>13
          DEF QuietStep
<1> QED BY <1>1, <1>2

\* Whatever rwnx_txq.c links is looked at, by the sender that linked it or by
\* the tasklet, unless the end of a channel switch announcement linked it or
\* a pass left frames because there were more than the credits of a queue.
THEOREM WorkScheduledHolds == ASSUME Quiet PROVE Spec => WorkScheduled
<1>1. Spec => []QInv
  BY QuietAlways
<1>2. QInv /\ [Next]_vars =>
        [\A q \in Txqs : Stranded(q)' =>
           \/ Stranded(q) \/ bug'
           \/ ~txq[q].listed /\ VifStart("CSA")
           \/ Leaves(q) /\ Len(txq[q].sk_list) > txq[q].credits]_vars
  BY WorkStep
<1> QED BY <1>1, <1>2, PTL DEF Spec, WorkScheduled

-----------------------------------------------------------------------------
(* The beacon's announcement *)

LEMMA ReadyIs ==
    ASSUME QInv, NEW s \in Stas, NEW p \in PsIds, sta[s].ps
    PROVE  sta[s].ready[p] = PerPs(s, Lens)[p]
BY DEF QInv, Steady, Valid, ReadyCount, Lens

\* A frame for a sleeping station is announced when it is the first.
LEMMA TimQueue ==
    ASSUME QInv, NEW x \in Senders, XmitQueue(x), NEW s \in Stas, NEW p \in PsIds,
           Announced(s, p)
    PROVE  Announced(s, p)'
<1> DEFINE r == xmit[x].q  a == StaOf[r]  o == PsOf[r]
<1>1. r \in Txqs /\ a \in Stas /\ o \in PsIds
  BY QuietQueue, Constants
<1>2. sta' = IF sta[a].ps THEN [sta EXCEPT ![a] = CountReady(sta[a], o, sta[a].ready[o])]
                          ELSE sta
  BY DEF XmitQueue
<1>3. ASSUME NEW c \in Station
      PROVE  LET d == CountReady(c, o, c.ready[o])
             IN  /\ \A i \in PsIds \ {o} : d.tim[i] = c.tim[i] /\ d.ready[i] = c.ready[i]
                 /\ d.tim[o] <=> c.tim[o] \/ c.ready[o] = 0
  BY <1>1 DEF CountReady, Station
<1> HIDE DEF r, a, o
<1>4. sta[a] \in Station /\ sta[s] \in Station
  BY <1>1 DEF QInv, TypeOK
<1>5. CASE s = a /\ sta[a].ps
  <2>1. sta'[s] = CountReady(sta[a], o, sta[a].ready[o])
    BY <1>1, <1>2, <1>5 DEF QInv, TypeOK
  <2> QED BY <1>3, <1>4, <1>5, <2>1 DEF Announced
<1>6. CASE ~(s = a /\ sta[a].ps)
  <2>1. sta'[s] = sta[s]
    BY <1>1, <1>2, <1>6 DEF QInv, TypeOK
  <2> QED BY <2>1 DEF Announced
<1> QED BY <1>5, <1>6

\* A pass takes the announcement back only with the last frame.
LEMMA TimProcess ==
    ASSUME QInv, QInv', NEW H, Process(H), UNCHANGED <<vifStop, tbusy>>,
           NEW s \in Stas, NEW p \in PsIds, sta[s].ps, Announced(s, p)
    PROVE  Announced(s, p)'
<1>1. SUFFICES ASSUME sta'[s].ready[p] # 0 PROVE sta'[s].tim[p]
  BY DEF Announced
<1>2. /\ sta'[s].ps
      /\ sta'[s] = CountDown(s, PerPs(s, Pushed(H)), PerPs(s, Dropped(H)))
      /\ \A q \in Txqs : /\ Lens[q] \in Nat /\ Lens'[q] \in Nat
                         /\ Pushed(H)[q] \in Nat /\ Lens[q] = Lens'[q] + Pushed(H)[q]
  BY QuietProcess
<1>3. sta[s].ready[p] = PerPs(s, Lens)[p]
  BY ReadyIs
<1>4. sta'[s].ready[p] = PerPs(s, Lens')[p]
  BY <1>2 DEF QInv, Steady, Valid, ReadyCount, Lens
<1>5. \A q \in TxqsOfPs(s, p) : Lens[q] \in Nat /\ Lens'[q] \in Nat
                                  /\ (Lens[q] = 0 => Lens'[q] = 0)
  <2>1. \A q \in Txqs : Lens[q] \in Nat /\ Lens'[q] \in Nat /\ (Lens[q] = 0 => Lens'[q] = 0)
    BY <1>2
  <2> QED BY <2>1, PsQueues
<1>6. PerPs(s, Lens)[p] # 0
  <2>1. PerPs(s, Lens)[p] = 0 <=> \A q \in TxqsOfPs(s, p) : Lens[q] = 0
    BY <1>5, PerPsZero
  <2>2. PerPs(s, Lens')[p] = 0 <=> \A q \in TxqsOfPs(s, p) : Lens'[q] = 0
    BY <1>5, PerPsZero
  <2> QED BY <1>1, <1>4, <1>5, <2>1, <2>2
<1>7. sta[s].tim[p]
  BY <1>3, <1>6 DEF Announced
<1>8. ASSUME NEW out, NEW lost, CountDown(s, out, lost).ready[p] # 0
      PROVE  CountDown(s, out, lost).tim[p]
  <2>1. sta[s] \in Station
    BY DEF QInv, TypeOK
  <2> QED BY <1>7, <1>8, <2>1 DEF CountDown, Station
<1> QED BY <1>1, <1>2, <1>8

LEMMA TimStep ==
    ASSUME Quiet, QInv, [Next]_vars, NEW s \in Stas, NEW p \in PsIds,
           sta[s].ps, sta'[s].ps, Announced(s, p)
    PROVE  Announced(s, p)'
<1>0. QInv'
  BY QuietNext
<1>1. CASE UNCHANGED vars
  BY <1>1 DEF vars, Announced
<1>2. CASE Next
  <2>1. QuietStep
    BY <1>2, QuietSteps
  <2>2. ASSUME NEW x \in Senders, NEW r \in Txqs, NEW f \in Frames, XmitCheck(x, r, f)
        PROVE  Announced(s, p)'
    BY <2>2 DEF XmitCheck, Announced
  <2>3. ASSUME NEW x \in Senders, XmitQueue(x) PROVE Announced(s, p)'
    BY <2>3, TimQueue
  <2>4. ASSUME (\E x \in Senders : XmitProcess(x)) \/ Task PROVE Announced(s, p)'
    <3>1. PICK H : Process(H) /\ UNCHANGED <<vifStop, tbusy>>
      BY <2>4 DEF XmitProcess, Task
    <3> QED BY <1>0, <3>1, TimProcess
  <2>5. ASSUME NEW a \in Stas, NEW on \in BOOLEAN, PsChangeInd(a, on)
        PROVE  Announced(s, p)'
    BY <2>5 DEF PsChangeInd, Announced
  <2>6. ASSUME PsChange PROVE Announced(s, p)'
    <3>1. /\ sta[rx.s].ps = ~rx.on /\ sta'[rx.s].ps = rx.on
          /\ \A a \in Stas \ {rx.s} : sta'[a] = sta[a]
      BY <2>6, QuietPs
    <3>2. sta'[s] = sta[s]
      BY <3>1
    <3> QED BY <3>2 DEF Announced
  <2>7. ASSUME NEW a \in Stas, NEW n \in 0..MaxReq, NEW o \in PsIds, TrafficReq(a, n, o)
        PROVE  Announced(s, p)'
    <3>1. sta'[s].ready = sta[s].ready /\ sta'[s].tim = sta[s].tim
      BY <2>7, QuietTraffic
    <3> QED BY <3>1 DEF Announced
  <2>8. ASSUME NEW a \in Stas, SpInterrupted(a) PROVE Announced(s, p)'
    <3>1. sta'[s].ready = sta[s].ready /\ sta'[s].tim = sta[s].tim
      BY <2>8, QuietInterrupt
    <3> QED BY <3>1 DEF Announced
  <2>9. ASSUME NEW r \in VifReasons, VifStop(r) \/ VifStart(r) PROVE Announced(s, p)'
    <3>1. UNCHANGED sta
      BY <2>9 DEF VifStop, VifStart
    <3> QED BY <3>1 DEF Announced
  <2>10. ASSUME BusStop \/ BusWake PROVE Announced(s, p)'
    <3>1. UNCHANGED sta
      BY <2>10 DEF BusStop, BusWake
    <3> QED BY <3>1 DEF Announced
  <2> QED BY <2>1, <2>2, <2>3, <2>4, <2>5, <2>6, <2>7, <2>8, <2>9, <2>10 DEF QuietStep
<1> QED BY <1>1, <1>2

\* While a station sleeps the announcement follows its frames, whoever queues
\* and pushes them, whatever is stopped and however many there are: it is only
\* missing where it was when the station fell asleep.
THEOREM TimToldHolds == ASSUME Quiet PROVE Spec => TimTold
<1>1. Spec => []QInv
  BY QuietAlways
<1>2. QInv /\ [Next]_vars =>
        [\A s \in Stas, p \in PsIds :
           Valid(s) /\ sta[s].ps /\ sta'[s].ps /\ Announced(s, p)
             => Announced(s, p)']_vars
  BY TimStep
<1> QED BY <1>1, <1>2, PTL DEF Spec, TimTold

-----------------------------------------------------------------------------
(* The bookkeeping of service periods that the firmware does not interrupt *)

\* Every listed queue of a sleeping station has frames to push.
LEMMA PromisedNext ==
    ASSUME Quiet, "interrupt" \notin Events, QInv, Promised, [Next]_vars
    PROVE  Promised'
<1>1. ASSUME NEW u \in Txqs, Unlimited(u)' PROVE FALSE
  <2>1. ~Unlimited(u) /\ ~SpInterrupted(StaOf[u])
    BY DEF Promised, SpInterrupted
  <2> QED BY <1>1, <2>1, UnlimitedStep
<1> QED BY <1>1 DEF Promised

LEMMA PromisedAlways ==
    ASSUME Quiet, "interrupt" \notin Events
    PROVE  Spec => [](QInv /\ Promised)
<1>1. Init => QInv /\ Promised
  <2>1. Init => Promised
    BY DEF Init, Promised, Unlimited, Initialised
  <2> QED BY <2>1, QuietInit
<1>2. (QInv /\ Promised) /\ [Next]_vars => (QInv /\ Promised)'
  BY QuietNext, PromisedNext
<1> QED BY <1>1, <1>2, PTL DEF Spec

\* The frames the open periods of a station still have to push.
Limits == [q \in Txqs |-> txq[q].push_limit]
SpSums == \A s \in Stas : sta[s].ps => \A p \in PsIds : sta[s].sp[p] = PerPs(s, Limits)[p]

LEMMA LimitsSmall ==
    ASSUME QInv, NEW q \in Txqs
    PROVE  Limits[q] \in Nat /\ Limits[q] <= Lens[q] /\ Limits[q] <= MaxLen
<1>1. Limits[q] \in Nat
  BY QueueFields DEF Limits, QInv, TypeOK
<1>2. Limits[q] <= Lens[q]
  BY DEF Limits, Lens, QInv, GoodQueues, Good
<1>3. Lens[q] \in Nat /\ Lens[q] <= MaxLen /\ MaxLen \in Nat
  BY LensSmall, TxQueueAssumption DEF QInv
<1> QED BY <1>1, <1>2, <1>3

LEMMA SameSums ==
    ASSUME SpSums, Limits' = Limits,
           \A s \in Stas : sta'[s].ps => /\ sta[s].ps
                                         /\ \A p \in PsIds : sta'[s].sp[p] = sta[s].sp[p]
    PROVE  SpSums'
<1>1. SUFFICES ASSUME NEW s \in Stas, NEW p \in PsIds, sta'[s].ps
               PROVE  sta'[s].sp[p] = PerPs(s, Limits')[p]
  BY DEF SpSums
<1>2. sta'[s].sp[p] = sta[s].sp[p] /\ sta[s].sp[p] = PerPs(s, Limits)[p]
  BY <1>1 DEF SpSums
<1> QED BY <1>2

\* What a pass pushes for a sleeping station is taken off its periods.
LEMMA SumsProcess ==
    ASSUME QInv, QInv', Promised, SpSums, NEW H, Process(H), UNCHANGED <<vifStop, tbusy>>
    PROVE  SpSums'
<1>1. SUFFICES ASSUME NEW s \in Stas, NEW p \in PsIds, sta'[s].ps
               PROVE  sta'[s].sp[p] = PerPs(s, Limits')[p]
  BY DEF SpSums
<1>2. /\ sta[s].ps
      /\ \A q \in Txqs : Pushed(H)[q] \in Nat /\ Dropped(H)[q] = 0
      /\ sta' = [r \in Stas |-> CountDown(r, PerPs(r, Pushed(H)), PerPs(r, Dropped(H)))]
  BY <1>1, QuietProcess
<1>3. sta[s].sp[p] = PerPs(s, Limits)[p]
  BY <1>2 DEF SpSums
<1>4. PerPs(s, Limits)[p] = PerPs(s, Limits')[p] + PerPs(s, Pushed(H))[p]
  <2>1. ASSUME NEW q \in TxqsOfPs(s, p)
        PROVE  /\ Limits'[q] \in Int /\ Pushed(H)[q] \in Int
               /\ Limits[q] = Limits'[q] + Pushed(H)[q]
    <3>1. q \in Txqs /\ StaOf[q] = s
      BY DEF TxqsOfPs, TxqsOf
    <3>2. Limits[q] \in Nat /\ Limits'[q] \in Nat /\ Pushed(H)[q] \in Nat
      BY <1>2, <3>1, QueueFields DEF Limits, QInv, TypeOK
    <3>3. CASE q \in Work(H)
      <4>1. /\ txq[q].listed /\ Pushed(H)[q] = Taken(txq[q])
            /\ txq[q].push_limit > 0 => Taken(txq[q]) = txq[q].push_limit
            /\ txq'[q].push_limit = 0
        BY <3>3, QuietProcess
      <4>2. txq[q].push_limit > 0
        <5>1. txq[q].push_limit \in Nat
          BY <3>1, <3>2 DEF Limits
        <5> QED BY <1>2, <3>1, <4>1, <5>1 DEF Promised, Unlimited
      <4>3. Pushed(H)[q] = Limits[q] /\ Limits'[q] = 0
        BY <3>1, <4>1, <4>2 DEF Limits
      <4> QED BY <3>2, <4>3
    <3>4. CASE q \notin Work(H)
      <4>1. txq'[q] = txq[q] /\ Pushed(H)[q] = 0
        BY <3>1, <3>4, QuietProcess
      <4>2. Limits'[q] = Limits[q]
        BY <3>1, <4>1 DEF Limits
      <4> QED BY <3>2, <4>1, <4>2
    <3> QED BY <3>3, <3>4
  <2> QED BY <2>1, PerPsPlus
<1>5. PerPs(s, Limits')[p] \in Nat /\ PerPs(s, Limits')[p] < CountMod
  <2>1. \A q \in Txqs : Lens'[q] \in Nat /\ Lens'[q] <= MaxLen
    <3>1. \A q \in Txqs : Lens[q] \in Nat /\ Lens[q] <= MaxLen
      BY LensSmall DEF QInv
    <3>2. \A q \in Txqs : /\ Lens'[q] \in Nat /\ Pushed(H)[q] \in Nat
                          /\ Lens[q] = Lens'[q] + Pushed(H)[q]
      BY QuietProcess
    <3> QED BY <3>1, <3>2, TxQueueAssumption
  <2>2. \A q \in Txqs : Limits'[q] \in Nat
    BY QueueFields DEF Limits, QInv, TypeOK
  <2>3. \A q \in Txqs : Limits'[q] <= Lens'[q]
    BY DEF Limits, Lens, QInv, GoodQueues, Good
  <2>4. \A q \in Txqs : Limits'[q] \in Nat /\ Limits'[q] <= MaxLen
    BY <2>1, <2>2, <2>3, TxQueueAssumption
  <2> QED BY <2>4, HeldSmall
<1>6. PerPs(s, Pushed(H))[p] \in Nat /\ PerPs(s, Dropped(H))[p] = 0
  <2>1. PerPs(s, Pushed(H)) \in [PsIds -> Nat]
    BY <1>2, PerPsNat
  <2>2. \A q \in TxqsOfPs(s, p) : Dropped(H)[q] = 0 /\ Dropped(H)[q] \in Nat
    BY <1>2, PsQueues
  <2>3. PerPs(s, Dropped(H))[p] = 0
    BY <2>2, PerPsZero
  <2> QED BY <2>1, <2>3
<1>7. sta'[s].sp[p] = (sta[s].sp[p] - PerPs(s, Dropped(H))[p] - PerPs(s, Pushed(H))[p])
                        % CountMod
  <2>1. sta[s] \in Station
    BY DEF QInv, TypeOK
  <2>2. ASSUME NEW out, NEW lost
        PROVE  CountDown(s, out, lost).sp[p] = (sta[s].sp[p] - lost[p] - out[p]) % CountMod
    BY <1>2, <2>1 DEF CountDown, Station
  <2> QED BY <1>2, <2>2
<1> DEFINE a == sta[s].sp[p]  b == PerPs(s, Limits')[p]  c == PerPs(s, Pushed(H))[p]
           d == PerPs(s, Dropped(H))[p]
<1>8. a = b + c /\ b \in Nat /\ c \in Nat /\ d = 0 /\ b < CountMod
  BY <1>3, <1>4, <1>5, <1>6
<1> HIDE DEF a, b, c, d
<1>9. a - d - c = b
  BY <1>8
<1>10. (a - d - c) % CountMod = b
  BY <1>8, <1>9, NoWrap
<1> QED BY <1>7, <1>10 DEF a, b, c, d

\* A request that is served finds no limit set, so that its shares are all.
LEMMA SumsTraffic ==
    ASSUME QInv, SpSums, NEW s \in Stas, NEW n \in 0..MaxReq, NEW p \in PsIds,
           TrafficReq(s, n, p)
    PROVE  SpSums'
<1>1. SUFFICES ASSUME NEW r \in Stas, NEW o \in PsIds, sta'[r].ps
               PROVE  sta'[r].sp[o] = PerPs(r, Limits')[o]
  BY DEF SpSums
<1>2. sta[r].ps
  BY <1>1, QuietTraffic
<1>3. sta[r].sp[o] = PerPs(r, Limits)[o]
  BY <1>2 DEF SpSums
<1>4. \A q \in Txqs : /\ Limits'[q] = IF Asked(s, n, p)[q] = 0
                                      THEN Limits[q] ELSE Asked(s, n, p)[q]
                      /\ Limits[q] \in Nat /\ Asked(s, n, p)[q] \in Nat
                      /\ q \notin TxqsOfPs(s, p) => Asked(s, n, p)[q] = 0
  <2>1. ASSUME NEW q \in Txqs
        PROVE  Limits'[q] = IF Asked(s, n, p)[q] = 0 THEN Limits[q] ELSE Asked(s, n, p)[q]
    <3>1. txq'[q].push_limit = IF Asked(s, n, p)[q] = 0
                               THEN txq[q].push_limit ELSE Asked(s, n, p)[q]
      BY TrafficLimits
    <3> QED BY <3>1 DEF Limits
  <2>2. \A q \in Txqs : Limits[q] \in Nat /\ Asked(s, n, p)[q] \in Nat
    BY LimitsSmall, AskedType DEF QInv
  <2>3. \A q \in Txqs : q \notin DataTxqsOf(s, p) => Asked(s, n, p)[q] = 0
    BY AskedType DEF QInv
  <2>4. \A q \in Txqs : q \notin TxqsOfPs(s, p) => q \notin DataTxqsOf(s, p)
    BY DEF DataTxqsOf
  <2> QED BY <2>1, <2>2, <2>3, <2>4
<1>5. CASE r = s /\ o = p
  <2>0. sta[s].sp[p] = 0
    BY DEF TrafficReq
  <2>1. sta'[s].sp[p] = PerPs(s, Asked(s, n, p))[p]
    BY QuietTraffic, ZenonT(60)
  <2>2. \A q \in TxqsOfPs(s, p) : Limits[q] \in Nat
    BY <1>4, PsQueues
  <2>3. \A q \in TxqsOfPs(s, p) : Limits[q] = 0
    BY <1>3, <1>5, <2>0, <2>2, PerPsZero
  <2>4. \A q \in TxqsOfPs(s, p) : Asked(s, n, p)[q] \in Int
                                    /\ Limits'[q] = Asked(s, n, p)[q]
    BY <1>4, <2>3, PsQueues
  <2>5. PerPs(s, Limits')[p] = PerPs(s, Asked(s, n, p))[p]
    BY <2>4, PerPsSame
  <2> QED BY <1>5, <2>1, <2>5
<1>6. CASE ~(r = s /\ o = p)
  <2>1. sta'[r].sp[o] = sta[r].sp[o]
    <3>1. CASE r # s
      <4>1. sta'[r] = sta[r]
        BY <3>1 DEF TrafficReq
      <4> QED BY <4>1
    <3>2. CASE r = s
      <4> DEFINE c == sta[s]
                 e == PerPs(s, Share(s, p, LET all == c.ready[p] - c.sp[p]
                                           IN  IF n = 0 \/ n > all THEN all ELSE n))[p]
      <4>1. c \in Station /\ sta'[s] = [c EXCEPT !.sp = [c.sp EXCEPT ![p] = e % CountMod]]
        BY DEF TrafficReq, QInv, TypeOK
      <4> HIDE DEF c, e
      <4>2. sta'[s].sp = [c.sp EXCEPT ![p] = e % CountMod] /\ c.sp \in [PsIds -> Count]
        BY <4>1 DEF Station
      <4>3. sta'[s].sp[o] = c.sp[o]
        BY <1>6, <3>2, <4>2
      <4> QED BY <3>2, <4>3 DEF c
    <3> QED BY <3>1, <3>2
  <2>2. \A q \in TxqsOfPs(r, o) : q \in Txqs /\ q \notin TxqsOfPs(s, p)
    BY <1>6 DEF TxqsOfPs, TxqsOf
  <2>3. \A q \in TxqsOfPs(r, o) : Limits[q] \in Int /\ Limits'[q] = Limits[q]
    BY <1>4, <2>2
  <2>4. PerPs(r, Limits')[o] = PerPs(r, Limits)[o]
    BY <2>3, PerPsSame
  <2> QED BY <1>3, <2>1, <2>4
<1> QED BY <1>5, <1>6

LEMMA SumsNext ==
    ASSUME Quiet, "interrupt" \notin Events, QInv, Promised, SpSums, [Next]_vars
    PROVE  SpSums'
<1>0. QInv'
  BY QuietNext
<1>1. CASE UNCHANGED vars
  <2>1. Limits' = Limits /\ UNCHANGED sta
    BY <1>1 DEF vars, Limits
  <2> QED BY <2>1, SameSums
<1>2. CASE Next
  <2>1. QuietStep
    BY <1>2, QuietSteps
  <2>2. ASSUME NEW x \in Senders, NEW r \in Txqs, NEW f \in Frames, XmitCheck(x, r, f)
        PROVE  SpSums'
    <3>1. Limits' = Limits /\ UNCHANGED sta
      BY <2>2 DEF XmitCheck, Limits
    <3> QED BY <3>1, SameSums
  <2>3. ASSUME NEW x \in Senders, XmitQueue(x) PROVE SpSums'
    <3> DEFINE r == xmit[x].q
    <3>1. \A q \in Txqs : txq'[q].push_limit = txq[q].push_limit
      <4>1. /\ \A q \in Txqs \ {r} : txq'[q] = txq[q]
            /\ txq'[r].push_limit = txq[r].push_limit
        BY <2>3, QuietQueue
      <4> QED BY <4>1
    <3>2. Limits' = Limits
      BY <3>1 DEF Limits
    <3>3. r \in Txqs /\ StaOf[r] \in Stas
      BY <2>3, QuietQueue, Constants
    <3>4. sta' = IF sta[StaOf[r]].ps
                 THEN [sta EXCEPT ![StaOf[r]] =
                         CountReady(sta[StaOf[r]], PsOf[r], sta[StaOf[r]].ready[PsOf[r]])]
                 ELSE sta
      BY <2>3 DEF XmitQueue
    <3>5. ASSUME NEW c \in Station, NEW p, NEW o
          PROVE  CountReady(c, p, o).ps = c.ps /\ CountReady(c, p, o).sp = c.sp
      BY DEF CountReady, Station
    <3> HIDE DEF r
    <3>6. \A s \in Stas : sta'[s].ps = sta[s].ps /\ sta'[s].sp = sta[s].sp
      BY <3>3, <3>4, <3>5 DEF QInv, TypeOK
    <3> QED BY <3>2, <3>6, SameSums
  <2>4. ASSUME (\E x \in Senders : XmitProcess(x)) \/ Task PROVE SpSums'
    <3>1. PICK H : Process(H) /\ UNCHANGED <<vifStop, tbusy>>
      BY <2>4 DEF XmitProcess, Task
    <3> QED BY <1>0, <3>1, SumsProcess
  <2>5. ASSUME NEW s \in Stas, NEW on \in BOOLEAN, PsChangeInd(s, on) PROVE SpSums'
    <3>1. Limits' = Limits /\ UNCHANGED sta
      BY <2>5 DEF PsChangeInd, Limits
    <3> QED BY <3>1, SameSums
  <2>6. ASSUME PsChange PROVE SpSums'
    <3>1. SUFFICES ASSUME NEW s \in Stas, NEW p \in PsIds, sta'[s].ps
                   PROVE  sta'[s].sp[p] = PerPs(s, Limits')[p]
      BY DEF SpSums
    <3>2. /\ sta'[rx.s].ps = rx.on /\ sta[rx.s].ps = ~rx.on
          /\ rx.on => sta'[rx.s].sp = Zero
          /\ \A r \in Stas \ {rx.s} : sta'[r] = sta[r]
      BY <2>6, QuietPs
    <3>3. \A q \in Txqs : StaOf[q] # rx.s => txq'[q] = txq[q]
      BY <2>6, QuietPs
    <3>4. \A q \in Txqs : StaOf[q] = rx.s /\ rx.on =>
                 txq'[q].push_limit = txq[q].push_limit
      BY <2>6, QuietPs
    <3>5. CASE s = rx.s
      <4>1. rx.on /\ sta'[s].sp[p] = 0
        BY <3>1, <3>2, <3>5 DEF Zero
      <4>2. ASSUME NEW q \in TxqsOfPs(s, p) PROVE Limits'[q] = 0
        <5>1. q \in Txqs /\ StaOf[q] = s
          BY DEF TxqsOfPs, TxqsOf
        <5>2. ~sta[s].ps
          BY <3>2, <3>5, <4>1
        <5>3. Limits[q] \in Nat /\ ~(Limits[q] > 0)
          BY <5>1, <5>2, LimitsSmall DEF QInv, GoodQueues, Good, Limits
        <5>4. Limits'[q] = Limits[q]
          BY <3>4, <3>5, <4>1, <5>1 DEF Limits
        <5> QED BY <5>3, <5>4
      <4>3. PerPs(s, Limits')[p] = 0
        BY <4>2, PerPsZero
      <4> QED BY <4>1, <4>3
    <3>6. CASE s # rx.s
      <4>1. sta[s].ps /\ sta'[s].sp[p] = sta[s].sp[p]
        BY <3>1, <3>2, <3>6
      <4>2. sta[s].sp[p] = PerPs(s, Limits)[p]
        BY <4>1 DEF SpSums
      <4>3. ASSUME NEW q \in TxqsOfPs(s, p) PROVE Limits[q] \in Int /\ Limits'[q] = Limits[q]
        <5>1. q \in Txqs /\ StaOf[q] = s
          BY DEF TxqsOfPs, TxqsOf
        <5>2. Limits[q] \in Nat
          BY <5>1, LimitsSmall
        <5> QED BY <3>3, <3>6, <5>1, <5>2 DEF Limits
      <4>4. PerPs(s, Limits')[p] = PerPs(s, Limits)[p]
        BY <4>3, PerPsSame
      <4> QED BY <4>1, <4>2, <4>4
    <3> QED BY <3>5, <3>6
  <2>7. ASSUME NEW s \in Stas, NEW n \in 0..MaxReq, NEW p \in PsIds, TrafficReq(s, n, p)
        PROVE  SpSums'
    BY <2>7, SumsTraffic
  <2>8. ASSUME NEW s \in Stas, SpInterrupted(s) PROVE FALSE
    BY <2>8 DEF SpInterrupted
  <2>9. ASSUME NEW r \in VifReasons, VifStop(r) PROVE SpSums'
    <3>1. UNCHANGED sta /\ \A q \in Txqs : txq'[q].push_limit = txq[q].push_limit
      BY <2>9, QuietVifStop
    <3>2. Limits' = Limits
      BY <3>1 DEF Limits
    <3> QED BY <3>1, <3>2, SameSums
  <2>10. ASSUME NEW r \in VifReasons, VifStart(r) PROVE SpSums'
    <3>1. UNCHANGED sta /\ \A q \in Txqs : txq'[q].push_limit = txq[q].push_limit
      BY <2>10, QuietVifStart
    <3>2. Limits' = Limits
      BY <3>1 DEF Limits
    <3> QED BY <3>1, <3>2, SameSums
  <2>11. ASSUME BusStop \/ BusWake PROVE SpSums'
    <3>1. UNCHANGED sta /\ \A q \in Txqs : txq'[q].push_limit = txq[q].push_limit
      BY <2>11, QuietBus
    <3>2. Limits' = Limits
      BY <3>1 DEF Limits
    <3> QED BY <3>1, <3>2, SameSums
  <2> QED BY <2>1, <2>2, <2>3, <2>4, <2>5, <2>6, <2>7, <2>8, <2>9, <2>10, <2>11
          DEF QuietStep
<1> QED BY <1>1, <1>2

LEMMA SumsAlways ==
    ASSUME Quiet, "interrupt" \notin Events
    PROVE  Spec => [](QInv /\ Promised /\ SpSums)
<1>1. Init => QInv /\ Promised /\ SpSums
  <2>1. Init => Promised /\ SpSums
    BY DEF Init, Promised, Unlimited, SpSums, Initialised
  <2> QED BY <2>1, QuietInit
<1>2. (QInv /\ Promised /\ SpSums) /\ [Next]_vars => (QInv /\ Promised /\ SpSums)'
  BY QuietNext, PromisedNext, SumsNext
<1> QED BY <1>1, <1>2, PTL DEF Spec

\* What rwnx_txq.c keeps by hand stays right: the list nodes, pkt_ready and
\* sp_cnt of rwnx_txq_queue_skb, rwnx_hwq_process, rwnx_ps_bh_enable and
\* rwnx_ps_bh_traffic_req, for any number of queues and stations.
THEOREM QueuesSoundHolds ==
    ASSUME Quiet, "interrupt" \notin Events PROVE Spec => []QueuesSound
<1>1. Spec => [](QInv /\ Promised /\ SpSums)
  BY SumsAlways
<1>2. QInv /\ Promised /\ SpSums => QueuesSound
  <2> SUFFICES ASSUME QInv, SpSums PROVE QueuesSound
    OBVIOUS
  <2>1. TypeOK /\ Linked /\ Limited /\ ReadyCount
    BY QuietParts DEF QuietInv
  <2>2. ListSound
    BY <2>1 DEF Linked, ListSound
  <2>3. SpCount
    <3>1. \A s \in Stas : \A q \in TxqsOf(s) : txq[q].push_limit <= Len(txq[q].sk_list)
      BY <2>1 DEF Limited, TxqsOf
    <3> QED BY <3>1 DEF SpCount, SpSums, Limits
  <2> QED BY <2>1, <2>2, <2>3 DEF QueuesSound, CountersAgree
<1> QED BY <1>1, <1>2, PTL

-----------------------------------------------------------------------------
(* What a request comes to                                                  *)

\* Induction on a finite set, by the removal of any of its elements.
LEMMA SubsetsAny ==
    ASSUME NEW S, IsFiniteSet(S), NEW P,
           \A T \in SUBSET S : (\A x \in T : T \ {x} \in P) => T \in P
    PROVE  SUBSET S \subseteq P
<1> DEFINE Bad == {n \in Nat : \E T \in SUBSET S : Cardinality(T) = n /\ T \notin P}
<1>0. \A T \in SUBSET S : IsFiniteSet(T) /\ Cardinality(T) \in Nat
  BY FS_Subset, FS_CardinalityType
<1>1. SUFFICES ASSUME Bad # {} PROVE FALSE
  BY <1>0
<1>2. PICK m \in Bad : \A k \in Bad : m <= k
  <2>1. Bad \subseteq Nat
    OBVIOUS
  <2> HIDE DEF Bad
  <2> QED BY <1>1, <2>1, LeastOfNat
<1>3. PICK T \in SUBSET S : Cardinality(T) = m /\ T \notin P
  BY <1>2
<1>4. PICK x \in T : T \ {x} \notin P
  BY <1>3
<1>5. Cardinality(T \ {x}) = m - 1 /\ m - 1 \in Nat /\ T \ {x} \in SUBSET S
  <2>1. IsFiniteSet(T) /\ T \ {x} \in SUBSET S
    BY <1>0
  <2>2. Cardinality(T \ {x}) = Cardinality(T) - 1
    BY <2>1, <1>4, FS_RemoveElement
  <2>3. Cardinality(T \ {x}) \in Nat
    BY <2>1, <1>0
  <2> QED BY <1>3, <2>1, <2>2, <2>3
<1>6. m - 1 \in Bad
  BY <1>4, <1>5
<1> QED BY <1>2, <1>6

LEMMA PartialSubset ==
    ASSUME NEW S, IsFiniteSet(S), NEW f, \A x \in S : f[x] \in Int, NEW U \in SUBSET S
    PROVE  Partial(f, S)[U] = SumFunctionOnSet(f, U)
<1> DEFINE F == Partial(f, S)  G == Partial(f, U)  P == {T \in SUBSET U : F[T] = G[T]}
<1>0. IsFiniteSet(U) /\ \A x \in U : f[x] \in Int
  BY FS_Subset
<1>1. /\ F[{}] = 0
      /\ \A T \in SUBSET S : T # {} => F[T] = f[Chosen(T)] + F[T \ {Chosen(T)}]
  BY PartialSums
<1>2. /\ G[{}] = 0
      /\ \A T \in SUBSET U : T # {} => G[T] = f[Chosen(T)] + G[T \ {Chosen(T)}]
  BY <1>0, PartialSums
<1> HIDE DEF F, G
<1>3. {} \in P
  BY <1>1, <1>2
<1>4. ASSUME NEW T \in SUBSET U, T # {}, T \ {Chosen(T)} \in P PROVE T \in P
  BY <1>1, <1>2, <1>4
<1>5. U \in P
  <2> HIDE DEF P
  <2> QED BY <1>0, <1>3, <1>4, Subsets
<1> QED BY <1>5, SumPartial DEF F, G

\* A sum can be taken in any order.
LEMMA SumRemove ==
    ASSUME NEW S, IsFiniteSet(S), NEW f, \A x \in S : f[x] \in Int, NEW q \in S
    PROVE  /\ SumFunctionOnSet(f, S) = f[q] + SumFunctionOnSet(f, S \ {q})
           /\ SumFunctionOnSet(f, S \ {q}) \in Int
<1> DEFINE F == Partial(f, S)
           P == {T \in SUBSET S : \A x \in T : F[T] = f[x] + F[T \ {x}]}
<1>1. /\ F \in [SUBSET S -> Int]
      /\ \A T \in SUBSET S : T # {} => F[T] = f[Chosen(T)] + F[T \ {Chosen(T)}]
  BY PartialSums
<1>2. F[S] = SumFunctionOnSet(f, S) /\ F[S \ {q}] = SumFunctionOnSet(f, S \ {q})
  BY PartialSubset
<1> HIDE DEF F
<1>3. ASSUME NEW T \in SUBSET S, \A x \in T : T \ {x} \in P, NEW x \in T
      PROVE  F[T] = f[x] + F[T \ {x}]
  <2> DEFINE c == Chosen(T)
  <2>1. c \in T /\ F[T] = f[c] + F[T \ {c}]
    BY <1>1, <1>3, ChosenIn
  <2> HIDE DEF c
  <2>2. CASE x = c
    BY <2>1, <2>2
  <2>3. CASE x # c
    <3>1. F[T \ {c}] = f[x] + F[(T \ {c}) \ {x}]
      BY <1>3, <2>1, <2>3
    <3>2. F[T \ {x}] = f[c] + F[(T \ {x}) \ {c}]
      BY <1>3, <2>1, <2>3
    <3>3. (T \ {c}) \ {x} = (T \ {x}) \ {c} /\ (T \ {c}) \ {x} \in SUBSET S
      OBVIOUS
    <3>4. F[(T \ {c}) \ {x}] \in Int /\ f[x] \in Int /\ f[c] \in Int
      BY <1>1, <1>3, <2>1, <3>3
    <3> DEFINE a == F[(T \ {c}) \ {x}]
    <3>5. F[T] = f[c] + (f[x] + a) /\ F[T \ {x}] = f[c] + a
      BY <2>1, <3>1, <3>2, <3>3
    <3> HIDE DEF a
    <3> QED BY <3>4, <3>5 DEF a
  <2> QED BY <2>2, <2>3
<1>4. S \in P
  <2>1. \A T \in SUBSET S : (\A x \in T : T \ {x} \in P) => T \in P
    BY <1>3
  <2> HIDE DEF P
  <2> QED BY <2>1, SubsetsAny
<1> QED BY <1>1, <1>2, <1>4

\* What each member of D gets of the request req when those of a smaller rank
\* are served first.
InOrder(D, rank, f, req, g) ==
    \A q \in D :
      LET before == SumFunctionOnSet(f, {r \in D : rank[r] < rank[q]})
      IN  g[q] = IF before >= req THEN 0
                 ELSE IF f[q] <= req - before THEN f[q] ELSE req - before

\* D is served in the order of distinct ranks: what is given out of a request
\* is the request, or everything there is.
LEMMA ServedInOrder ==
    ASSUME NEW D, IsFiniteSet(D), NEW rank \in [D -> Nat],
           \A q, r \in D : rank[q] = rank[r] => q = r,
           NEW f, \A q \in D : f[q] \in Nat, NEW req \in Nat, NEW g,
           InOrder(D, rank, f, req, g)
    PROVE  SumFunctionOnSet(g, D) = IF SumFunctionOnSet(f, D) <= req
                                    THEN SumFunctionOnSet(f, D) ELSE req
<1> DEFINE T(n) == {r \in D : rank[r] < n}
           F(n) == SumFunctionOnSet(f, T(n))
           G(n) == SumFunctionOnSet(g, T(n))
           Bad == {n \in Nat : G(n) # IF F(n) <= req THEN F(n) ELSE req}
<1>0. \A n \in Nat : T(n) \in SUBSET D /\ IsFiniteSet(T(n)) /\ F(n) \in Nat
  <2>1. SUFFICES ASSUME NEW n \in Nat
                 PROVE  T(n) \in SUBSET D /\ IsFiniteSet(T(n)) /\ F(n) \in Nat
    OBVIOUS
  <2>2. T(n) \in SUBSET D /\ IsFiniteSet(T(n))
    BY FS_Subset
  <2> QED BY <2>2, SumNat
<1>1. \A q \in D : g[q] = IF F(rank[q]) >= req THEN 0
                          ELSE IF f[q] <= req - F(rank[q]) THEN f[q]
                                                           ELSE req - F(rank[q])
  BY DEF InOrder
<1>2. \A q \in D : F(rank[q]) \in Nat /\ g[q] \in Int
  <2>1. \A q \in D : F(rank[q]) \in Nat
    BY <1>0
  <2> HIDE DEF F
  <2> QED BY <1>1, <2>1
<1>3. Bad = {}
  <2>1. SUFFICES ASSUME Bad # {} PROVE FALSE
    OBVIOUS
  <2>2. PICK m \in Bad : \A k \in Bad : m <= k
    <3>1. Bad \subseteq Nat
      OBVIOUS
    <3> HIDE DEF Bad
    <3> QED BY <2>1, <3>1, LeastOfNat
  <2>3. m \in Nat /\ G(m) # IF F(m) <= req THEN F(m) ELSE req
    BY <2>2
  <2>4. m # 0
    <3>1. SUFFICES ASSUME m = 0 PROVE FALSE
      OBVIOUS
    <3>2. T(m) = {}
      BY <3>1
    <3>3. F(m) = 0 /\ G(m) = 0
      BY <3>2, SumZero, FS_EmptySet
    <3> HIDE DEF F, G
    <3> QED BY <2>3, <3>3
  <2> DEFINE k == m - 1
  <2>5. k \in Nat /\ m = k + 1
    BY <2>3, <2>4
  <2>6. G(k) = IF F(k) <= req THEN F(k) ELSE req
    <3>1. k \notin Bad
      <4> HIDE DEF Bad
      <4> QED BY <2>2, <2>3, <2>5
    <3> QED BY <2>5, <3>1
  <2> HIDE DEF k
  <2>7. CASE \A q \in D : rank[q] # k
    <3>1. T(m) = T(k)
      BY <2>5, <2>7
    <3>2. F(m) = F(k) /\ G(m) = G(k)
      BY <3>1
    <3> HIDE DEF F, G
    <3> QED BY <2>3, <2>6, <3>2
  <2>8. ASSUME NEW q \in D, rank[q] = k PROVE FALSE
    <3>1. T(m) \ {q} = T(k) /\ q \in T(m)
      BY <2>5, <2>8
    <3>2. IsFiniteSet(T(m)) /\ \A x \in T(m) : f[x] \in Int /\ g[x] \in Int
      <4>1. IsFiniteSet(T(m)) /\ \A x \in T(m) : x \in D
        <5> HIDE DEF F
        <5> QED BY <1>0, <2>3
      <4> HIDE DEF T, F
      <4> QED BY <1>2, <4>1
    <3> DEFINE S == T(m)
               R == T(k)
    <3>9. /\ S \ {q} = R /\ q \in S /\ IsFiniteSet(S)
          /\ \A x \in S : f[x] \in Int /\ g[x] \in Int
      BY <3>1, <3>2
    <3> HIDE DEF S, R
    <3>10. SumFunctionOnSet(f, S) = f[q] + SumFunctionOnSet(f, R)
      BY <3>9, SumRemove
    <3>11. SumFunctionOnSet(g, S) = g[q] + SumFunctionOnSet(g, R)
      BY <3>9, SumRemove
    <3>3. F(m) = f[q] + F(k)
      BY <3>10 DEF S, R
    <3>4. G(m) = g[q] + G(k)
      BY <3>11 DEF S, R
    <3>5. F(k) \in Nat /\ f[q] \in Nat
      BY <1>0, <2>5
    <3>6. g[q] = IF F(k) >= req THEN 0
                 ELSE IF f[q] <= req - F(k) THEN f[q] ELSE req - F(k)
      BY <1>1, <2>8
    <3> HIDE DEF F, G
    <3> QED BY <2>3, <2>6, <3>3, <3>4, <3>5, <3>6
  <2> QED BY <2>7, <2>8
<1> DEFINE n == SumFunctionOnSet(rank, D) + 1
<1>4. n \in Nat /\ T(n) = D
  <2>1. /\ SumFunctionOnSet(rank, D) \in Nat
        /\ \A q \in D : rank[q] <= SumFunctionOnSet(rank, D)
    BY SumNat
  <2> DEFINE a == SumFunctionOnSet(rank, D)
  <2>2. a \in Nat /\ \A q \in D : rank[q] <= a /\ rank[q] \in Nat
    BY <2>1
  <2> HIDE DEF a
  <2>3. \A q \in D : rank[q] < a + 1
    BY <2>2
  <2>4. n = a + 1
    BY DEF a
  <2> HIDE DEF n
  <2> QED BY <2>2, <2>3, <2>4
<1>5. G(n) = IF F(n) <= req THEN F(n) ELSE req
  <2> HIDE DEF n, F, G
  <2> QED BY <1>3, <1>4
<1> HIDE DEF n
<1> QED BY <1>4, <1>5

\* What the data queues can give to a request, a queue counting for at most
\* its credits.
Offers == [q \in Txqs |-> Offer(q)]
Offered(s, p) == SumFunctionOnSet(Offers, DataTxqsOf(s, p))

\* A sum over queues of which all but those of D count for nothing.
LEMMA SumInside ==
    ASSUME NEW S, IsFiniteSet(S), NEW f, \A x \in S : f[x] \in Int, NEW D \in SUBSET S,
           \A x \in S \ D : f[x] = 0
    PROVE  SumFunctionOnSet(f, S) = SumFunctionOnSet(f, D)
<1> DEFINE F == Partial(f, S)
           P == {T \in SUBSET S : F[T] = F[T \cap D]}
<1>1. /\ F[{}] = 0 /\ F \in [SUBSET S -> Int]
      /\ \A T \in SUBSET S : T # {} => F[T] = f[Chosen(T)] + F[T \ {Chosen(T)}]
  BY PartialSums
<1>2. \A T \in SUBSET S : F[T] = SumFunctionOnSet(f, T)
  BY PartialSubset
<1> HIDE DEF F
<1>3. {} \in P
  BY <1>1
<1>4. ASSUME NEW T \in SUBSET S, T # {}, T \ {Chosen(T)} \in P PROVE T \in P
  <2> DEFINE c == Chosen(T)
  <2>1. c \in T /\ F[T] = f[c] + F[T \ {c}] /\ F[T \ {c}] = F[(T \ {c}) \cap D]
    BY <1>1, <1>4, ChosenIn
  <2> HIDE DEF c
  <2>2. CASE c \notin D
    <3>1. (T \ {c}) \cap D = T \cap D /\ f[c] = 0 /\ F[T \cap D] \in Int
      BY <1>1, <2>1, <2>2
    <3> DEFINE b == F[T \cap D]
    <3>2. F[T] = 0 + b /\ b \in Int
      BY <2>1, <3>1
    <3> HIDE DEF b
    <3>3. F[T] = b
      BY <3>2
    <3> QED BY <3>3 DEF b
  <2>3. CASE c \in D
    <3> DEFINE U == T \cap D
    <3>1. (T \ {c}) \cap D = U \ {c} /\ c \in U /\ U \in SUBSET S /\ U \ {c} \in SUBSET S
      BY <2>1, <2>3
    <3>2. IsFiniteSet(U) /\ \A x \in U : f[x] \in Int
      BY <3>1, FS_Subset
    <3> HIDE DEF U
    <3>3. SumFunctionOnSet(f, U) = f[c] + SumFunctionOnSet(f, U \ {c})
      BY <3>1, <3>2, SumRemove
    <3>4. F[U] = f[c] + F[U \ {c}]
      BY <1>2, <3>1, <3>3
    <3> QED BY <2>1, <3>1, <3>4 DEF U
  <2> QED BY <2>2, <2>3
<1>5. S \in P
  <2>1. \A T \in SUBSET S : T # {} /\ T \ {Chosen(T)} \in P => T \in P
    BY <1>4
  <2> HIDE DEF P
  <2> QED BY <1>3, <2>1, Subsets
<1>6. S \cap D = D
  OBVIOUS
<1> QED BY <1>2, <1>5, <1>6

\* What a request of req frames is given is that many, or all that the data
\* queues offer; management queues give nothing.
LEMMA ShareSum ==
    ASSUME TypeOK, NEW s, NEW p \in PsIds, NEW req \in Nat
    PROVE  PerPs(s, Share(s, p, req))[p] =
             IF Offered(s, p) <= req THEN Offered(s, p) ELSE req
<1> DEFINE S == TxqsOfPs(s, p)
           D == DataTxqsOf(s, p)
           f == Offers
           g == Share(s, p, req)
           rank == [q \in D |-> Prio[q]]
<1>1. /\ S \subseteq Txqs /\ IsFiniteSet(S) /\ D \in SUBSET S /\ IsFiniteSet(D)
  <2>1. S \subseteq Txqs /\ IsFiniteSet(S) /\ D \in SUBSET S
    BY PsQueues DEF DataTxqsOf
  <2> QED BY <2>1, FS_Subset
<1>2. rank \in [D -> Nat] /\ \A q, r \in D : rank[q] = rank[r] => q = r
  BY <1>1, TxQueueAssumption DEF TxqsOfPs, TxqsOf
<1>3. \A q \in D : f[q] \in Nat
  BY <1>1, OfferType DEF Offers
<1>4. ASSUME NEW q \in D
      PROVE  LET before == SumFunctionOnSet(f, {r \in D : rank[r] < rank[q]})
             IN  g[q] = IF before >= req THEN 0
                        ELSE IF f[q] <= req - before THEN f[q] ELSE req - before
  <2> DEFINE before == SumFunctionOnSet(f, {r \in D : Prio[r] < Prio[q]})
  <2>1. {r \in D : rank[r] < rank[q]} = {r \in D : Prio[r] < Prio[q]}
    OBVIOUS
  <2>2. before \in Nat
    <3>1. {r \in D : Prio[r] < Prio[q]} \subseteq D
      OBVIOUS
    <3>2. IsFiniteSet({r \in D : Prio[r] < Prio[q]})
          /\ \A r \in {r \in D : Prio[r] < Prio[q]} : f[r] \in Nat
      BY <1>1, <1>3, <3>1, FS_Subset
    <3> HIDE DEF f
    <3> QED BY <3>2, SumNat
  <2>3. q \in Txqs /\ Offer(q) = f[q]
    BY <1>1 DEF Offers
  <2>4. g[q] = IF before >= req THEN 0 ELSE Min({Offer(q), req - before})
    BY <1>1, <2>3 DEF Share, Offers
  <2> HIDE DEF before, f, g, rank
  <2>5. f[q] \in Int /\ req - before \in Int
    BY <1>3, <2>2
  <2>6. Min({f[q], req - before}) = IF f[q] <= req - before THEN f[q] ELSE req - before
    BY <2>5, MinOfTwo
  <2>7. g[q] = IF before >= req THEN 0
               ELSE IF f[q] <= req - before THEN f[q] ELSE req - before
    BY <2>3, <2>4, <2>6
  <2> QED BY <2>1, <2>7 DEF before
<1>5. SumFunctionOnSet(g, D) = IF SumFunctionOnSet(f, D) <= req
                               THEN SumFunctionOnSet(f, D) ELSE req
  <2> HIDE DEF f, g, D, rank
  <2>1. InOrder(D, rank, f, req, g)
    BY <1>4 DEF InOrder
  <2> QED BY <1>1, <1>2, <1>3, <2>1, ServedInOrder
<1>6. \A q \in S : g[q] \in Int /\ (q \notin D => g[q] = 0)
  BY <1>1, ShareType
<1>7. SumFunctionOnSet(g, S) = SumFunctionOnSet(g, D)
  <2>1. \A q \in S \ D : g[q] = 0
    BY <1>6
  <2> HIDE DEF g, S, D
  <2> QED BY <1>1, <1>6, <2>1, SumInside
<1>8. PerPs(s, g)[p] = SumFunctionOnSet(g, S)
  BY DEF PerPs
<1> QED BY <1>5, <1>7, <1>8 DEF Offered

\* A request that is served opens a period of the frames asked for or of all
\* that are ready, but of no more than the data queues offer: a queue counts
\* for its credits at most and frames in the management queues, counted as
\* ready, for nothing, so that the period may even be empty.
THEOREM RequestShared ==
    ASSUME Quiet
    PROVE  Spec => [][\A s \in Stas, n \in 0..MaxReq, p \in PsIds : TrafficReq(s, n, p) =>
                        sta'[s].sp[p] =
                          LET req == IF n = 0 \/ n > sta[s].ready[p]
                                     THEN sta[s].ready[p] ELSE n
                          IN  IF Offered(s, p) <= req THEN Offered(s, p) ELSE req]_vars
<1>1. Spec => []QInv
  BY QuietAlways
<1>2. ASSUME QInv, NEW s \in Stas, NEW n \in 0..MaxReq, NEW p \in PsIds,
             TrafficReq(s, n, p)
      PROVE  sta'[s].sp[p] =
               LET req == IF n = 0 \/ n > sta[s].ready[p] THEN sta[s].ready[p] ELSE n
               IN  IF Offered(s, p) <= req THEN Offered(s, p) ELSE req
  <2> DEFINE a == sta[s].ready[p]
             req == IF n = 0 \/ n > a THEN a ELSE n
  <2>1. sta[s].sp[p] = 0
    BY <1>2 DEF TrafficReq
  <2>2. a \in Nat /\ n \in Nat
    <3>1. sta[s].ready \in [PsIds -> Count] /\ sta[s].ready[p] \in Count
      <4>1. sta[s] \in Station
        BY <1>2 DEF QInv, TypeOK
      <4> QED BY <4>1 DEF Station
    <3>2. \A x \in Count : x \in Nat
      BY DEF Count
    <3>3. n \in Nat
      BY <1>2
    <3> QED BY <3>1, <3>2, <3>3
  <2>3. req \in Nat
    BY <2>2
  <2>4. Asked(s, n, p) = Share(s, p, req)
    <3>1. sta[s].ready[p] - sta[s].sp[p] = a
      BY <2>1, <2>2
    <3> QED BY <3>1 DEF Asked
  <2>5. sta'[s].sp[p] = PerPs(s, Share(s, p, req))[p]
    <3>1. sta'[s].sp[p] = PerPs(s, Asked(s, n, p))[p]
      BY <1>2, QuietTraffic
    <3> QED BY <2>4, <3>1
  <2>6. PerPs(s, Share(s, p, req))[p] =
          IF Offered(s, p) <= req THEN Offered(s, p) ELSE req
    <3> HIDE DEF req
    <3> QED BY <1>2, <2>3, ShareSum DEF QInv
  <2> QED BY <2>5, <2>6
<1>3. QInv /\ [Next]_vars =>
        [\A s \in Stas, n \in 0..MaxReq, p \in PsIds : TrafficReq(s, n, p) =>
           sta'[s].sp[p] =
             LET req == IF n = 0 \/ n > sta[s].ready[p] THEN sta[s].ready[p] ELSE n
             IN  IF Offered(s, p) <= req THEN Offered(s, p) ELSE req]_vars
  BY <1>2
<1> QED BY <1>1, <1>3, PTL DEF Spec
=============================================================================
