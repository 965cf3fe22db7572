---------------------------- MODULE UsbRx_proofs ----------------------------
(***************************************************************************)
(* Proofs about USB reception, for every number of receive buffers, every  *)
(* queue limit and any number of failures and suspends: no buffer is lost, *)
(* rx_cnt agrees with the queue, no queued frame is left without somebody  *)
(* to wake the thread, failed refills are made good, and a disconnect      *)
(* leaves nothing running.                                                 *)
(***************************************************************************)
EXTENDS UsbRx, SequenceTheorems, TLAPS

(* The strengthening *)

\* What bounds the counters that TypeOK bounds.
Bounded ==
    /\ leaks <= fails
    /\ cpc \in {"inc", "test"} => trgg <= MaxTrgg
    /\ sem <= 1 + suspends - One(pm = "stopping")
              + One(teardown \in {"cancel", "platform", "stop", "join", "freed"})
              + One(teardown = "freed")

\* The handler refills after it has done the rest, a resume before it is over,
\* and a disconnect comes before or after suspend and resume.
Phases ==
    /\ cpc # "idle" => refill["handler"] = "idle"
    /\ pm # "prepare" => refill["resume"] = "idle"
    /\ teardown # "no" => pm \in {"on", "off"}

\* Once usb_kill_anchored_urbs has returned, nothing completes or refills.
TornDown ==
    /\ teardown \in {"platform", "stop", "join", "freed"} => flight = 0 /\ HandlerIdle
    /\ teardown = "freed" => tpc = "gone" /\ rxq = <<>>

\* Every free buffer is one of the misses, or a refill is on its way to it.
RefillCounted ==
    free + One(refill["handler"] = "submit") + One(refill["resume"] = "submit")
        <= misses + One(refill["handler"] # "idle") + One(refill["resume"] # "idle")

\* FramesHaveWaker, with the frame that the handler has yet to count left out.
WakePending ==
    tpc = "wait" /\ leaks = 0 /\ Len(rxq) > One(cpc = "inc") =>
        trgg > 0 \/ all \/ (cpc = "test" /\ rx_cnt = 1)

\* TypeOK, first what is not a flag, then the flags.
Numbers ==
    /\ state \in {"UP", "SLEEP", "DOWN"}
    /\ pm \in {"on", "stopping", "off", "prepare"}
    /\ teardown \in {"no", "zero", "down", "bus", "cancel", "platform", "stop", "join", "freed"}
    /\ atom \in 0..1 /\ sem \in 0..(MaxSuspends + 3)
    /\ flight \in 0..RX_URBS /\ free \in 0..RX_URBS /\ misses \in 0..RX_URBS
    /\ rxq \in Seq(Kinds) /\ Len(rxq) <= MAX_RXQLEN
    /\ rx_cnt \in Int /\ leaks \in 0..MaxFails
    /\ trgg \in 0..(MaxTrgg + 1)
    /\ cpc \in {"idle", "inc", "test", "put", "check", "zero", "down"}
    /\ refill \in [Refillers -> {"idle", "next", "submit"}]
    /\ tpc \in {"wait", "loop", "work", "dec", "gone"} /\ frame \in Kinds
    /\ fails \in 0..MaxFails /\ suspends \in 0..MaxSuspends

Switches ==
    /\ aggr \in BOOLEAN /\ wait \in BOOLEAN /\ hw \in BOOLEAN
    /\ all \in BOOLEAN /\ corrupt \in BOOLEAN

\* What one step of the bus changes together.
Core ==
    /\ Numbers /\ UrbsAccounted /\ CountAgrees
    /\ Bounded /\ Phases /\ TornDown /\ RefillCounted /\ WakePending

IInv == Core /\ Switches

\* Queueing and taking a frame.
LEMMA QueueProperties ==
    ASSUME NEW q \in Seq(Kinds)
    PROVE  /\ Len(q) \in Nat
           /\ (q = <<>>) <=> (Len(q) = 0)
           /\ \A k \in Kinds : Append(q, k) \in Seq(Kinds) /\ Len(Append(q, k)) = Len(q) + 1
           /\ q # <<>> => /\ Head(q) \in Kinds /\ Tail(q) \in Seq(Kinds)
                          /\ Len(Tail(q)) = Len(q) - 1
  BY LenProperties, EmptySeq, AppendProperties, HeadTailProperties

LEMMA InitIInv == Init => IInv
<1> SUFFICES ASSUME Init PROVE IInv
  OBVIOUS
<1>1. Switches
  BY Zenon DEF Init, Switches
<1>2. Core
  BY UsbRxAssumption, EmptySeq, SMT
  DEF Init, UsbRxAssumption, Core, Numbers, UrbsAccounted, CountAgrees, Bounded, Phases,
      TornDown, RefillCounted, WakePending, One, HandlerIdle, Refillers, Kinds
<1> QED BY <1>1, <1>2 DEF IInv

\* A frame enters the queue in the hands of the handler, which is yet to count it.
LEMMA EnqueueCore ==
    ASSUME Core, teardown # "freed", NEW k \in Kinds, RxEnqueue(k)
    PROVE  Core'
<1> USE QueueProperties, UsbRxAssumption
    DEF UsbRxAssumption, Core, Numbers, UrbsAccounted, CountAgrees, Bounded, Phases,
        TornDown, RefillCounted, WakePending, One, HandlerIdle, Refillers, Kinds,
        busVars, urbVars, queueVars, wakeVars, deinitVars, threadVars
<1>1. CASE Len(rxq) < MAX_RXQLEN
  <2>1. rxq' = Append(rxq, k) /\ cpc' = "inc"
    BY <1>1 DEF RxEnqueue
  <2>2. rxq' \in Seq(Kinds) /\ Len(rxq') = Len(rxq) + 1
    <3> HIDE DEF Kinds
    <3>1. rxq \in Seq(Kinds)
      OBVIOUS
    <3> QED BY <2>1, <3>1, AppendProperties
  <2>3. /\ HandlerIdle /\ flight > 0 /\ state = "UP" /\ trgg <= MaxTrgg
        /\ flight' = flight - 1
        /\ UNCHANGED <<busVars, free, misses, rx_cnt, leaks, wakeVars, refill,
                       threadVars, fails>>
    BY DEF RxEnqueue
  <2>4. Numbers'
    BY <1>1, <2>1, <2>2, <2>3, SMT
  <2>5. WakePending'
    BY <2>1, <2>2, <2>3, SMT
  <2>6. UrbsAccounted' /\ RefillCounted'
    BY <2>1, <2>2, <2>3, SMT
  <2>7. CountAgrees'
    <3>1. /\ rx_cnt' = rx_cnt /\ leaks' = leaks /\ tpc' = tpc
          /\ cpc = "idle" /\ cpc' = "inc"
      BY <2>1, <2>3
    <3>2. rx_cnt = Len(rxq) + One(tpc \in {"work", "dec"}) + leaks
      BY <3>1, SMT
    <3>3. Len(rxq) \in Nat /\ rx_cnt \in Int /\ leaks \in Nat
      BY SMT
    <3>4. rx_cnt = Len(rxq') + One(tpc' \in {"work", "dec"}) - One(cpc' = "inc") + leaks'
      <4> DEFINE n == Len(rxq)
                 b == One(tpc \in {"work", "dec"})
      <4>1. n \in Nat /\ b \in Int /\ rx_cnt \in Int /\ leaks \in Int
        BY <3>3
      <4>2. rx_cnt = n + b + leaks
        BY <3>2
      <4>3. Len(rxq') = n + 1 /\ One(cpc' = "inc") = 1
            /\ One(tpc' \in {"work", "dec"}) = b
        BY <2>2, <3>1
      <4> HIDE DEF n, b
      <4>4. rx_cnt = (n + 1) + b - 1 + leaks
        BY <4>1, <4>2
      <4> QED BY <3>1, <4>3, <4>4
    <3> QED BY <3>1, <3>4
  <2>8. Bounded' /\ Phases'
    BY <2>1, <2>2, <2>3, SMT
  <2>9. TornDown'
    BY <2>1, <2>2, <2>3, SMT
  <2> QED BY <2>4, <2>5, <2>6, <2>7, <2>8, <2>9
<1>2. CASE ~(Len(rxq) < MAX_RXQLEN)
  <2>1. rxq' = rxq /\ cpc' = "put"
    BY <1>2 DEF RxEnqueue
  <2> QED BY <1>2, <2>1, SMT DEF RxEnqueue
<1> QED BY <1>1, <1>2

\* The completion handler: a buffer goes from the endpoint through its hands to
\* the free list, a frame into the queue and then into the count.
LEMMA HandlerCore ==
    ASSUME Core, teardown # "freed",
           RxEmpty \/ RxNotUp \/ RxError \/ RxKilled \/ WaitCheck
              \/ WaitZero \/ WaitDown \/ RxCount \/ RxWake \/ RxPut
    PROVE  Core'
<1> USE QueueProperties, UsbRxAssumption
    DEF UsbRxAssumption, Core, Numbers, UrbsAccounted, CountAgrees, Bounded, Phases,
        TornDown, RefillCounted, WakePending, One, HandlerIdle, Refillers, Kinds,
        busVars, urbVars, queueVars, wakeVars, deinitVars, threadVars
<1>1. CASE RxEmpty
  BY <1>1, SMT DEF RxEmpty
<1>2. CASE RxNotUp
  BY <1>2, SMT DEF RxNotUp, Missed
<1>3. CASE RxError
  BY <1>3, SMT DEF RxError, Expect, Missed
<1>4. CASE RxKilled
  BY <1>4, SMT DEF RxKilled, Expect, Missed
<1>5. CASE WaitCheck
  BY <1>5, SMT DEF WaitCheck
<1>6. CASE WaitZero
  BY <1>6, SMT DEF WaitZero
<1>7. CASE WaitDown
  BY <1>7, SMT DEF WaitDown
<1>8. CASE RxCount
  BY <1>8, SMT DEF RxCount
<1>9. CASE RxWake
  BY <1>9, SMT DEF RxWake
<1>10. CASE RxPut
  BY <1>10, SMT DEF RxPut
<1> QED BY <1>1, <1>2, <1>3, <1>4, <1>5, <1>6, <1>7, <1>8, <1>9, <1>10

\* A refill moves a buffer from the free list to the endpoint or back.
LEMMA RefillCore ==
    ASSUME Core, teardown # "freed", NEW r \in Refillers,
           RefillTake(r) \/ RefillDone(r) \/ RefillSubmit(r)
              \/ RefillFails(r)
    PROVE  Core'
<1> USE QueueProperties, UsbRxAssumption
    DEF UsbRxAssumption, Core, Numbers, UrbsAccounted, CountAgrees, Bounded, Phases,
        TornDown, RefillCounted, WakePending, One, HandlerIdle, Refillers, Kinds,
        busVars, urbVars, queueVars, wakeVars, deinitVars, threadVars
<1>1. CASE RefillTake(r)
  BY <1>1, SMT DEF RefillTake
<1>2. CASE RefillDone(r)
  BY <1>2, SMT DEF RefillDone
<1>3. CASE RefillSubmit(r)
  BY <1>3, SMT DEF RefillSubmit
<1>4. CASE RefillFails(r)
  BY <1>4, SMT DEF RefillFails, Missed
<1> QED BY <1>1, <1>2, <1>3, <1>4

\* The receive thread takes a frame, handles it and counts it down, or, without
\* memory, leaves it counted.
LEMMA ThreadCore ==
    ASSUME Core, teardown # "freed",
           RxThreadWake \/ RxThreadDone \/ RxThreadTake \/ RxHandle
              \/ RxNoMemory \/ RxThreadDec
    PROVE  Core'
<1> USE QueueProperties, UsbRxAssumption
    DEF UsbRxAssumption, Core, Numbers, UrbsAccounted, CountAgrees, Bounded, Phases,
        TornDown, RefillCounted, WakePending, One, HandlerIdle, Refillers, Kinds,
        busVars, urbVars, queueVars, wakeVars, deinitVars, threadVars
<1>1. CASE RxThreadWake
  BY <1>1, SMT DEF RxThreadWake
<1>2. CASE RxThreadDone
  BY <1>2, SMT DEF RxThreadDone
<1>3. CASE RxThreadTake
  BY <1>3, SMT DEF RxThreadTake
<1>4. CASE RxHandle
  BY <1>4, SMT DEF RxHandle
<1>5. CASE RxNoMemory
  BY <1>5, SMT DEF RxNoMemory
<1>6. CASE RxThreadDec
  BY <1>6, SMT DEF RxThreadDec
<1> QED BY <1>1, <1>2, <1>3, <1>4, <1>5, <1>6

\* Suspend and resume.
LEMMA PowerCore ==
    ASSUME Core, teardown # "freed",
           Suspend \/ SuspendStop \/ Resume \/ ResumeDone
    PROVE  Core'
<1> USE QueueProperties, UsbRxAssumption
    DEF UsbRxAssumption, Core, Numbers, UrbsAccounted, CountAgrees, Bounded, Phases,
        TornDown, RefillCounted, WakePending, One, HandlerIdle, Refillers, Kinds,
        busVars, urbVars, queueVars, wakeVars, deinitVars, threadVars
<1>1. CASE Suspend
  BY <1>1, SMT DEF Suspend
<1>2. CASE SuspendStop
  BY <1>2, SMT DEF SuspendStop, BusStop
<1>3. CASE Resume
  BY <1>3, SMT DEF Resume
<1>4. CASE ResumeDone
  BY <1>4, SMT DEF ResumeDone
<1> QED BY <1>1, <1>2, <1>3, <1>4

\* The disconnect, whose waits make nothing complete or refill after it.
LEMMA TeardownCore ==
    ASSUME Core, teardown # "freed",
           Disconnect \/ DisconnectZero \/ DisconnectDown
              \/ DisconnectStop \/ CancelUrbs \/ PlatformDeinit
              \/ StopThread \/ RxDeinit
    PROVE  Core'
<1> USE QueueProperties, UsbRxAssumption
    DEF UsbRxAssumption, Core, Numbers, UrbsAccounted, CountAgrees, Bounded, Phases,
        TornDown, RefillCounted, WakePending, One, HandlerIdle, Refillers, Kinds,
        busVars, urbVars, queueVars, wakeVars, deinitVars, threadVars
<1>1. CASE Disconnect
  BY <1>1, SMT DEF Disconnect
<1>2. CASE DisconnectZero
  BY <1>2, SMT DEF DisconnectZero
<1>3. CASE DisconnectDown
  BY <1>3, SMT DEF DisconnectDown
<1>4. CASE DisconnectStop
  BY <1>4, SMT DEF DisconnectStop, BusStop
<1>5. CASE CancelUrbs
  BY <1>5, SMT DEF CancelUrbs
<1>6. CASE PlatformDeinit
  BY <1>6, SMT DEF PlatformDeinit
<1>7. CASE StopThread
  BY <1>7, SMT DEF StopThread
<1>8. CASE RxDeinit
  BY <1>8, SMT DEF RxDeinit
<1> QED BY <1>1, <1>2, <1>3, <1>4, <1>5, <1>6, <1>7, <1>8

\* The flags: only the handler of a failed URB, the thread and the disconnect
\* change one.
LEMMA SwitchesStep ==
    ASSUME Switches, Step
    PROVE  Switches'
<1>1. CASE UNCHANGED <<aggr, wait, hw, all, corrupt>>
  BY <1>1 DEF Switches
<1>2. CASE RxError
  BY <1>2, Zenon DEF Switches, RxError, Expect, busVars, queueVars, wakeVars, deinitVars, threadVars, urbVars
<1>3. CASE RxKilled
  BY <1>3, Zenon DEF Switches, RxKilled, Expect, busVars, queueVars, wakeVars, deinitVars, threadVars, urbVars
<1>4. CASE WaitCheck
  <2>1. UNCHANGED <<aggr, hw, all, corrupt>>
    BY <1>4 DEF WaitCheck, wakeVars
  <2>2. wait' \in BOOLEAN
    BY <1>4, SMT DEF WaitCheck
  <2> QED BY <2>1, <2>2 DEF Switches
<1>5. CASE RxHandle
  BY <1>5, Zenon DEF Switches, RxHandle, busVars, queueVars, wakeVars, deinitVars, threadVars, urbVars
<1>6. CASE PlatformDeinit
  BY <1>6, Zenon DEF Switches, PlatformDeinit, busVars, queueVars, wakeVars, deinitVars, threadVars, urbVars
<1>7. CASE StopThread
  BY <1>7, Zenon DEF Switches, StopThread, busVars, queueVars, wakeVars, deinitVars, threadVars, urbVars
<1>8. CASE SuspendStop
  BY <1>8, Zenon DEF Switches, SuspendStop, BusStop, busVars, queueVars, wakeVars, deinitVars, threadVars, urbVars
<1>9. CASE DisconnectStop
  BY <1>9, Zenon DEF Switches, DisconnectStop, BusStop, busVars, queueVars, wakeVars, deinitVars, threadVars, urbVars
<1>10. CASE \/ \E k \in Kinds : RxEnqueue(k)
            \/ RxEmpty
            \/ RxNotUp
            \/ WaitZero
            \/ WaitDown
            \/ RxCount
            \/ RxWake
            \/ RxPut
            \/ \E r \in Refillers : RefillTake(r)
            \/ \E r \in Refillers : RefillDone(r)
            \/ \E r \in Refillers : RefillSubmit(r)
            \/ \E r \in Refillers : RefillFails(r)
            \/ RxThreadWake
            \/ RxThreadDone
            \/ RxThreadTake
            \/ RxNoMemory
            \/ RxThreadDec
            \/ Suspend
            \/ Resume
            \/ ResumeDone
            \/ Disconnect
            \/ DisconnectZero
            \/ DisconnectDown
            \/ CancelUrbs
            \/ RxDeinit
  BY <1>10, <1>1
  DEF RxEnqueue, RxEmpty, RxNotUp, WaitZero, WaitDown, RxCount, RxWake,
      RxPut, RefillTake, RefillDone, RefillSubmit, RefillFails, RxThreadWake,
      RxThreadDone, RxThreadTake, RxNoMemory, RxThreadDec, Suspend, Resume,
      ResumeDone, Disconnect, DisconnectZero, DisconnectDown, CancelUrbs,
      RxDeinit, busVars, queueVars, wakeVars, deinitVars, threadVars,
      urbVars
<1> QED BY <1>2, <1>3, <1>4, <1>5, <1>6, <1>7, <1>8, <1>9, <1>10 DEF Step

LEMMA NextIInv == IInv /\ [Next]_vars => IInv'
<1> SUFFICES ASSUME IInv, [Next]_vars PROVE IInv'
  OBVIOUS
<1>1. CASE UNCHANGED vars
  <2>1. Switches'
    BY <1>1 DEF IInv, Switches, vars, busVars, wakeVars, deinitVars
  <2>2. Core'
    BY <1>1, SMT
    DEF IInv, Core, Numbers, UrbsAccounted, CountAgrees, Bounded, Phases, TornDown,
        RefillCounted, WakePending, One, HandlerIdle, vars, busVars, urbVars, queueVars,
        wakeVars, deinitVars, threadVars
  <2> QED BY <2>1, <2>2 DEF IInv
<1>2. CASE teardown # "freed" /\ Step
  <2>1. Switches'
    BY <1>2, SwitchesStep DEF IInv
  <2>2. Core'
    BY <1>2, EnqueueCore, HandlerCore, RefillCore, ThreadCore, PowerCore, TeardownCore
    DEF IInv, Step
  <2> QED BY <2>1, <2>2 DEF IInv
<1> QED BY <1>1, <1>2 DEF Next

LEMMA IInvImplies == IInv => UsbRxInv
<1> SUFFICES ASSUME IInv PROVE UsbRxInv
  OBVIOUS
<1>1. TypeOK
  BY DEF IInv, Core, Numbers, Switches, TypeOK
<1>2. FramesHaveWaker
  BY QueueProperties, SMT
  DEF IInv, Core, Numbers, CountAgrees, WakePending, One, FramesHaveWaker
<1>3. RefillCatchesUp
  <2> SUFFICES ASSUME pm = "on", HandlerIdle PROVE free <= misses
    BY DEF RefillCatchesUp
  <2> QED BY SMT DEF IInv, Core, Numbers, Phases, RefillCounted, One, HandlerIdle
<1>4. DeinitQuiet
  BY DEF IInv, Core, TornDown, DeinitQuiet
<1> QED BY <1>1, <1>2, <1>3, <1>4 DEF IInv, Core, UsbRxInv

\* The inductive invariant: buffers, counts, phases and wake-ups of reception
\* fit together, whatever completes, fails, sleeps or is torn down in between.
THEOREM ReceptionInductive == Spec => []IInv
BY InitIInv, NextIInv, PTL DEF Spec

\* No receive buffer is lost, rx_cnt counts what the thread has to do, no frame
\* waits unnoticed while no allocation failed, as many failures in a row as there
\* are buffers are needed to silence the device, and a disconnect leaves no URB,
\* handler, thread or frame behind.
THEOREM ReceptionSound == Spec => []UsbRxInv
BY ReceptionInductive, IInvImplies, PTL
=============================================================================
