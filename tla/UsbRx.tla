-------------------------------- MODULE UsbRx --------------------------------
(***************************************************************************)
(* USB reception of the AIC8800 FullMAC driver and its end: the receive    *)
(* URBs and their free list, the queue of received frames, the counter     *)
(* rx_cnt by which the completion handler decides whether to wake the      *)
(* receive thread, the thread itself, suspend and resume, and the teardown *)
(* at disconnect.                                                          *)
(*                                                                         *)
(* The USB core runs one completion of the endpoint at a time; it, the     *)
(* thread, and power management or disconnect (under the lock of the       *)
(* device) interleave.  A step is one critical section or atomic access.   *)
(***************************************************************************)
EXTENDS Integers, FiniteSets, SequencesExt

CONSTANTS
    RX_URBS,        \* AICWF_USB_RX_URBS
    MAX_RXQLEN,
    MaxTrgg,        \* bound on the completions busrx_trgg counts
    MaxFails,       \* bound on failed allocations, submissions and URBs
    MaxSuspends     \* bound on suspends

ASSUME UsbRxAssumption ==
    /\ RX_URBS \in Nat \ {0} /\ MAX_RXQLEN \in Nat \ {0}
    /\ MaxTrgg \in Nat /\ MaxFails \in Nat /\ MaxSuspends \in Nat

(* What a received buffer holds: data, a message (the response to a command *)
(* or a confirmation), or a length field above 1600.                        *)
Kinds == {"data", "message", "big"}

Refillers == {"handler", "resume"}

VARIABLES
    aggr,       \* aicwf_usb_rx_aggr: several packets in a buffer
    state,      \* usb_dev->state; bus_if->state is down exactly with DOWN
    pm,         \* how far a suspend or a resume is
    teardown,   \* how far aicwf_bus_deinit is
    hw,         \* rwnx_hw is allocated
    flight,     \* URBs submitted
    free,       \* length of rx_free_list
    rxq, rx_cnt,
    trgg,       \* busrx_trgg.done
    all,        \* complete_all(busrx_trgg)
    wait,       \* wait_disconnect_cb: a disconnect is expected
    atom, sem,  \* aicwf_deinit_atomic and aicwf_deinit_sem
    cpc,        \* where the completion handler is
    refill,     \* where aicwf_usb_rx_submit_all_urb is, for each caller
    tpc, frame, \* where the receive thread is, and what it handles
    leaks,      \* frames the thread gave up without counting them
    misses,     \* URBs not resubmitted and refills broken off, in a row
    corrupt,    \* freed memory was used
    fails, suspends

queueVars == <<rxq, rx_cnt, leaks>>
wakeVars == <<trgg, all>>
deinitVars == <<wait, atom, sem>>
urbVars == <<flight, free, misses>>
threadVars == <<tpc, frame>>
busVars == <<aggr, state, pm, teardown, hw, suspends, deinitVars>>
vars == <<busVars, urbVars, queueVars, wakeVars, cpc, refill, threadVars, corrupt,
          fails>>

TypeOK ==
    /\ aggr \in BOOLEAN /\ state \in {"UP", "SLEEP", "DOWN"}
    /\ pm \in {"on", "stopping", "off", "prepare"}
    /\ teardown \in {"no", "zero", "down", "bus", "cancel", "platform", "stop", "join", "freed"}
    /\ wait \in BOOLEAN /\ atom \in 0..1 /\ sem \in 0..(MaxSuspends + 3)
    /\ hw \in BOOLEAN
    /\ flight \in 0..RX_URBS /\ free \in 0..RX_URBS /\ misses \in 0..RX_URBS
    /\ rxq \in Seq(Kinds) /\ Len(rxq) <= MAX_RXQLEN
    /\ rx_cnt \in Int /\ leaks \in 0..MaxFails
    /\ trgg \in 0..(MaxTrgg + 1) /\ all \in BOOLEAN
    /\ cpc \in {"idle", "inc", "test", "put", "check", "zero", "down"}
    /\ refill \in [Refillers -> {"idle", "next", "submit"}]
    /\ tpc \in {"wait", "loop", "work", "dec", "gone"} /\ frame \in Kinds
    /\ corrupt \in BOOLEAN
    /\ fails \in 0..MaxFails /\ suspends \in 0..MaxSuspends

Init ==
    /\ aggr \in BOOLEAN /\ state = "UP" /\ pm = "on" /\ teardown = "no"
    /\ hw = TRUE /\ suspends = 0 /\ wait = FALSE /\ atom = 1 /\ sem = 1
    /\ flight = RX_URBS /\ free = 0 /\ misses = 0
    /\ rxq = <<>> /\ rx_cnt = 0 /\ leaks = 0 /\ trgg = 0 /\ all = FALSE
    /\ cpc = "idle" /\ refill = [r \in Refillers |-> "idle"]
    /\ tpc = "wait" /\ frame = "data"
    /\ corrupt = FALSE /\ fails = 0

-----------------------------------------------------------------------------
(* The completion handler: aicwf_usb_rx_complete *)

HandlerIdle == cpc = "idle" /\ refill["handler"] = "idle"

Missed == misses' = IF misses < RX_URBS THEN misses + 1 ELSE misses

(* A frame arrives with the bus up and is queued, or dropped when the queue *)
(* is full.                                                                 *)
RxEnqueue(k) ==
    /\ HandlerIdle /\ flight > 0 /\ state = "UP" /\ trgg <= MaxTrgg
    /\ flight' = flight - 1
    /\ IF Len(rxq) < MAX_RXQLEN
       THEN rxq' = Append(rxq, k) /\ cpc' = "inc"
       ELSE cpc' = "put" /\ UNCHANGED rxq
    /\ UNCHANGED <<busVars, free, misses, rx_cnt, leaks, wakeVars, refill,
                   threadVars, corrupt, fails>>

(* A transfer of length zero *)
RxEmpty ==
    /\ HandlerIdle /\ flight > 0
    /\ flight' = flight - 1
    /\ cpc' = "put"
    /\ UNCHANGED <<busVars, free, misses, queueVars, wakeVars, refill, threadVars,
                   corrupt, fails>>

(* The bus is not up: the URB is not submitted again. *)
RxNotUp ==
    /\ HandlerIdle /\ flight > 0 /\ state # "UP"
    /\ flight' = flight - 1 /\ free' = free + 1
    /\ Missed
    /\ UNCHANGED <<busVars, queueVars, wakeVars, cpc, refill, threadVars, corrupt,
                   fails>>

(* A negative status: the URB is not submitted again, and, the first time, *)
(* a disconnect is expected.                                               *)
Expect ==
    /\ flight' = flight - 1 /\ free' = free + 1
    /\ Missed
    /\ wait' = TRUE
    /\ cpc' = IF wait THEN "idle" ELSE "check"
    /\ UNCHANGED <<aggr, state, pm, teardown, hw, suspends, atom, sem, queueVars,
                   wakeVars, refill, threadVars, corrupt>>

RxError ==
    /\ HandlerIdle /\ flight > 0 /\ fails < MaxFails
    /\ fails' = fails + 1
    /\ Expect

(* A disconnect kills the URBs, and the USB core those of a sleeping device. *)
RxKilled ==
    /\ HandlerIdle /\ flight > 0 /\ (teardown = "cancel" \/ pm = "off")
    /\ Expect /\ UNCHANGED fails

(* The handler takes the semaphore for the disconnect, which then does not, *)
(* unless one has announced itself in aicwf_deinit_atomic.                  *)
WaitCheck ==
    /\ cpc = "check"
    /\ wait' = (atom > 0)
    /\ cpc' = IF atom > 0 THEN "zero" ELSE "idle"
    /\ UNCHANGED <<aggr, state, pm, teardown, hw, suspends, atom, sem, urbVars,
                   queueVars, wakeVars, refill, threadVars, corrupt, fails>>

WaitZero ==
    /\ cpc = "zero"
    /\ atom' = 0
    /\ cpc' = "down"
    /\ UNCHANGED <<aggr, state, pm, teardown, hw, suspends, wait, sem, urbVars,
                   queueVars, wakeVars, refill, threadVars, corrupt, fails>>

WaitDown ==
    /\ cpc = "down" /\ sem > 0
    /\ sem' = sem - 1
    /\ cpc' = "idle"
    /\ UNCHANGED <<aggr, state, pm, teardown, hw, suspends, wait, atom, urbVars,
                   queueVars, wakeVars, refill, threadVars, corrupt, fails>>

RxCount ==
    /\ cpc = "inc"
    /\ rx_cnt' = rx_cnt + 1
    /\ cpc' = "test"
    /\ UNCHANGED <<busVars, urbVars, rxq, leaks, wakeVars, refill, threadVars,
                   corrupt, fails>>

\* Mutant: the counter is compared with its value before the count.
RxWakeBefore ==
    /\ cpc = "test"
    /\ trgg' = IF rx_cnt = 0 THEN trgg + 1 ELSE trgg
    /\ cpc' = "put"
    /\ UNCHANGED <<busVars, urbVars, queueVars, all, refill, threadVars, corrupt,
                   fails>>

(* The first frame counted wakes the thread. *)
RxWake ==
    /\ cpc = "test"
    /\ trgg' = IF rx_cnt = 1 THEN trgg + 1 ELSE trgg
    /\ cpc' = "put"
    /\ UNCHANGED <<busVars, urbVars, queueVars, all, refill, threadVars, corrupt,
                   fails>>

RxPut ==
    /\ cpc = "put"
    /\ free' = free + 1
    /\ cpc' = "idle" /\ refill' = [refill EXCEPT !["handler"] = "next"]
    /\ UNCHANGED <<busVars, flight, misses, queueVars, wakeVars, threadVars,
                   corrupt, fails>>

-----------------------------------------------------------------------------
(* aicwf_usb_rx_submit_all_urb, by the handler and by a resume: a free      *)
(* buffer is taken and its URB submitted until none is left, or the bus is  *)
(* not up, or an allocation or a submission fails.                          *)

RefillTake(r) ==
    /\ refill[r] = "next" /\ free > 0
    /\ free' = free - 1
    /\ refill' = [refill EXCEPT ![r] = "submit"]
    /\ UNCHANGED <<busVars, flight, misses, queueVars, wakeVars, cpc, threadVars,
                   corrupt, fails>>

RefillDone(r) ==
    /\ refill[r] = "next" /\ free = 0
    /\ misses' = 0
    /\ refill' = [refill EXCEPT ![r] = "idle"]
    /\ UNCHANGED <<busVars, flight, free, queueVars, wakeVars, cpc, threadVars,
                   corrupt, fails>>

\* Mutant: one URB for one completion.
RefillSubmitOne(r) ==
    /\ refill[r] = "submit" /\ state = "UP"
    /\ flight' = flight + 1 /\ misses' = 0
    /\ refill' = [refill EXCEPT ![r] = "idle"]
    /\ UNCHANGED <<busVars, free, queueVars, wakeVars, cpc, threadVars, corrupt,
                   fails>>

RefillSubmit(r) ==
    /\ refill[r] = "submit" /\ state = "UP"
    /\ flight' = flight + 1
    /\ refill' = [refill EXCEPT ![r] = "next"]
    /\ UNCHANGED <<busVars, free, misses, queueVars, wakeVars, cpc, threadVars,
                   corrupt, fails>>

RefillFails(r) ==
    /\ refill[r] = "submit"
    /\ \/ state # "UP" /\ UNCHANGED fails
       \/ fails < MaxFails /\ fails' = fails + 1
    /\ free' = free + 1
    /\ Missed
    /\ refill' = [refill EXCEPT ![r] = "idle"]
    /\ UNCHANGED <<busVars, flight, queueVars, wakeVars, cpc, threadVars, corrupt>>

-----------------------------------------------------------------------------
(* The receive thread: usb_busrx_thread and aicwf_process_rxframes *)

RxThreadWake ==
    /\ tpc = "wait" /\ (trgg > 0 \/ all)
    /\ trgg' = IF all THEN trgg ELSE trgg - 1
    /\ tpc' = IF state = "DOWN" THEN "gone" ELSE "loop"
    /\ UNCHANGED <<busVars, urbVars, queueVars, all, cpc, refill, frame, corrupt,
                   fails>>

RxThreadDone ==
    /\ tpc = "loop" /\ rxq = <<>>
    /\ tpc' = "wait"
    /\ UNCHANGED <<busVars, urbVars, queueVars, wakeVars, cpc, refill, frame,
                   corrupt, fails>>

RxThreadTake ==
    /\ tpc = "loop" /\ rxq # <<>>
    /\ frame' = Head(rxq) /\ rxq' = Tail(rxq)
    /\ tpc' = "work"
    /\ UNCHANGED <<busVars, urbVars, rx_cnt, leaks, wakeVars, cpc, refill, corrupt,
                   fails>>

(* Data and confirmations use rwnx_hw, a command response is ignored once   *)
(* the bus is down; a packet too long is dropped, and in an aggregated      *)
(* buffer the loop goes on with the buffer it has released.                 *)
RxHandle ==
    /\ tpc = "work"
    /\ \E response \in BOOLEAN :
         /\ response => frame = "message"
         /\ corrupt' = \/ corrupt
                       \/ ~hw /\ frame # "big" /\ ~(response /\ state = "DOWN")
                       \/ aggr /\ frame = "big"
    /\ tpc' = "dec" /\ frame' = "data"
    /\ UNCHANGED <<busVars, urbVars, queueVars, wakeVars, cpc, refill, fails>>

(* No memory for a message: the thread leaves its loop, the frame stays     *)
(* counted.                                                                 *)
RxNoMemory ==
    /\ tpc = "work" /\ frame = "message" /\ fails < MaxFails
    /\ fails' = fails + 1 /\ leaks' = leaks + 1
    /\ tpc' = "wait" /\ frame' = "data"
    /\ UNCHANGED <<busVars, urbVars, rxq, rx_cnt, wakeVars, cpc, refill, corrupt>>

RxThreadDec ==
    /\ tpc = "dec"
    /\ rx_cnt' = rx_cnt - 1
    /\ tpc' = "loop"
    /\ UNCHANGED <<busVars, urbVars, rxq, leaks, wakeVars, cpc, refill, frame,
                   corrupt, fails>>

-----------------------------------------------------------------------------
(* aicwf_usb_suspend and aicwf_usb_resume *)

(* aicwf_usb_bus_stop: a handler that expects a disconnect took the semaphore *)
(* or is about to, so it is released here already.                            *)
BusStop ==
    /\ state' = "DOWN"
    /\ UNCHANGED wait
    /\ IF wait /\ state # "DOWN" THEN atom' = 1 /\ sem' = sem + 1
                                 ELSE UNCHANGED <<atom, sem>>

Suspend ==
    /\ pm = "on" /\ teardown = "no" /\ suspends < MaxSuspends
    /\ suspends' = suspends + 1
    /\ state' = "SLEEP" /\ pm' = "stopping"
    /\ UNCHANGED <<aggr, teardown, hw, deinitVars, urbVars, queueVars, wakeVars, cpc, refill,
                   threadVars, corrupt, fails>>

SuspendStop ==
    /\ pm = "stopping"
    /\ BusStop /\ pm' = "off"
    /\ UNCHANGED <<aggr, teardown, hw, suspends, urbVars, queueVars, wakeVars,
                   cpc, refill, threadVars, corrupt, fails>>

(* aicwf_usb_bus_start: up again, and every free buffer is submitted *)
Resume ==
    /\ pm = "off" /\ teardown = "no"
    /\ state' = "UP" /\ pm' = "prepare"
    /\ refill' = [refill EXCEPT !["resume"] = "next"]
    /\ UNCHANGED <<aggr, teardown, hw, suspends, deinitVars, urbVars, queueVars, wakeVars,
                   cpc, threadVars, corrupt, fails>>

ResumeDone ==
    /\ pm = "prepare" /\ refill["resume"] = "idle"
    /\ pm' = "on"
    /\ UNCHANGED <<aggr, state, teardown, hw, suspends, deinitVars, urbVars, queueVars,
                   wakeVars, cpc, refill, threadVars, corrupt, fails>>

-----------------------------------------------------------------------------
(* aicwf_usb_disconnect: aicwf_bus_deinit and aicwf_rx_deinit *)

(* The semaphore is taken, unless the handler took it. *)
Disconnect ==
    /\ teardown = "no" /\ pm \in {"on", "off"}
    /\ teardown' = IF wait THEN "bus" ELSE "zero"
    /\ UNCHANGED <<aggr, state, pm, hw, suspends, deinitVars, urbVars, queueVars,
                   wakeVars, cpc, refill, threadVars, corrupt, fails>>

DisconnectZero ==
    /\ teardown = "zero"
    /\ atom' = 0
    /\ teardown' = "down"
    /\ UNCHANGED <<aggr, state, pm, hw, suspends, wait, sem, urbVars, queueVars,
                   wakeVars, cpc, refill, threadVars, corrupt, fails>>

DisconnectDown ==
    /\ teardown = "down" /\ sem > 0
    /\ sem' = sem - 1
    /\ teardown' = "bus"
    /\ UNCHANGED <<aggr, state, pm, hw, suspends, wait, atom, urbVars, queueVars,
                   wakeVars, cpc, refill, threadVars, corrupt, fails>>

DisconnectStop ==
    /\ teardown = "bus"
    /\ BusStop /\ teardown' = "cancel"
    /\ UNCHANGED <<aggr, pm, hw, suspends, urbVars, queueVars, wakeVars, cpc,
                   refill, threadVars, corrupt, fails>>

(* usb_kill_anchored_urbs waits for the handlers and kills what they submit *)
CancelUrbs ==
    /\ teardown = "cancel" /\ HandlerIdle /\ flight = 0
    /\ teardown' = "platform"
    /\ UNCHANGED <<aggr, state, pm, hw, suspends, deinitVars, urbVars, queueVars,
                   wakeVars, cpc, refill, threadVars, corrupt, fails>>

(* rwnx_platform_deinit releases rwnx_hw; the receive thread still runs. *)
PlatformDeinit ==
    /\ teardown = "platform"
    /\ hw' = FALSE
    /\ teardown' = "stop"
    /\ UNCHANGED <<aggr, state, pm, suspends, deinitVars, urbVars, queueVars, wakeVars, cpc,
                   refill, threadVars, corrupt, fails>>

\* Mutant: the thread is stopped and not woken.
StopThreadSilent ==
    /\ teardown = "stop"
    /\ teardown' = "join"
    /\ UNCHANGED <<aggr, state, pm, hw, suspends, deinitVars, urbVars, queueVars, wakeVars,
                   cpc, refill, threadVars, corrupt, fails>>

(* complete_all, then kthread_stop, which returns when the thread does *)
StopThread ==
    /\ teardown = "stop"
    /\ all' = TRUE
    /\ teardown' = "join"
    /\ UNCHANGED <<aggr, state, pm, hw, suspends, deinitVars, urbVars, queueVars, trgg, cpc,
                   refill, threadVars, corrupt, fails>>

RxDeinit ==
    /\ teardown = "join" /\ tpc = "gone"
    /\ rxq' = <<>>
    /\ teardown' = "freed"
    /\ sem' = sem + 1 /\ atom' = 1
    /\ UNCHANGED <<aggr, state, pm, hw, suspends, wait, urbVars, rx_cnt, leaks,
                   wakeVars, cpc, refill, threadVars, corrupt, fails>>

-----------------------------------------------------------------------------
Handler ==
    \/ RxCount \/ RxWake \/ RxPut \/ WaitCheck \/ WaitZero \/ WaitDown

Refill(r) == RefillTake(r) \/ RefillDone(r) \/ RefillSubmit(r) \/ RefillFails(r)

RxThread ==
    \/ RxThreadWake \/ RxThreadDone \/ RxThreadTake \/ RxHandle \/ RxThreadDec

Teardown ==
    \/ DisconnectZero \/ DisconnectDown \/ DisconnectStop
    \/ (teardown = "cancel" /\ RxKilled)
    \/ CancelUrbs \/ PlatformDeinit \/ StopThread \/ RxDeinit

(* Nothing is defined once freed memory was used, and nothing is left to do *)
(* once the driver's part is freed.                                         *)
Step ==
    \/ \E k \in Kinds : RxEnqueue(k)
    \/ RxEmpty
    \/ RxNotUp
    \/ RxError
    \/ RxKilled
    \/ WaitCheck
    \/ WaitZero
    \/ WaitDown
    \/ RxCount
    \/ RxWake
    \/ RxPut
    \/ \E r \in Refillers : RefillTake(r)
    \/ \E r \in Refillers : RefillDone(r)
    \/ \E r \in Refillers : RefillSubmit(r)
    \/ \E r \in Refillers : RefillFails(r)
    \/ RxThreadWake
    \/ RxThreadDone
    \/ RxThreadTake
    \/ RxHandle
    \/ RxNoMemory
    \/ RxThreadDec
    \/ Suspend
    \/ SuspendStop
    \/ Resume
    \/ ResumeDone
    \/ Disconnect
    \/ DisconnectZero
    \/ DisconnectDown
    \/ DisconnectStop
    \/ CancelUrbs
    \/ PlatformDeinit
    \/ StopThread
    \/ RxDeinit

Next == ~corrupt /\ teardown # "freed" /\ Step

Spec == Init /\ [][Next]_vars

\* A handler returns, the kernel runs the woken thread, a resume and a
\* disconnect go on.  Nothing is bound to arrive or to fail.
Fairness ==
    /\ WF_vars(Handler) /\ \A r \in Refillers : WF_vars(Refill(r))
    /\ WF_vars(RxThread) /\ WF_vars(ResumeDone) /\ WF_vars(Teardown)

FairSpec == Spec /\ Fairness

-----------------------------------------------------------------------------
(* Properties *)

One(b) == IF b THEN 1 ELSE 0

(* Every receive buffer is at the endpoint, on the free list, or in the     *)
(* hands of the handler or of a refill.                                     *)
UrbsAccounted ==
    flight + free + One(cpc \in {"inc", "test", "put"}) + One(refill["handler"] = "submit")
        + One(refill["resume"] = "submit") = RX_URBS

(* rx_cnt counts the frames queued and the one handled, but for a frame the *)
(* handler has queued and not counted, and for those the thread gave up     *)
(* when it had no memory: these stay counted for ever.                      *)
CountAgrees ==
    teardown # "freed" =>
      rx_cnt = Len(rxq) + One(tpc \in {"work", "dec"}) - One(cpc = "inc") + leaks

(* No frame waits for a wake-up that nobody gives.  With frames queued and  *)
(* the thread asleep, busrx_trgg is signalled, or the handler has yet to    *)
(* see the count of one; until a failed allocation has spoilt the count.    *)
FramesHaveWaker ==
    rxq # <<>> /\ tpc = "wait" /\ leaks = 0 /\ teardown # "freed" =>
        trgg > 0 \/ all \/ cpc = "inc" \/ (cpc = "test" /\ rx_cnt = 1)

(* Reception goes on after transient failures: with the bus up and nobody   *)
(* refilling, a buffer rests on the free list only for an URB that failed   *)
(* or a refill broken off since a refill last succeeded.  So RX_URBS        *)
(* failures in a row are needed to silence the device.                      *)
RefillCatchesUp ==
    state = "UP" /\ pm = "on" /\ HandlerIdle => free <= misses

(* Once the receive side is freed nobody can touch it: no URB at the        *)
(* endpoint, no handler, no thread, and no frame left behind.               *)
DeinitQuiet ==
    teardown = "freed" => flight = 0 /\ HandlerIdle /\ tpc = "gone" /\ rxq = <<>>

(* What holds of buffers, counts and wake-ups in every state, whatever      *)
(* failed, up to the end of the teardown.                                   *)
UsbRxInv ==
    /\ TypeOK /\ UrbsAccounted /\ CountAgrees /\ FramesHaveWaker
    /\ RefillCatchesUp /\ DeinitQuiet

(* A queued frame is taken up, unless an allocation failed or the bus went  *)
(* down.                                                                    *)
FramesTaken ==
    rxq # <<>> ~> tpc \in {"work", "gone"} \/ leaks > 0 \/ corrupt

(* A disconnect read wait_disconnect_cb before the handler of a failed URB  *)
(* set it: both take the semaphore and the later one waits for ever, the    *)
(* disconnect itself, or the handler that the disconnect waits for.         *)
BothTook ==
    sem = 0 /\ \/ teardown = "down" /\ wait
               \/ teardown = "cancel" /\ cpc = "down"

(* A disconnect ends, whatever the thread and the handler were doing, but   *)
(* when both took the semaphore: that is the only way it hangs.             *)
DisconnectEnds == teardown # "no" ~> teardown = "freed" \/ corrupt \/ BothTook
=============================================================================
