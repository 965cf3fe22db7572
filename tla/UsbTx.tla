-------------------------------- MODULE UsbTx --------------------------------
(***************************************************************************)
(* USB data transmission of the AIC8800 FullMAC driver: the transmit       *)
(* buffers of aicwf_usb.c with their free list, post list and bulk-out     *)
(* queue, the thread that submits them, flow control by water marks, and   *)
(* the ring of usb_host.c in which frames await their confirmation.        *)
(*                                                                         *)
(* rwnx_tx_push runs under tx_lock, so there is one sender at a time; it,  *)
(* the bustx thread, the completions of the USB core (one at a time for an *)
(* endpoint), the receive thread's confirmations and a system suspend run  *)
(* concurrently.  A step is one critical section or one unlocked access.   *)
(***************************************************************************)
EXTENDS Integers, FiniteSets, SequencesExt

CONSTANTS
    TX_URBS,        \* AICWF_USB_TX_URBS
    TXDESC_CNT,     \* USB_TXDESC_CNT
    Plain,          \* a frame whose confirmation nobody asked for
    CfmSkbs,        \* socket buffers of frames that need a confirmation
    None,           \* an empty slot of the ring
    MaxTrgg,        \* bound on the completions bustx_trgg counts
    MaxFails,       \* bound on refused submissions
    MaxSuspends     \* bound on suspends

LOW_WATER == TX_URBS \div 4
HIGH_WATER == 3 * LOW_WATER

ASSUME UsbTxAssumption ==
    /\ TX_URBS \in Nat \ {0} /\ TXDESC_CNT \in Nat \ {0}
    /\ MaxTrgg \in Nat /\ MaxFails \in Nat /\ MaxSuspends \in Nat
    /\ Plain \notin CfmSkbs /\ None \notin CfmSkbs

Frames == CfmSkbs \cup {Plain}
SlotIds == 0..(TXDESC_CNT - 1)

VARIABLES
    state,      \* usb_dev->state; bus_if->state is down exactly with DOWN
    pm,         \* how far a suspend or a resume is
    free,       \* tx_free_count, the length of tx_free_list
    post,       \* the frames of tx_post_list
    flight,     \* how many URBs are submitted and not completed
    tbusy,      \* usb_dev->tbusy
    stopped,    \* the netdev queues are stopped
    check,      \* a completion has put its buffer back, not looked at tbusy
    unchecked,  \* buffers put back by a path that never looks at tbusy, since
                \* a completion looked last (TX_URBS for that many or more)
    deaf,       \* the queues were stopped by a sender that found the bus down
    trgg,       \* bustx_trgg.done
    spc, sframe,    \* where the sender is, and its frame
    tpc, tframe,    \* where the bustx thread is, and its frame
    ring,       \* tx_host_id
    slot,       \* txdesc_free_idx modulo TXDESC_CNT
    live,       \* the frames of CfmSkbs whose socket buffer is not released
    owed,       \* the confirmations the firmware has yet to give
    overrun,    \* TXDESC_CNT frames were pushed after one not confirmed yet
    corrupt,    \* memory was released twice, while in use, or by a call it
                \* was not allocated for
    fails, suspends

flowVars == <<tbusy, stopped, check, unchecked, deaf>>
senderVars == <<spc, sframe>>
threadVars == <<tpc, tframe>>
ringVars == <<ring, slot, live, owed, overrun>>
busVars == <<state, pm, suspends>>
vars == <<busVars, free, post, flight, flowVars, trgg, senderVars, threadVars,
          ringVars, corrupt, fails>>

(* A confirmation owed: the frame, the slot the firmware will name, and how *)
(* many frames were pushed after it (TXDESC_CNT for that many or more).     *)
Owed == [skb : CfmSkbs, slot : SlotIds, later : 0..TXDESC_CNT]

TypeOK ==
    /\ state \in {"UP", "SLEEP", "DOWN"}
    /\ pm \in {"on", "stopping", "off", "prepare"}
    /\ free \in 0..TX_URBS
    /\ post \in Seq(Frames) /\ flight \in 0..TX_URBS
    /\ tbusy \in BOOLEAN /\ stopped \in BOOLEAN /\ check \in BOOLEAN
    /\ unchecked \in 0..TX_URBS /\ deaf \in BOOLEAN
    /\ trgg \in 0..(MaxTrgg + 1)
    /\ spc \in {"idle", "down", "take", "fill", "trigger", "flow"}
    /\ sframe \in Frames
    /\ tpc \in {"wait", "loop", "submit", "gone"} /\ tframe \in Frames
    /\ ring \in [SlotIds -> CfmSkbs \cup {None}] /\ slot \in SlotIds
    /\ live \in SUBSET CfmSkbs /\ owed \in SUBSET Owed
    /\ overrun \in BOOLEAN /\ corrupt \in BOOLEAN
    /\ fails \in 0..MaxFails /\ suspends \in 0..MaxSuspends

Init ==
    /\ state = "UP" /\ pm = "on" /\ suspends = 0
    /\ free = TX_URBS /\ post = <<>> /\ flight = 0
    /\ tbusy = FALSE /\ stopped = FALSE /\ check = FALSE
    /\ unchecked = 0 /\ deaf = FALSE /\ trgg = 0
    /\ spc = "idle" /\ sframe = Plain /\ tpc = "wait" /\ tframe = Plain
    /\ ring = [i \in SlotIds |-> None] /\ slot = 0
    /\ live = {} /\ owed = {} /\ overrun = FALSE /\ corrupt = FALSE /\ fails = 0

-----------------------------------------------------------------------------
(* The ring of frames to be confirmed *)

Dangling == { ring[i] : i \in SlotIds } \ {None}

Age(o) == [o EXCEPT !.later = IF o.later < TXDESC_CNT THEN o.later + 1 ELSE TXDESC_CNT]

\* Mutant: the index is advanced before the frame is stored.
TxdescPushAfter(f) ==
    /\ ring' = [ring EXCEPT ![(slot + 1) % TXDESC_CNT] = f]
    /\ slot' = (slot + 1) % TXDESC_CNT
    /\ live' = live \cup {f}
    /\ owed' = { Age(o) : o \in owed } \cup {[skb |-> f, slot |-> slot, later |-> 0]}
    /\ overrun' = (overrun \/ \E o \in owed : o.later >= TXDESC_CNT - 1)

(* aicwf_usb_host_txdesc_push *)
TxdescPush(f) ==
    /\ ring' = [ring EXCEPT ![slot] = f]
    /\ slot' = (slot + 1) % TXDESC_CNT
    /\ live' = live \cup {f}
    /\ owed' = { Age(o) : o \in owed } \cup {[skb |-> f, slot |-> slot, later |-> 0]}
    /\ overrun' = (overrun \/ \E o \in owed : o.later >= TXDESC_CNT - 1)

(* A frame that will not be sent is released; its slot is not. *)
Dropped(f) ==
    /\ live' = live \ {f}
    /\ owed' = { o \in owed : o.skb # f }
    /\ UNCHANGED <<ring, slot, overrun>>

-----------------------------------------------------------------------------
(* The sender: rwnx_tx_push, aicwf_frame_tx, aicwf_usb_bus_txdata *)

(* A frame that needs a confirmation enters the ring, under a socket buffer *)
(* that is not in use; the state is looked at a first time.                 *)
TxPush(f) ==
    /\ spc = "idle" /\ trgg < MaxTrgg
    /\ \/ f = Plain /\ UNCHANGED ringVars
       \/ /\ f \in CfmSkbs \ (live \cup Dangling \cup { o.skb : o \in owed })
          /\ TxdescPush(f)
    /\ sframe' = f
    /\ spc' = IF state = "DOWN" THEN "down" ELSE "take"
    /\ UNCHANGED <<busVars, free, post, flight, flowVars, trgg, threadVars,
                   corrupt, fails>>

(* The bus is down: the queues are stopped and tbusy is not set. *)
TxDown ==
    /\ spc = "down"
    /\ stopped' = (stopped \/ ~tbusy)
    /\ deaf' = (deaf \/ ~tbusy)
    /\ Dropped(sframe)
    /\ spc' = "idle" /\ sframe' = Plain
    /\ UNCHANGED <<busVars, free, post, flight, tbusy, check, unchecked, trgg,
                   threadVars, corrupt, fails>>

(* The bus is no longer up: the frame is released, without flow control. *)
TxNotUp ==
    /\ spc = "take" /\ state # "UP"
    /\ Dropped(sframe)
    /\ spc' = "idle" /\ sframe' = Plain
    /\ UNCHANGED <<busVars, free, post, flight, flowVars, trgg, threadVars,
                   corrupt, fails>>

(* No buffer is free: the frame is released and flow control looks. *)
TxNoBuf ==
    /\ spc = "take" /\ state = "UP" /\ free = 0
    /\ Dropped(sframe)
    /\ spc' = "flow" /\ sframe' = Plain
    /\ UNCHANGED <<busVars, free, post, flight, flowVars, trgg, threadVars,
                   corrupt, fails>>

TxTake ==
    /\ spc = "take" /\ state = "UP" /\ free > 0
    /\ free' = free - 1
    /\ spc' = "fill"
    /\ UNCHANGED <<busVars, post, flight, flowVars, trgg, sframe, threadVars,
                   ringVars, corrupt, fails>>

TxPost ==
    /\ spc = "fill"
    /\ post' = Append(post, sframe)
    /\ spc' = "trigger" /\ sframe' = Plain
    /\ UNCHANGED <<busVars, free, flight, flowVars, trgg, threadVars, ringVars,
                   corrupt, fails>>

TxTrigger ==
    /\ spc = "trigger"
    /\ trgg' = trgg + 1
    /\ spc' = "flow"
    /\ UNCHANGED <<busVars, free, post, flight, flowVars, sframe, threadVars,
                   ringVars, corrupt, fails>>

(* Under tx_flow_lock: too few buffers stop the queues. *)
TxFlow ==
    /\ spc = "flow"
    /\ IF free < LOW_WATER
       THEN tbusy' = TRUE /\ stopped' = TRUE
       ELSE UNCHANGED <<tbusy, stopped>>
    /\ spc' = "idle"
    /\ UNCHANGED <<busVars, free, post, flight, check, unchecked, deaf, trgg,
                   sframe, threadVars, ringVars, corrupt, fails>>

-----------------------------------------------------------------------------
(* A buffer goes back to the free list where nobody looks at tbusy. *)
PutUnchecked ==
    /\ free' = free + 1
    /\ unchecked' = IF unchecked < TX_URBS THEN unchecked + 1 ELSE unchecked

(* The bustx thread: usb_bustx_thread and aicwf_usb_tx_process *)

ThreadWake ==
    /\ tpc = "wait" /\ trgg > 0
    /\ trgg' = trgg - 1
    /\ tpc' = CASE state = "DOWN" -> "gone"
                [] state # "DOWN" /\ post # <<>> -> "loop"
                [] OTHER -> "wait"
    /\ UNCHANGED <<busVars, free, post, flight, flowVars, senderVars, tframe,
                   ringVars, corrupt, fails>>

\* Mutant: one frame for each wake-up.
ThreadDoneEarly ==
    /\ tpc = "loop"
    /\ tpc' = "wait"
    /\ UNCHANGED <<busVars, free, post, flight, flowVars, trgg, senderVars,
                   tframe, ringVars, corrupt, fails>>

(* The post list is empty, or the bus is not up and what it holds stays. *)
ThreadDone ==
    /\ tpc = "loop" /\ (post = <<>> \/ state # "UP")
    /\ tpc' = "wait"
    /\ UNCHANGED <<busVars, free, post, flight, flowVars, trgg, senderVars,
                   tframe, ringVars, corrupt, fails>>

ThreadTake ==
    /\ tpc = "loop" /\ post # <<>> /\ state = "UP"
    /\ tframe' = Head(post) /\ post' = Tail(post)
    /\ tpc' = "submit"
    /\ UNCHANGED <<busVars, free, flight, flowVars, trgg, senderVars, ringVars,
                   corrupt, fails>>

SubmitUrb ==
    /\ tpc = "submit"
    /\ flight' = flight + 1
    /\ tpc' = "loop" /\ tframe' = Plain
    /\ UNCHANGED <<busVars, free, post, flowVars, trgg, senderVars, ringVars,
                   corrupt, fails>>

\* Mutant: the buffer of a refused URB is forgotten.
SubmitFailsLoses ==
    /\ tpc = "submit" /\ fails < MaxFails
    /\ fails' = fails + 1
    /\ corrupt' = (corrupt \/ tframe # Plain)
    /\ owed' = { o \in owed : o.skb # tframe }
    /\ tpc' = "loop" /\ tframe' = Plain
    /\ UNCHANGED <<busVars, free, post, flight, flowVars, trgg, senderVars, ring,
                   slot, live, overrun>>

(* The buffer of a refused URB goes back without a look at tbusy; what it   *)
(* holds is released as a socket buffer, which a frame to be confirmed is   *)
(* not: it was copied into memory of kmalloc.                               *)
SubmitFails ==
    /\ tpc = "submit" /\ fails < MaxFails
    /\ fails' = fails + 1
    /\ PutUnchecked
    /\ corrupt' = (corrupt \/ tframe # Plain)
    /\ owed' = { o \in owed : o.skb # tframe }
    /\ tpc' = "loop" /\ tframe' = Plain
    /\ UNCHANGED <<busVars, post, flight, tbusy, stopped, check, deaf, trgg,
                   senderVars, ring, slot, live, overrun>>

-----------------------------------------------------------------------------
(* The USB core and the firmware *)

(* aicwf_usb_tx_complete, up to the return of the buffer *)
TxComplete ==
    /\ flight > 0 /\ ~check
    /\ flight' = flight - 1
    /\ free' = free + 1
    /\ check' = TRUE
    /\ UNCHANGED <<busVars, post, tbusy, stopped, unchecked, deaf, trgg,
                   senderVars, threadVars, ringVars, corrupt, fails>>

\* Mutant: woken one buffer too late.
TxCompleteFlowLate ==
    /\ check /\ check' = FALSE /\ unchecked' = 0
    /\ IF free > HIGH_WATER + 1 /\ tbusy
       THEN tbusy' = FALSE /\ stopped' = FALSE /\ deaf' = FALSE
       ELSE UNCHANGED <<tbusy, stopped, deaf>>
    /\ UNCHANGED <<busVars, free, post, flight, trgg, senderVars, threadVars,
                   ringVars, corrupt, fails>>

\* Mutant: the flag is lowered by every completion, the queues are woken only
\* above the high-water mark.
TxCompleteFlowLowers ==
    /\ check /\ check' = FALSE /\ unchecked' = 0
    /\ tbusy' = FALSE
    /\ IF free > HIGH_WATER /\ tbusy
       THEN stopped' = FALSE /\ deaf' = FALSE
       ELSE UNCHANGED <<stopped, deaf>>
    /\ UNCHANGED <<busVars, free, post, flight, trgg, senderVars, threadVars,
                   ringVars, corrupt, fails>>

(* and under tx_flow_lock *)
TxCompleteFlow ==
    /\ check /\ check' = FALSE /\ unchecked' = 0
    /\ IF free > HIGH_WATER /\ tbusy
       THEN tbusy' = FALSE /\ stopped' = FALSE /\ deaf' = FALSE
       ELSE UNCHANGED <<tbusy, stopped, deaf>>
    /\ UNCHANGED <<busVars, free, post, flight, trgg, senderVars, threadVars,
                   ringVars, corrupt, fails>>

(* A frame the firmware has had, or may have had: it is in no hand here. *)
Sent(f) ==
    /\ f \notin ToSet(post)
    /\ ~(spc # "idle" /\ sframe = f) /\ ~(tpc = "submit" /\ tframe = f)

(* aicwf_usb_host_tx_cfm_handler and rwnx_txdatacfm: the frame found in the *)
(* slot the firmware names is released, or given to a retry.  That is a use *)
(* of freed memory when the slot was not emptied for a dropped frame.       *)
TxCfm(o) ==
    /\ o \in owed /\ Sent(o.skb)
    /\ owed' = owed \ {o}
    /\ ring' = [ring EXCEPT ![o.slot] = None]
    /\ live' = live \ {ring[o.slot]}
    /\ corrupt' = (corrupt \/ /\ ring[o.slot] # None
                              /\ \/ ring[o.slot] \notin live
                                 \/ spc # "idle" /\ sframe = ring[o.slot])
    /\ UNCHANGED <<busVars, free, post, flight, flowVars, trgg, senderVars,
                   threadVars, slot, overrun, fails>>

(* A confirmation with an empty status: the slot gets its frame back, and   *)
(* nothing releases it.                                                     *)
TxCfmEmpty(o) ==
    /\ o \in owed /\ Sent(o.skb)
    /\ owed' = owed \ {o}
    /\ UNCHANGED <<busVars, free, post, flight, flowVars, trgg, senderVars,
                   threadVars, ring, slot, live, overrun, corrupt, fails>>

-----------------------------------------------------------------------------
(* aicwf_usb_suspend and aicwf_usb_resume *)

Suspend ==
    /\ pm = "on" /\ suspends < MaxSuspends
    /\ suspends' = suspends + 1
    /\ state' = "SLEEP" /\ pm' = "stopping"
    /\ UNCHANGED <<free, post, flight, flowVars, trgg, senderVars, threadVars,
                   ringVars, corrupt, fails>>

SuspendStop ==
    /\ pm = "stopping"
    /\ state' = "DOWN" /\ pm' = "off"
    /\ UNCHANGED <<suspends, free, post, flight, flowVars, trgg, senderVars,
                   threadVars, ringVars, corrupt, fails>>

Resume ==
    /\ pm = "off"
    /\ state' = "UP" /\ pm' = "prepare"
    /\ UNCHANGED <<suspends, free, post, flight, flowVars, trgg, senderVars,
                   threadVars, ringVars, corrupt, fails>>

(* aicwf_usb_tx_prepare: what waited on the post list is released *)
TxPrepare ==
    /\ pm = "prepare" /\ post # <<>>
    /\ post' = Tail(post)
    /\ PutUnchecked
    /\ corrupt' = (corrupt \/ Head(post) # Plain)
    /\ owed' = { o \in owed : o.skb # Head(post) }
    /\ UNCHANGED <<busVars, flight, tbusy, stopped, check, deaf, trgg,
                   senderVars, threadVars, ring, slot, live, overrun, fails>>

ResumeDone ==
    /\ pm = "prepare" /\ post = <<>>
    /\ pm' = "on"
    /\ UNCHANGED <<state, suspends, free, post, flight, flowVars, trgg,
                   senderVars, threadVars, ringVars, corrupt, fails>>

-----------------------------------------------------------------------------
Send ==
    \/ TxDown \/ TxNotUp \/ TxNoBuf \/ TxTake \/ TxPost \/ TxTrigger \/ TxFlow

Thread == ThreadWake \/ ThreadDone \/ ThreadTake \/ SubmitUrb

PowerManagement == SuspendStop \/ Resume \/ TxPrepare \/ ResumeDone

(* Nothing after a corrupted heap is defined. *)
Step ==
    \/ \E f \in Frames : TxPush(f)
    \/ TxDown
    \/ TxNotUp
    \/ TxNoBuf
    \/ TxTake
    \/ TxPost
    \/ TxTrigger
    \/ TxFlow
    \/ ThreadWake
    \/ ThreadDone
    \/ ThreadTake
    \/ SubmitUrb
    \/ SubmitFails
    \/ TxComplete
    \/ TxCompleteFlow
    \/ \E o \in owed : TxCfm(o)
    \/ \E o \in owed : TxCfmEmpty(o)
    \/ Suspend
    \/ SuspendStop
    \/ Resume
    \/ TxPrepare
    \/ ResumeDone

Next == ~corrupt /\ Step

Spec == Init /\ [][Next]_vars

\* The sender returns from its critical section, the kernel runs the woken
\* thread, the USB core completes every URB, a suspended system resumes.  The
\* firmware owes its confirmations nothing, and nobody is bound to send.
Fairness == WF_vars(Send) /\ WF_vars(Thread) /\ WF_vars(TxComplete)
            /\ WF_vars(TxCompleteFlow) /\ WF_vars(PowerManagement)

FairSpec == Spec /\ Fairness

-----------------------------------------------------------------------------
(* Properties *)

(* No buffer is lost or on two lists: what tx_free_count does not count is  *)
(* on the post list, at the endpoint, or in the hands of a sender or of the *)
(* thread.                                                                  *)
BuffersAccounted ==
    free + Len(post) + flight + (IF spc = "fill" THEN 1 ELSE 0)
        + (IF tpc = "submit" THEN 1 ELSE 0) = TX_URBS

(* The stop of the queues has somebody to lift it.  Stopped queues are so   *)
(* because of tbusy, or of a sender that found the bus down; and while      *)
(* tbusy stands and no completion is about to look at it, so few buffers    *)
(* are free that one at least is still to be completed: except for those    *)
(* that came back where nobody looks.                                       *)
StopHasWaker ==
    /\ stopped <=> tbusy \/ deaf
    /\ tbusy /\ ~check => free <= HIGH_WATER + unchecked

(* The frame a confirmation will find is the one confirmed, and not yet     *)
(* released, unless the ring went all round before the confirmation came:   *)
(* neither a dropped frame nor an empty confirmation shifts the slots       *)
(* against the firmware.                                                    *)
RingKeepsFrame ==
    overrun \/ \A o \in owed : ring[o.slot] = o.skb /\ o.skb \in live

(* Frames are released once, by the call that fits them and after their     *)
(* last use: nothing but an overrun of the ring, a refused submission or a  *)
(* resume that finds frames posted can break that.                          *)
MemorySound == corrupt => overrun \/ fails > 0 \/ suspends > 0

(* A posted frame has a wake-up to carry it: with the bus up and the thread *)
(* asleep, the post list is empty or bustx_trgg is signalled or about to    *)
(* be.  The frames a suspend left behind are the resume's.                  *)
PostedIsTriggered ==
    state = "UP" /\ pm = "on" /\ tpc = "wait" /\ post # <<>> =>
        trgg > 0 \/ spc = "trigger"

(* What holds of buffers and wake-ups in every state, whoever is between    *)
(* which two steps.                                                         *)
UsbTxInv == TypeOK /\ BuffersAccounted /\ PostedIsTriggered

(* A confirmation finds its frame, and nothing is released wrongly, up to   *)
(* the cases named.                                                         *)
RingSound == RingKeepsFrame /\ MemorySound

(* Stopped queues are woken again once the senders that do not heed the     *)
(* stop are silent, unless a submission failed or the bus went down.        *)
TrafficResumes ==
    stopped /\ spc = "idle" ~>
        ~stopped \/ spc # "idle" \/ fails > 0 \/ suspends > 0

(* The bus thread forgets nothing that is posted: it submits again.         *)
PostedIsSubmitted ==
    state = "UP" /\ pm = "on" /\ post # <<>> ~>
        tpc \in {"submit", "gone"} \/ state # "UP"
=============================================================================
