---------------------------- MODULE UsbTx_proofs ----------------------------
(***************************************************************************)
(* Proofs about USB data transmission, for every number of buffers, every  *)
(* ring size and any frames, refused submissions and suspends: no buffer   *)
(* is lost, a posted frame has a wake-up to carry it, and a stop of the    *)
(* queues has somebody to lift it.                                         *)
(***************************************************************************)
EXTENDS UsbTx, SequenceTheorems, TLAPS

(* The strengthening *)

\* TypeOK in three parts: numbers and phases, flags, frames.
Numbers ==
    /\ state \in {"UP", "SLEEP", "DOWN"}
    /\ pm \in {"on", "stopping", "off", "prepare"}
    /\ free \in 0..TX_URBS /\ flight \in 0..TX_URBS /\ unchecked \in 0..TX_URBS
    /\ post \in Seq(Frames) /\ trgg \in 0..(MaxTrgg + 1)
    /\ spc \in {"idle", "down", "take", "fill", "trigger", "flow"}
    /\ tpc \in {"wait", "loop", "submit", "gone"}
    /\ fails \in 0..MaxFails /\ suspends \in 0..MaxSuspends

Switches ==
    /\ tbusy \in BOOLEAN /\ stopped \in BOOLEAN /\ check \in BOOLEAN
    /\ deaf \in BOOLEAN /\ overrun \in BOOLEAN /\ corrupt \in BOOLEAN

FrameTypes ==
    /\ sframe \in Frames /\ tframe \in Frames
    /\ ring \in [SlotIds -> CfmSkbs \cup {None}] /\ slot \in SlotIds
    /\ live \in SUBSET CfmSkbs /\ owed \in SUBSET Owed

\* The bus is up unless a suspend or a resume is on its way.
Phases ==
    /\ state = "SLEEP" <=> pm = "stopping"
    /\ state = "DOWN" <=> pm = "off"

\* A sender on its way to signal bustx_trgg found it below its bound.
Triggering == spc \in {"take", "fill", "trigger"} => trgg <= MaxTrgg

Core ==
    /\ Numbers /\ BuffersAccounted /\ PostedIsTriggered /\ StopHasWaker
    /\ Phases /\ Triggering

IInv == Core /\ Switches /\ FrameTypes

\* Posting and taking a frame.
LEMMA PostProperties ==
    ASSUME NEW q \in Seq(Frames)
    PROVE  /\ Len(q) \in Nat
           /\ (q = <<>>) <=> (Len(q) = 0)
           /\ \A f \in Frames : /\ Append(q, f) \in Seq(Frames)
                                /\ Len(Append(q, f)) = Len(q) + 1
           /\ q # <<>> => /\ Head(q) \in Frames /\ Tail(q) \in Seq(Frames)
                          /\ Len(Tail(q)) = Len(q) - 1
  BY LenProperties, EmptySeq, AppendProperties, HeadTailProperties

\* The marks.
LEMMA Marks == LOW_WATER \in Nat /\ HIGH_WATER \in Nat /\ LOW_WATER <= HIGH_WATER
  BY UsbTxAssumption, SMT DEF UsbTxAssumption, LOW_WATER, HIGH_WATER

LEMMA InitIInv == Init => IInv
<1> SUFFICES ASSUME Init PROVE IInv
  OBVIOUS
<1>1. Switches
  BY Zenon DEF Init, Switches
<1>2. FrameTypes
  BY UsbTxAssumption, SMT DEF Init, FrameTypes, Frames, SlotIds, Owed, UsbTxAssumption
<1>3. Core
  BY UsbTxAssumption, EmptySeq, SMT
  DEF Init, UsbTxAssumption, Core, Numbers, BuffersAccounted, PostedIsTriggered,
      StopHasWaker, Phases, Triggering
<1> QED BY <1>1, <1>2, <1>3 DEF IInv

\* A sender takes a buffer, posts its frame and signals it, or gives it up; it
\* stops the queues when it finds few buffers, or the bus down.
LEMMA SenderCore ==
    ASSUME Core, sframe \in Frames,
           TxDown \/ TxNotUp \/ TxNoBuf \/ TxTake \/ TxPost \/ TxTrigger
              \/ TxFlow
    PROVE  Core'
<1> USE PostProperties, Marks, UsbTxAssumption
    DEF UsbTxAssumption, Core, Numbers, BuffersAccounted, PostedIsTriggered,
        StopHasWaker, Phases, Triggering, flowVars, senderVars, threadVars, busVars
<1>1. CASE TxDown
  <2>1. /\ UNCHANGED <<busVars, free, post, flight, tbusy, check, unchecked, trgg, tpc, fails>>
        /\ spc = "down" /\ spc' = "idle"
    BY <1>1 DEF TxDown
  <2>2. stopped' <=> tbusy' \/ deaf'
    BY <1>1, Zenon DEF TxDown
  <2> QED BY <2>1, <2>2, SMT
<1>2. CASE TxNotUp
  BY <1>2, SMT DEF TxNotUp
<1>3. CASE TxNoBuf
  BY <1>3, SMT DEF TxNoBuf
<1>4. CASE TxTake
  BY <1>4, SMT DEF TxTake
<1>5. CASE TxPost
  BY <1>5, SMT DEF TxPost
<1>6. CASE TxTrigger
  BY <1>6, SMT DEF TxTrigger
<1>7. CASE TxFlow
  BY <1>7, SMT DEF TxFlow
<1> QED BY <1>1, <1>2, <1>3, <1>4, <1>5, <1>6, <1>7

\* The bus thread moves posted frames to the endpoint, or puts back what is refused.
LEMMA ThreadCore ==
    ASSUME Core, sframe \in Frames,
           ThreadWake \/ ThreadDone \/ ThreadTake \/ SubmitUrb
              \/ SubmitFails
    PROVE  Core'
<1> USE PostProperties, Marks, UsbTxAssumption
    DEF UsbTxAssumption, Core, Numbers, BuffersAccounted, PostedIsTriggered,
        StopHasWaker, Phases, Triggering, flowVars, senderVars, threadVars, busVars
<1>1. CASE ThreadWake
  <2>1. /\ UNCHANGED <<busVars, free, post, flight, flowVars, spc, fails>>
        /\ tpc = "wait" /\ trgg > 0 /\ trgg' = trgg - 1
    BY <1>1 DEF ThreadWake
  <2>2. /\ tpc' \in {"wait", "loop", "gone"}
        /\ tpc' = "wait" => post = <<>>
    BY <1>1 DEF ThreadWake
  <2> QED BY <2>1, <2>2, SMT
<1>2. CASE ThreadDone
  BY <1>2, SMT DEF ThreadDone
<1>3. CASE ThreadTake
  BY <1>3, SMT DEF ThreadTake
<1>4. CASE SubmitUrb
  BY <1>4, SMT DEF SubmitUrb
<1>5. CASE SubmitFails
  BY <1>5, SMT DEF SubmitFails, PutUnchecked
<1> QED BY <1>1, <1>2, <1>3, <1>4, <1>5

\* A completion puts its buffer back and then looks at tbusy.
LEMMA CompletionCore ==
    ASSUME Core, sframe \in Frames,
           TxComplete \/ TxCompleteFlow
    PROVE  Core'
<1> USE PostProperties, Marks, UsbTxAssumption
    DEF UsbTxAssumption, Core, Numbers, BuffersAccounted, PostedIsTriggered,
        StopHasWaker, Phases, Triggering, flowVars, senderVars, threadVars, busVars
<1>1. CASE TxComplete
  BY <1>1, SMT DEF TxComplete
<1>2. CASE TxCompleteFlow
  BY <1>2, SMT DEF TxCompleteFlow
<1> QED BY <1>1, <1>2

\* Suspend and resume; a resume puts back what is posted.
LEMMA PowerCore ==
    ASSUME Core, sframe \in Frames,
           Suspend \/ SuspendStop \/ Resume \/ TxPrepare \/ ResumeDone
    PROVE  Core'
<1> USE PostProperties, Marks, UsbTxAssumption
    DEF UsbTxAssumption, Core, Numbers, BuffersAccounted, PostedIsTriggered,
        StopHasWaker, Phases, Triggering, flowVars, senderVars, threadVars, busVars
<1>1. CASE Suspend
  BY <1>1, SMT DEF Suspend
<1>2. CASE SuspendStop
  BY <1>2, SMT DEF SuspendStop
<1>3. CASE Resume
  BY <1>3, SMT DEF Resume
<1>4. CASE TxPrepare
  BY <1>4, SMT DEF TxPrepare, PutUnchecked
<1>5. CASE ResumeDone
  BY <1>5, SMT DEF ResumeDone
<1> QED BY <1>1, <1>2, <1>3, <1>4, <1>5

\* A push and a confirmation touch no buffer.
LEMMA RingCore ==
    ASSUME Core, \/ \E f \in Frames : TxPush(f)
                 \/ \E o \in owed : TxCfm(o) \/ TxCfmEmpty(o)
    PROVE  Core'
<1> USE PostProperties, Marks, UsbTxAssumption
    DEF UsbTxAssumption, Core, Numbers, BuffersAccounted, PostedIsTriggered,
        StopHasWaker, Phases, Triggering, flowVars, senderVars, threadVars, busVars
<1>1. ASSUME NEW f \in Frames, TxPush(f) PROVE Core'
  BY <1>1, SMT DEF TxPush
<1>2. ASSUME NEW o \in owed, TxCfm(o) PROVE Core'
  BY <1>2, SMT DEF TxCfm
<1>3. ASSUME NEW o \in owed, TxCfmEmpty(o) PROVE Core'
  BY <1>3, SMT DEF TxCfmEmpty
<1> QED BY <1>1, <1>2, <1>3

\* A frame pushed gets a slot, and the confirmations owed grow older.
LEMMA PushFrameTypes ==
    ASSUME FrameTypes, NEW f \in CfmSkbs, TxdescPush(f)
    PROVE  /\ ring' \in [SlotIds -> CfmSkbs \cup {None}] /\ slot' \in SlotIds
           /\ live' \in SUBSET CfmSkbs /\ owed' \in SUBSET Owed
<1>1. ring' \in [SlotIds -> CfmSkbs \cup {None}]
  BY DEF FrameTypes, TxdescPush
<1>2. slot' \in SlotIds
  BY UsbTxAssumption, SMT DEF FrameTypes, TxdescPush, SlotIds, UsbTxAssumption
<1>3. live' \in SUBSET CfmSkbs
  BY DEF FrameTypes, TxdescPush
<1>4. ASSUME NEW o \in Owed PROVE Age(o) \in Owed
  BY UsbTxAssumption, SMT DEF Age, Owed, UsbTxAssumption
<1>5. [skb |-> f, slot |-> slot, later |-> 0] \in Owed
  BY UsbTxAssumption, SMT DEF FrameTypes, Owed, UsbTxAssumption
<1>6. owed' \in SUBSET Owed
  BY <1>4, <1>5 DEF FrameTypes, TxdescPush
<1> QED BY <1>1, <1>2, <1>3, <1>6

LEMMA FrameTypesStep ==
    ASSUME FrameTypes, post \in Seq(Frames), Step
    PROVE  FrameTypes'
<1>0. Plain \in Frames
  BY DEF Frames
<1>1. ASSUME NEW f \in Frames, TxPush(f) PROVE FrameTypes'
  <2>1. sframe' \in Frames /\ tframe' \in Frames
    BY <1>1 DEF TxPush, FrameTypes, threadVars
  <2>2. CASE UNCHANGED ringVars
    BY <2>1, <2>2 DEF FrameTypes, ringVars
  <2>3. CASE f \in CfmSkbs /\ TxdescPush(f)
    BY <2>1, <2>3, PushFrameTypes DEF FrameTypes
  <2> QED BY <1>1, <2>2, <2>3 DEF TxPush
<1>2. CASE TxDown \/ TxNotUp \/ TxNoBuf
  BY <1>0, <1>2 DEF TxDown, TxNotUp, TxNoBuf, Dropped, FrameTypes, threadVars
<1>3. CASE TxTake \/ TxPost \/ TxTrigger \/ TxFlow
  BY <1>0, <1>3 DEF TxTake, TxPost, TxTrigger, TxFlow, FrameTypes, threadVars, ringVars
<1>4. CASE ThreadWake \/ ThreadDone \/ SubmitUrb
  BY <1>0, <1>4 DEF ThreadWake, ThreadDone, SubmitUrb, FrameTypes, senderVars, ringVars
<1>5. CASE ThreadTake
  <2>1. Head(post) \in Frames
    BY <1>5, PostProperties DEF ThreadTake
  <2> QED BY <1>5, <2>1 DEF ThreadTake, FrameTypes, senderVars, ringVars
<1>6. CASE SubmitFails \/ TxPrepare
  BY <1>0, <1>6 DEF SubmitFails, TxPrepare, FrameTypes, senderVars, threadVars
<1>7. CASE TxComplete \/ TxCompleteFlow
  BY <1>7 DEF TxComplete, TxCompleteFlow, FrameTypes, senderVars, threadVars, ringVars
<1>8. ASSUME NEW o \in owed, TxCfm(o) PROVE FrameTypes'
  BY <1>8 DEF TxCfm, FrameTypes, senderVars, threadVars
<1>9. ASSUME NEW o \in owed, TxCfmEmpty(o) PROVE FrameTypes'
  BY <1>9 DEF TxCfmEmpty, FrameTypes, senderVars, threadVars
<1>10. CASE Suspend \/ SuspendStop \/ Resume \/ ResumeDone
  BY <1>10
  DEF Suspend, SuspendStop, Resume, ResumeDone, FrameTypes, senderVars, threadVars, ringVars
<1> QED
  BY <1>1, <1>2, <1>3, <1>4, <1>5, <1>6, <1>7, <1>8, <1>9, <1>10 DEF Step

LEMMA SwitchesStep ==
    ASSUME Switches, Step
    PROVE  Switches'
<1>1. ASSUME NEW f \in Frames, TxPush(f) PROVE Switches'
  <2>1. UNCHANGED <<flowVars, corrupt>>
    BY <1>1 DEF TxPush
  <2>2. overrun' \in BOOLEAN
    <3>1. CASE UNCHANGED ringVars
      BY <3>1 DEF Switches, ringVars
    <3>2. CASE TxdescPush(f)
      BY <3>2, Zenon DEF TxdescPush
    <3> QED BY <1>1, <3>1, <3>2 DEF TxPush
  <2> QED BY <2>1, <2>2 DEF Switches, flowVars
<1>2. CASE TxDown
  BY <1>2, Zenon DEF TxDown, Dropped, Switches
<1>3. CASE TxNotUp \/ TxNoBuf
  BY <1>3 DEF TxNotUp, TxNoBuf, Dropped, Switches, flowVars
<1>4. CASE TxFlow
  <2>1. UNCHANGED <<check, deaf, ringVars, corrupt>>
    BY <1>4 DEF TxFlow
  <2>2. tbusy' \in BOOLEAN /\ stopped' \in BOOLEAN
    BY <1>4, Zenon DEF TxFlow, Switches
  <2> QED BY <2>1, <2>2 DEF Switches, ringVars
<1>5. CASE SubmitFails
  BY <1>5, Zenon DEF SubmitFails, PutUnchecked, Switches
<1>6. CASE TxPrepare
  BY <1>6, Zenon DEF TxPrepare, PutUnchecked, Switches
<1>7. CASE TxComplete
  BY <1>7 DEF TxComplete, Switches, ringVars
<1>8. CASE TxCompleteFlow
  <2>1. UNCHANGED <<ringVars, corrupt>> /\ check' = FALSE
    BY <1>8 DEF TxCompleteFlow
  <2>2. tbusy' \in BOOLEAN /\ stopped' \in BOOLEAN /\ deaf' \in BOOLEAN
    BY <1>8, Zenon DEF TxCompleteFlow, Switches
  <2> QED BY <2>1, <2>2 DEF Switches, ringVars
<1>9. ASSUME NEW o \in owed, TxCfm(o) PROVE Switches'
  BY <1>9, Zenon DEF TxCfm, Switches, flowVars
<1>10. ASSUME NEW o \in owed, TxCfmEmpty(o) PROVE Switches'
  BY <1>10 DEF TxCfmEmpty, Switches, flowVars
<1>11. CASE \/ TxTake \/ TxPost \/ TxTrigger \/ ThreadWake \/ ThreadDone \/ ThreadTake
            \/ SubmitUrb \/ Suspend \/ SuspendStop \/ Resume \/ ResumeDone
  BY <1>11
  DEF TxTake, TxPost, TxTrigger, ThreadWake, ThreadDone, ThreadTake, SubmitUrb, Suspend,
      SuspendStop, Resume, ResumeDone, Switches, flowVars, ringVars
<1> QED
  BY <1>1, <1>2, <1>3, <1>4, <1>5, <1>6, <1>7, <1>8, <1>9, <1>10, <1>11 DEF Step

LEMMA NextIInv == IInv /\ [Next]_vars => IInv'
<1> SUFFICES ASSUME IInv, [Next]_vars PROVE IInv'
  OBVIOUS
<1>1. CASE UNCHANGED vars
  <2>1. Switches' /\ FrameTypes'
    BY <1>1
    DEF IInv, Switches, FrameTypes, vars, flowVars, senderVars, threadVars, ringVars
  <2>2. Core'
    BY <1>1, SMT
    DEF IInv, Core, Numbers, BuffersAccounted, PostedIsTriggered, StopHasWaker, Phases,
        Triggering, vars, flowVars, senderVars, threadVars, busVars
  <2> QED BY <2>1, <2>2 DEF IInv
<1>2. CASE Step
  <2>1. Switches'
    BY <1>2, SwitchesStep DEF IInv
  <2>2. FrameTypes'
    BY <1>2, FrameTypesStep DEF IInv, Core, Numbers
  <2>3. Core'
    BY <1>2, SenderCore, ThreadCore, CompletionCore, PowerCore, RingCore
    DEF IInv, FrameTypes, Step
  <2> QED BY <2>1, <2>2, <2>3 DEF IInv
<1> QED BY <1>1, <1>2 DEF Next

\* The inductive invariant: buffers, flow control, wake-ups and the types of frames,
\* whatever is refused, slept through or confirmed in between.
THEOREM TransmissionInductive == Spec => []IInv
BY InitIInv, NextIInv, PTL DEF Spec

\* No transmit buffer is lost or on two lists, and with the bus up no frame lies on
\* the post list of a sleeping thread without bustx_trgg.
THEOREM TransmissionSound == Spec => []UsbTxInv
<1>1. IInv => UsbTxInv
  BY DEF IInv, Core, Numbers, Switches, FrameTypes, TypeOK, UsbTxInv
<1> QED BY <1>1, TransmissionInductive, PTL

\* Stopped queues have somebody to wake them: a completion to come while few buffers
\* are free, but for buffers put back where nobody looks.
THEOREM StopIsLifted == Spec => []StopHasWaker
<1>1. IInv => StopHasWaker
  BY DEF IInv, Core
<1> QED BY <1>1, TransmissionInductive, PTL

(* The ring *)

\* Until the ring is overrun: a confirmation owed names a slot as far behind the
\* next one as frames were pushed since, no other owed one names it, and it holds
\* the frame, in memory.
Slotted ==
    /\ \A o \in owed : /\ ring[o.slot] = o.skb /\ o.skb \in live
                       /\ o.later < TXDESC_CNT
                       /\ \/ slot = o.slot + o.later + 1
                          \/ slot = o.slot + o.later + 1 - TXDESC_CNT
    /\ \A o1, o2 \in owed : o1 # o2 => o1.slot # o2.slot /\ o1.skb # o2.skb

RingInv ==
    /\ overrun \/ Slotted
    /\ MemorySound
    /\ pm # "on" => suspends > 0

LEMMA InitRingInv == Init => RingInv
  BY DEF Init, RingInv, Slotted, MemorySound

\* A push takes a slot and a socket buffer that no confirmation is owed for.
LEMMA PushSlotted ==
    ASSUME FrameTypes, overrun \/ Slotted, NEW f \in CfmSkbs, TxdescPush(f),
           f \notin live, f \notin { o.skb : o \in owed }
    PROVE  overrun' \/ Slotted'
<1> SUFFICES ASSUME ~overrun' PROVE Slotted'
  OBVIOUS
<1>1. ~overrun /\ \A o \in owed : ~(o.later >= TXDESC_CNT - 1)
  BY DEF TxdescPush
<1>2. TXDESC_CNT \in Nat \ {0} /\ slot \in 0..(TXDESC_CNT - 1)
  BY UsbTxAssumption DEF UsbTxAssumption, FrameTypes, SlotIds
<1>3. slot' = IF slot = TXDESC_CNT - 1 THEN 0 ELSE slot + 1
  BY <1>2, SMT DEF TxdescPush
<1> DEFINE n == [skb |-> f, slot |-> slot, later |-> 0]
<1>4. ASSUME NEW o \in owed
      PROVE  /\ o.slot # slot /\ o.skb # f
             /\ ring'[o.slot] = o.skb /\ o.skb \in live'
             /\ o.later + 1 < TXDESC_CNT
             /\ Age(o).slot = o.slot /\ Age(o).skb = o.skb /\ Age(o).later = o.later + 1
             /\ \/ slot' = o.slot + (o.later + 1) + 1
                \/ slot' = o.slot + (o.later + 1) + 1 - TXDESC_CNT
  <2>1. /\ o.slot \in 0..(TXDESC_CNT - 1) /\ o.later \in 0..TXDESC_CNT
        /\ o.skb \in CfmSkbs /\ o \in Owed
    BY DEF FrameTypes, Owed, SlotIds
  <2>2. /\ ring[o.slot] = o.skb /\ o.skb \in live
        /\ \/ slot = o.slot + o.later + 1
           \/ slot = o.slot + o.later + 1 - TXDESC_CNT
    BY <1>1 DEF Slotted
  <2>3. ~(o.later >= TXDESC_CNT - 1)
    BY <1>1
  <2>4. o.later + 1 < TXDESC_CNT /\ o.slot # slot
    BY <1>2, <2>1, <2>2, <2>3, SMT
  <2>5. \/ slot' = o.slot + (o.later + 1) + 1
        \/ slot' = o.slot + (o.later + 1) + 1 - TXDESC_CNT
    BY <1>2, <1>3, <2>1, <2>2, <2>4, SMT
  <2>6. Age(o) = [o EXCEPT !.later = o.later + 1]
    BY <1>2, <2>1, <2>4, SMT DEF Age
  <2>7. Age(o).slot = o.slot /\ Age(o).skb = o.skb /\ Age(o).later = o.later + 1
    BY <2>1, <2>6 DEF Owed
  <2>8. ring'[o.slot] = o.skb /\ o.skb \in live'
    BY <2>1, <2>2, <2>4 DEF TxdescPush, FrameTypes, SlotIds
  <2>9. o.skb # f
    OBVIOUS
  <2> QED BY <2>4, <2>5, <2>7, <2>8, <2>9
<1>5. /\ ring'[n.slot] = n.skb /\ n.skb \in live' /\ n.later < TXDESC_CNT
      /\ \/ slot' = n.slot + n.later + 1
         \/ slot' = n.slot + n.later + 1 - TXDESC_CNT
  <2>1. ring'[slot] = f /\ f \in live'
    BY <1>2 DEF TxdescPush, FrameTypes, SlotIds
  <2>2. 0 < TXDESC_CNT
    BY <1>2, SMT
  <2>3. slot' = slot + 0 + 1 \/ slot' = slot + 0 + 1 - TXDESC_CNT
    BY <1>2, <1>3, SMT
  <2> QED BY <2>1, <2>2, <2>3
<1>6. owed' = { Age(o) : o \in owed } \cup {n}
  BY DEF TxdescPush
<1> HIDE DEF n
<1>7. n.slot = slot /\ n.skb = f
  BY DEF n
<1>8. ASSUME NEW p \in owed'
      PROVE  /\ ring'[p.slot] = p.skb /\ p.skb \in live' /\ p.later < TXDESC_CNT
             /\ \/ slot' = p.slot + p.later + 1
                \/ slot' = p.slot + p.later + 1 - TXDESC_CNT
  <2>1. CASE p = n
    BY <2>1, <1>5
  <2>2. ASSUME NEW o \in owed, p = Age(o)
        PROVE  /\ ring'[p.slot] = p.skb /\ p.skb \in live' /\ p.later < TXDESC_CNT
               /\ \/ slot' = p.slot + p.later + 1
                  \/ slot' = p.slot + p.later + 1 - TXDESC_CNT
    BY <2>2, <1>4
  <2> QED BY <1>6, <2>1, <2>2
<1>9. ASSUME NEW p \in owed', NEW q \in owed', p # q
      PROVE  p.slot # q.slot /\ p.skb # q.skb
  <2>1. \A o1, o2 \in owed : o1 # o2 => o1.slot # o2.slot /\ o1.skb # o2.skb
    BY <1>1 DEF Slotted
  <2>2. CASE p = n /\ q # n
    BY <2>2, <1>4, <1>6, <1>7
  <2>3. CASE p # n /\ q = n
    BY <2>3, <1>4, <1>6, <1>7
  <2>4. CASE p # n /\ q # n
    <3>1. PICK o1 \in owed : p = Age(o1)
      BY <2>4, <1>6
    <3>2. PICK o2 \in owed : q = Age(o2)
      BY <2>4, <1>6
    <3> QED BY <3>1, <3>2, <2>1, <1>4, <1>9
  <2> QED BY <1>9, <2>2, <2>3, <2>4
<1> QED BY <1>8, <1>9 DEF Slotted

\* Fewer confirmations owed, for frames still in their slots and in memory.
LEMMA FewerSlotted ==
    ASSUME Slotted, owed' \subseteq owed, slot' = slot,
           \A o \in owed' : ring'[o.slot] = ring[o.slot] /\ o.skb \in live'
    PROVE  Slotted'
  BY DEF Slotted

\* A frame dropped before it was sent: nothing is owed for it any more.
LEMMA DroppedSlotted ==
    ASSUME overrun \/ Slotted, NEW f, Dropped(f)
    PROVE  overrun' \/ Slotted'
<1>1. CASE overrun
  BY <1>1 DEF Dropped
<1>2. CASE Slotted
  BY <1>2, FewerSlotted DEF Dropped, Slotted
<1> QED BY <1>1, <1>2

\* The frame confirmed is the one in the slot, so no other loses its memory.
LEMMA CfmRing ==
    ASSUME FrameTypes, RingInv, NEW o \in owed, TxCfm(o)
    PROVE  RingInv'
<1>1. UNCHANGED <<overrun, slot, fails, suspends, pm>> /\ owed' = owed \ {o}
  BY DEF TxCfm, busVars
<1>2. CASE overrun
  BY <1>1, <1>2 DEF RingInv, MemorySound
<1>3. CASE ~overrun
  <2>1. Slotted /\ o.slot \in SlotIds
    BY <1>3 DEF RingInv, FrameTypes, Owed
  <2>2. ring[o.slot] = o.skb /\ o.skb \in live
    BY <2>1 DEF Slotted
  <2>3. corrupt' => corrupt
    BY <2>2, Zenon DEF TxCfm, Sent
  <2>4. live' = live \ {o.skb} /\ ring' = [ring EXCEPT ![o.slot] = None]
    BY <2>2 DEF TxCfm
  <2>5. ASSUME NEW p \in owed' PROVE ring'[p.slot] = ring[p.slot] /\ p.skb \in live'
    <3>1. p \in owed /\ p # o /\ p.slot \in SlotIds
      BY <1>1 DEF FrameTypes, Owed
    <3>2. p.slot # o.slot /\ p.skb # o.skb /\ p.skb \in live
      BY <2>1, <3>1 DEF Slotted
    <3> QED BY <2>4, <3>1, <3>2 DEF FrameTypes
  <2>6. Slotted'
    BY <1>1, <2>1, <2>5, FewerSlotted
  <2> QED BY <1>1, <2>3, <2>6 DEF RingInv, MemorySound
<1> QED BY <1>2, <1>3

LEMMA RingStep ==
    ASSUME FrameTypes, fails \in Nat, suspends \in Nat, RingInv, Step
    PROVE  RingInv'
<1>1. CASE UNCHANGED <<ringVars, corrupt, fails, suspends, pm>>
  BY <1>1 DEF RingInv, Slotted, MemorySound, ringVars
<1>2. ASSUME NEW f \in Frames, TxPush(f) PROVE RingInv'
  <2>1. UNCHANGED <<corrupt, fails, suspends, pm>>
    BY <1>2 DEF TxPush, busVars
  <2>2. CASE UNCHANGED ringVars
    BY <1>1, <2>1, <2>2
  <2>3. CASE /\ f \in CfmSkbs \ (live \cup Dangling \cup { o.skb : o \in owed })
             /\ TxdescPush(f)
    <3>1. overrun' \/ Slotted'
      BY <2>3, PushSlotted DEF RingInv
    <3>2. overrun => overrun'
      BY <2>3 DEF TxdescPush
    <3> QED BY <2>1, <3>1, <3>2 DEF RingInv, MemorySound
  <2> QED BY <1>2, <2>2, <2>3 DEF TxPush
<1>3. CASE TxDown \/ TxNotUp \/ TxNoBuf
  <2>1. UNCHANGED <<overrun, corrupt, fails, suspends, pm>>
    BY <1>3 DEF TxDown, TxNotUp, TxNoBuf, Dropped, busVars
  <2>2. Dropped(sframe)
    BY <1>3 DEF TxDown, TxNotUp, TxNoBuf
  <2> QED BY <2>1, <2>2, DroppedSlotted DEF RingInv, MemorySound
<1>4. CASE \/ TxTake \/ TxPost \/ TxTrigger \/ TxFlow \/ ThreadWake \/ ThreadDone
           \/ ThreadTake \/ SubmitUrb \/ TxComplete \/ TxCompleteFlow
  BY <1>1, <1>4
  DEF TxTake, TxPost, TxTrigger, TxFlow, ThreadWake, ThreadDone, ThreadTake, SubmitUrb,
      TxComplete, TxCompleteFlow, busVars
<1>5. CASE SubmitFails
  <2>1. /\ UNCHANGED <<ring, slot, live, overrun, suspends, pm>> /\ owed' \subseteq owed
        /\ fails' = fails + 1
    BY <1>5 DEF SubmitFails, busVars
  <2>2. fails' > 0
    BY <2>1, SMT
  <2>3. overrun' \/ Slotted'
    BY <2>1, FewerSlotted DEF RingInv, Slotted
  <2> QED BY <2>1, <2>2, <2>3 DEF RingInv, MemorySound
<1>6. CASE TxPrepare
  <2>1. /\ UNCHANGED <<ring, slot, live, overrun, fails, suspends, pm>>
        /\ owed' \subseteq owed /\ pm = "prepare"
    BY <1>6 DEF TxPrepare, busVars
  <2>2. suspends > 0
    BY <2>1 DEF RingInv
  <2>3. overrun' \/ Slotted'
    BY <2>1, FewerSlotted DEF RingInv, Slotted
  <2> QED BY <2>1, <2>2, <2>3 DEF RingInv, MemorySound
<1>7. ASSUME NEW o \in owed, TxCfm(o) PROVE RingInv'
  BY <1>7, CfmRing
<1>8. ASSUME NEW o \in owed, TxCfmEmpty(o) PROVE RingInv'
  <2>1. /\ UNCHANGED <<ring, slot, live, overrun, corrupt, fails, suspends, pm>>
        /\ owed' \subseteq owed
    BY <1>8 DEF TxCfmEmpty, busVars
  <2>2. overrun' \/ Slotted'
    BY <2>1, FewerSlotted DEF RingInv, Slotted
  <2> QED BY <2>1, <2>2 DEF RingInv, MemorySound
<1>9. CASE Suspend
  <2>1. UNCHANGED <<ringVars, corrupt, fails>> /\ suspends' = suspends + 1
    BY <1>9 DEF Suspend
  <2>2. suspends' > 0
    BY <2>1, SMT
  <2> QED BY <2>1, <2>2 DEF RingInv, Slotted, MemorySound, ringVars
<1>10. CASE SuspendStop \/ Resume \/ ResumeDone
  <2>1. UNCHANGED <<ringVars, corrupt, fails, suspends>> /\ pm # "on"
    BY <1>10 DEF SuspendStop, Resume, ResumeDone
  <2> QED BY <2>1 DEF RingInv, Slotted, MemorySound, ringVars
<1> QED
  BY <1>2, <1>3, <1>4, <1>5, <1>6, <1>7, <1>8, <1>9, <1>10 DEF Step

\* Until the ring is overrun, a confirmation finds its frame in the slot the firmware
\* names, in memory; and nothing is released wrongly until then, or until a
\* submission is refused or the system suspended.
THEOREM ConfirmationsFindFrames == Spec => []RingSound
<1>1. Init => IInv /\ RingInv
  BY InitIInv, InitRingInv
<1>2. IInv /\ RingInv /\ [Next]_vars => RingInv'
  <2> SUFFICES ASSUME IInv, RingInv, [Next]_vars PROVE RingInv'
    OBVIOUS
  <2>1. CASE UNCHANGED vars
    BY <2>1 DEF RingInv, Slotted, MemorySound, vars, ringVars, busVars
  <2>2. CASE Step
    <3>1. FrameTypes /\ fails \in Nat /\ suspends \in Nat
      BY SMT DEF IInv, Core, Numbers
    <3> QED BY <2>2, <3>1, RingStep
  <2> QED BY <2>1, <2>2 DEF Next
<1>3. RingInv => RingSound
  BY DEF RingInv, Slotted, RingSound, RingKeepsFrame
<1> QED BY <1>1, <1>2, <1>3, NextIInv, PTL DEF Spec
=============================================================================
