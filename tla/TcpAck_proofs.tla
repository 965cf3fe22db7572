----------------------------- MODULE TcpAck_proofs -----------------------------
(***************************************************************************)
(* Proofs about the TCP acknowledgement filter: in every state a message is*)
(* in one place, no slot in use is given away, no message stays behind in  *)
(* in_send_msg before a slot is aged, and the newest acknowledgement of a  *)
(* connection is on its way, or held by a slot whose timer will look at it,*)
(* with the exceptions NewestKept names; in particular no acknowledgement  *)
(* is taken for old because the numbers have wrapped.                      *)
(***************************************************************************)
EXTENDS TcpAck, FiniteSetTheorems, WellFoundedInduction, TLAPS

-----------------------------------------------------------------------------
(* The least slot of a set, and numbers modulo 2^32 *)

LEMMA LeastOfNat ==
    ASSUME NEW S \in SUBSET Nat, S # {}
    PROVE  \E x \in S : \A y \in S : x <= y
<1>1. \A x, y \in Nat : <<y, x>> \in OpToRel(<, Nat) <=> y < x
  BY DEF OpToRel
<1>2. PICK R : IsWellFoundedOn(R, Nat) /\ \A x, y \in Nat : <<y, x>> \in R <=> y < x
  BY <1>1, NatLessThanWellFounded, Zenon
<1>3. PICK x \in S : \A y \in S : ~ (<<y, x>> \in R)
  BY <1>2, WFMin
<1>4. \A y \in S : ~(y < x)
  <2> TAKE y \in S
  <2>1. x \in Nat /\ y \in Nat
    OBVIOUS
  <2>2. <<y, x>> \in R <=> y < x
    BY <1>2, <2>1, Zenon
  <2> QED BY <1>3, <2>2, Zenon
<1> QED BY <1>4

LEMMA MinOfSlots ==
    ASSUME NEW S \in SUBSET Slots, S # {}
    PROVE  Min(S) \in S
<1>1. S \in SUBSET Nat
  BY TcpAckAssumption DEF Slots, TcpAckAssumption
<1>2. \E x \in S : \A y \in S : x <= y
  BY <1>1, LeastOfNat
<1> QED BY <1>2 DEF Min

LEMMA SeqOfNumber ==
    ASSUME NEW n \in Nat
    PROVE  n % SeqMod \in Seqs
BY TcpAckAssumption DEF Seqs, TcpAckAssumption

LEMMA NoneIsNobody ==
    /\ None \notin Conns /\ None \notin Slots /\ None \notin Msgs /\ None \notin Seqs
BY TcpAckAssumption DEF TcpAckAssumption, Slots, Seqs

\* The slots and the senders that are counted.
LEMMA CountedSets ==
    ASSUME NEW S \in SUBSET Slots, NEW C \in SUBSET Conns
    PROVE  /\ IsFiniteSet(S) /\ Cardinality(S) \in Nat
           /\ IsFiniteSet(C) /\ Cardinality(C) \in Nat
<1>1. IsFiniteSet(Slots)
  BY FS_Interval, TcpAckAssumption DEF Slots, TcpAckAssumption
<1>2. IsFiniteSet(S) /\ IsFiniteSet(C)
  BY <1>1, FS_Subset, TcpAckAssumption DEF TcpAckAssumption
<1> QED BY <1>2, FS_CardinalityType

\* What aging takes away from max_num it takes away from the busy slots.
LEMMA AgedCount ==
    ASSUME TypeOK, NEW S \in SUBSET {s \in Slots : Idle(s)}, Age(S)
    PROVE  /\ Busy' = Busy \ S /\ Cardinality(S) \in Nat
           /\ Cardinality(Busy') = Cardinality(Busy) - Cardinality(S)
           /\ Cardinality(S) <= Cardinality(Busy)
<1>1. S \subseteq Busy /\ Busy' = Busy \ S
  BY DEF Idle, Age, Busy
<1>2. Busy \in SUBSET Slots /\ S \in SUBSET Slots /\ {} \in SUBSET Conns
  BY DEF Busy
<1>3. IsFiniteSet(Busy) /\ IsFiniteSet(S) /\ Cardinality(S) \in Nat /\ Cardinality(Busy) \in Nat
  BY <1>2, CountedSets, Zenon
<1>4. Cardinality(Busy \ S) = Cardinality(Busy) - Cardinality(Busy \cap S)
  BY <1>3, FS_Difference
<1>5. Busy \cap S = S
  BY <1>1
<1>6. Cardinality(S) <= Cardinality(Busy)
  BY <1>1, <1>3, FS_Subset
<1> QED BY <1>1, <1>3, <1>4, <1>5, <1>6

-----------------------------------------------------------------------------
(* Type correctness, and who is at work *)

LEMMA InitType == Init => TypeOK /\ AtWork
<1> SUFFICES ASSUME Init PROVE TypeOK /\ AtWork
  OBVIOUS
<1>1. 0 \in Seqs /\ 1 \in Slots /\ 0 \in 0..(TCP_ACK_NUM + 1) /\ 0 \in 0..MaxAcks
      /\ 0 \in 0..MaxEvents /\ First \in Nat
  BY TcpAckAssumption DEF TcpAckAssumption, Seqs, Slots
<1>2. TypeOK
  BY <1>1 DEF Init, TypeOK
<1>3. AtWork
  BY DEF Init, AtWork
<1> QED BY <1>2, <1>3

\* The sender's moves.
LEMMA GoesType ==
    ASSUME TypeOK, NEW c \in Conns, NEW s \in Slots \cup {None},
           NEW p \in {"match", "alloc", "write", "handle", "pass"}, Goes(c, p, s)
    PROVE  /\ pc' \in [Conns -> {"idle", "match", "alloc", "write", "handle", "pass"}]
           /\ msg' = msg /\ slot' \in [Conns -> Slots \cup {None}]
           /\ pc'[c] = p /\ slot'[c] = s
           /\ \A d \in Conns \ {c} : pc'[d] = pc[d] /\ slot'[d] = slot[d]
BY DEF TypeOK, Goes

LEMMA DoneType ==
    ASSUME TypeOK, NEW c \in Conns, Done(c)
    PROVE  /\ pc' \in [Conns -> {"idle", "match", "alloc", "write", "handle", "pass"}]
           /\ msg' \in [Conns -> Msgs \cup {None}]
           /\ slot' \in [Conns -> Slots \cup {None}]
           /\ pc'[c] = "idle" /\ msg'[c] = None /\ slot'[c] = None
           /\ \A d \in Conns \ {c} :
                pc'[d] = pc[d] /\ slot'[d] = slot[d] /\ msg'[d] = msg[d]
BY DEF TypeOK, Done

\* Whoever uses a slot has one, and a message.
LEMMA WorkerHas ==
    ASSUME TypeOK, AtWork, NEW c \in Conns
    PROVE  /\ pc[c] \in {"write", "handle"} => slot[c] \in Slots
           /\ pc[c] # "idle" => /\ msg[c] \in Msgs /\ msg[c].conn = c
                                /\ msg[c].n \in Nat /\ msg[c].n = asked[c]
<1>1. pc[c] # "idle" => msg[c] \in Msgs
  BY DEF TypeOK, AtWork
<1>2. \A m \in Msgs : m.n \in Nat
  BY DEF Msgs
<1> QED BY <1>1, <1>2 DEF TypeOK, AtWork

\* A new acknowledgement.
LEMMA SubmitEffect ==
    ASSUME TypeOK, Counted, NEW c \in Conns, Submit(c)
    PROVE  /\ TypeOK' /\ acks' = acks + 1 /\ acks \in Nat
           /\ msg'[c] \in Msgs /\ msg'[c].conn = c /\ msg'[c].no = acks + 1
           /\ msg'[c].n = asked'[c] /\ pc'[c] = "match" /\ pc[c] = "idle" /\ down = 0
           /\ \A d \in Conns \ {c} :
                msg'[d] = msg[d] /\ pc'[d] = pc[d] /\ asked'[d] = asked[d]
<1>1. PICK n \in Nat : /\ asked' = [asked EXCEPT ![c] = n]
                       /\ msg' = [msg EXCEPT ![c] = [conn |-> c, n |-> n, no |-> acks + 1]]
  <2>1. {asked[c], asked[c] + 1} \cap 0..MaxSeq \subseteq Nat
    BY DEF TypeOK
  <2> QED BY <2>1, Zenon DEF Submit
<1>2. acks \in Nat /\ acks + 1 \in 1..MaxAcks /\ acks + 1 \in 0..MaxAcks
  BY TcpAckAssumption DEF Submit, TypeOK, TcpAckAssumption
<1>3. [conn |-> c, n |-> n, no |-> acks + 1] \in Msgs
  BY <1>1, <1>2 DEF Msgs
<1>4. PICK S \in SUBSET {s \in Slots : Idle(s)} : Age(S)
  BY DEF Submit
<1>5. max_num' \in Nat
  <2>1. Cardinality(Busy) \in Nat /\ Cardinality(Writers) \in Nat
    <3>1. Busy \in SUBSET Slots /\ Writers \in SUBSET Conns
      BY DEF Busy, Writers
    <3> QED BY <3>1, CountedSets
  <2>2. Cardinality(S) \in Nat /\ Cardinality(S) <= Cardinality(Busy)
    BY <1>4, AgedCount
  <2> QED BY <1>4, <2>1, <2>2 DEF Age, Counted, TypeOK
<1>6. busy' \in [Slots -> BOOLEAN] /\ free_index' \in Slots \cup {None}
      /\ aged' \in BOOLEAN /\ events' \in 0..MaxEvents
  <2>1. S # {} => Min(S) \in Slots
    BY MinOfSlots
  <2>2. busy' \in [Slots -> BOOLEAN] /\ free_index' \in Slots \cup {None} /\ aged' \in BOOLEAN
    BY <1>4, <2>1 DEF Age, TypeOK
  <2>3. events' \in 0..MaxEvents
    BY <1>4, TcpAckAssumption DEF Age, TypeOK, TcpAckAssumption
  <2> QED BY <2>2, <2>3
<1>7. /\ UNCHANGED <<conn, seq, drop_cnt, psh, held, in_send, timer, late, tpc, tmsg,
                     push, down, acked, slot, foreign>>
      /\ pc' = [pc EXCEPT ![c] = "match"] /\ acks' = acks + 1 /\ lost' = lost \ {c}
      /\ pc[c] = "idle" /\ down = 0
  BY DEF Submit, msgVars, timerVars
<1>8. pc' \in [Conns -> {"idle", "match", "alloc", "write", "handle", "pass"}]
      /\ msg' \in [Conns -> Msgs \cup {None}] /\ asked' \in [Conns -> Nat]
  BY <1>1, <1>3, <1>7 DEF TypeOK
<1>9. TypeOK'
  BY <1>2, <1>5, <1>6, <1>7, <1>8 DEF TypeOK
<1>10. /\ msg'[c] = [conn |-> c, n |-> n, no |-> acks + 1] /\ asked'[c] = n
       /\ pc'[c] = "match"
       /\ \A d \in Conns \ {c} :
                msg'[d] = msg[d] /\ pc'[d] = pc[d] /\ asked'[d] = asked[d]
  BY <1>1, <1>7 DEF TypeOK
<1> QED BY <1>2, <1>3, <1>7, <1>9, <1>10

LEMMA SenderType ==
    ASSUME TypeOK, AtWork, NEW c \in Conns,
           Match(c) \/ Alloc(c) \/ Write(c) \/ HandleSend(c) \/ HandleHold(c)
           \/ HandleOld(c) \/ Pass(c)
    PROVE  TypeOK'
<1>1. CASE Match(c)
  <2>1. Matching(c) # {} => Min(Matching(c)) \in Slots
    <3>1. Matching(c) \in SUBSET Slots
      BY DEF Matching
    <3> QED BY <3>1, MinOfSlots
  <2>2. PICK s \in Slots \cup {None}, p \in {"handle", "alloc"} : Goes(c, p, s)
    BY <1>1, <2>1 DEF Match
  <2>3. pc' \in [Conns -> {"idle", "match", "alloc", "write", "handle", "pass"}]
        /\ msg' = msg /\ slot' \in [Conns -> Slots \cup {None}]
    BY <2>2, GoesType
  <2> QED BY <1>1, <2>3
          DEF Match, TypeOK, tableVars, msgVars, allocVars, timerVars, tcpVars
<1>2. CASE Alloc(c)
  <2>1. Unused # {} => Min(Unused) \in Slots
    <3>1. Unused \in SUBSET Slots
      BY DEF Unused
    <3> QED BY <3>1, MinOfSlots
  <2>2. \A k \in Counts(c) : k \in Nat /\ k - 1 \in Nat
    BY DEF Counts
  <2>3. PICK s \in Slots \cup {None}, p \in {"pass", "write"} : Goes(c, p, s)
    BY <1>2, <2>1 DEF Alloc, TypeOK
  <2>4. pc' \in [Conns -> {"idle", "match", "alloc", "write", "handle", "pass"}]
        /\ msg' = msg /\ slot' \in [Conns -> Slots \cup {None}]
    BY <2>3, GoesType
  <2>5. max_num' \in Nat /\ free_index' \in Slots \cup {None}
    BY <1>2, <2>2 DEF Alloc, TypeOK, allocVars
  <2> QED BY <1>2, <2>4, <2>5 DEF Alloc, TypeOK, tableVars, msgVars, timerVars, tcpVars
<1>3. CASE Write(c)
  <2>1. slot[c] \in Slots /\ msg[c].n % SeqMod \in Seqs
    BY <1>3, WorkerHas, SeqOfNumber DEF Write
  <2>2. pc' \in [Conns -> {"idle", "match", "alloc", "write", "handle", "pass"}]
        /\ msg' = msg /\ slot' \in [Conns -> Slots \cup {None}]
    BY <1>3, GoesType DEF Write
  <2>3. /\ busy' \in [Slots -> BOOLEAN] /\ conn' \in [Slots -> Conns \cup {None}]
        /\ seq' \in [Slots -> Seqs] /\ drop_cnt' \in [Slots -> Nat]
        /\ psh' \in [Slots -> Seqs \cup {None}]
    BY <1>3, <2>1, TcpAckAssumption DEF Write, TypeOK, TcpAckAssumption
  <2> QED BY <1>3, <2>2, <2>3 DEF Write, TypeOK, msgVars, allocVars, timerVars, tcpVars
<1>4. CASE HandleSend(c)
  <2>1. slot[c] \in Slots /\ msg[c].n % SeqMod \in Seqs /\ msg[c] \in Msgs
    BY <1>4, WorkerHas, SeqOfNumber DEF HandleSend
  <2>2. pc' \in [Conns -> {"idle", "match", "alloc", "write", "handle", "pass"}]
        /\ msg' = msg /\ slot' \in [Conns -> Slots \cup {None}]
    BY <1>4, <2>1, GoesType DEF HandleSend
  <2>3. /\ seq' \in [Slots -> Seqs] /\ drop_cnt' \in [Slots -> Nat]
        /\ psh' \in [Slots -> Seqs \cup {None}]
    BY <1>4, <2>1 DEF HandleSend, Remembers, TypeOK
  <2>4. /\ held' \in [Slots -> Msgs \cup {None}] /\ in_send' \in [Slots -> Msgs \cup {None}]
        /\ timer' \in [Slots -> BOOLEAN] /\ late' \subseteq Slots
    BY <1>4, <2>1 DEF HandleSend, TypeOK
  <2>5. lost' \subseteq Conns /\ foreign' \subseteq Slots
    BY <1>4, <2>1 DEF HandleSend, TypeOK, Drops, Remembers, Msgs
  <2> QED BY <1>4, <2>2, <2>3, <2>4, <2>5 DEF HandleSend, TypeOK, allocVars, timerVars, tcpVars
<1>5. CASE HandleHold(c)
  <2>1. slot[c] \in Slots /\ msg[c].n % SeqMod \in Seqs /\ msg[c] \in Msgs
    BY <1>5, WorkerHas, SeqOfNumber DEF HandleHold
  <2>2. /\ pc' \in [Conns -> {"idle", "match", "alloc", "write", "handle", "pass"}]
        /\ msg' \in [Conns -> Msgs \cup {None}] /\ slot' \in [Conns -> Slots \cup {None}]
    BY <1>5, DoneType DEF HandleHold
  <2>3. /\ seq' \in [Slots -> Seqs] /\ drop_cnt' \in [Slots -> Nat]
        /\ held' \in [Slots -> Msgs \cup {None}]
        /\ timer' \in [Slots -> BOOLEAN] /\ late' \subseteq Slots
    BY <1>5, <2>1 DEF HandleHold, Remembers, TypeOK
  <2>4. lost' \subseteq Conns /\ foreign' \subseteq Slots
    BY <1>5, <2>1 DEF HandleHold, TypeOK, Drops, Remembers, Msgs
  <2> QED BY <1>5, <2>2, <2>3, <2>4 DEF HandleHold, TypeOK, allocVars, timerVars, tcpVars
<1>6. CASE HandleOld(c)
  <2>1. /\ pc' \in [Conns -> {"idle", "match", "alloc", "write", "handle", "pass"}]
        /\ msg' \in [Conns -> Msgs \cup {None}] /\ slot' \in [Conns -> Slots \cup {None}]
    BY <1>6, DoneType DEF HandleOld
  <2> QED BY <1>6, <2>1
          DEF HandleOld, TypeOK, tableVars, msgVars, allocVars, timerVars, tcpVars
<1>7. CASE Pass(c)
  <2>1. /\ pc' \in [Conns -> {"idle", "match", "alloc", "write", "handle", "pass"}]
        /\ msg' \in [Conns -> Msgs \cup {None}] /\ slot' \in [Conns -> Slots \cup {None}]
    BY <1>7, DoneType DEF Pass
  <2>2. msg[c].conn = c /\ msg[c].n \in Nat
    BY <1>7, WorkerHas DEF Pass
  <2>3. acked' \in [Conns -> Nat] /\ in_send' \in [Slots -> Msgs \cup {None}]
    BY <1>7, <2>2 DEF Pass, Reaches, Moved, TypeOK
  <2> QED BY <1>7, <2>1, <2>3 DEF Pass, TypeOK, tableVars, allocVars, timerVars, tcpVars
<1> QED BY <1>1, <1>2, <1>3, <1>4, <1>5, <1>6, <1>7

LEMMA TimerType ==
    ASSUME TypeOK, AtWork, NEW s \in Slots, TimerStep(s)
    PROVE  TypeOK'
<1>1. CASE Fire(s)
  BY <1>1 DEF Fire, TypeOK, tableVars, allocVars, senderVars, tcpVars
<1>2. CASE TimeoutTake(s)
  BY <1>2 DEF TimeoutTake, TypeOK, allocVars, senderVars, tcpVars
<1>3. CASE TimeoutGivesUp(s)
  BY <1>3 DEF TimeoutGivesUp, TypeOK, tableVars, allocVars, senderVars, tcpVars
<1>4. CASE TimeoutSend(s)
  <2>1. tmsg[s] \in Msgs /\ tmsg[s].conn \in Conns /\ tmsg[s].n \in Nat
    BY <1>4 DEF TimeoutSend, AtWork, TypeOK, Msgs
  <2>2. acked' \in [Conns -> Nat] /\ in_send' \in [Slots -> Msgs \cup {None}]
    BY <1>4, <2>1 DEF TimeoutSend, Reaches, Moved, TypeOK
  <2> QED BY <1>4, <2>2 DEF TimeoutSend, TypeOK, tableVars, allocVars, senderVars, tcpVars
<1> QED BY <1>1, <1>2, <1>3, <1>4 DEF TimerStep

LEMMA OtherType ==
    ASSUME TypeOK,
           \/ \E c \in Conns : RxPush(c) \/ Reopen(c)
           \/ RxMark \/ Unregister \/ \E s \in Slots : Deinit(s)
    PROVE  TypeOK'
<1>1. ASSUME NEW c \in Conns, RxPush(c) PROVE TypeOK'
  <2>1. Min(Matching(c)) \in Slots
    <3>1. Matching(c) \in SUBSET Slots /\ Matching(c) # {}
      BY <1>1 DEF Matching, RxPush
    <3> QED BY <3>1, MinOfSlots
  <2>2. push' \in [slot : Slots \cup {None}, seq : Seqs]
    BY <1>1, <2>1, SeqOfNumber DEF RxPush, TypeOK
  <2>3. events' \in 0..MaxEvents
    BY <1>1, TcpAckAssumption DEF RxPush, TypeOK, TcpAckAssumption
  <2> QED BY <1>1, <2>2, <2>3
          DEF RxPush, TypeOK, tableVars, msgVars, allocVars, senderVars, timerVars
<1>2. ASSUME NEW c \in Conns, Reopen(c) PROVE TypeOK'
  <2>1. First - 1 \in Nat
    BY TcpAckAssumption DEF TcpAckAssumption
  <2>2. events' \in 0..MaxEvents
    BY <1>2, TcpAckAssumption DEF Reopen, TypeOK, TcpAckAssumption
  <2>3. /\ asked' \in [Conns -> Nat] /\ acked' \in [Conns -> Nat] /\ lost' \subseteq Conns
        /\ foreign' \subseteq Slots
    BY <1>2, <2>1 DEF Reopen, TypeOK
  <2> QED BY <1>2, <2>2, <2>3
          DEF Reopen, TypeOK, tableVars, msgVars, allocVars, senderVars, timerVars
<1>3. CASE RxMark
  <2>1. 0 \in Seqs
    BY TcpAckAssumption DEF Seqs, TcpAckAssumption
  <2>2. push' \in [slot : Slots \cup {None}, seq : Seqs] /\ psh' \in [Slots -> Seqs \cup {None}]
    BY <1>3, <2>1 DEF RxMark, TypeOK
  <2> QED BY <1>3, <2>2
          DEF RxMark, TypeOK, msgVars, allocVars, senderVars, timerVars, tcpVars
<1>4. CASE Unregister
  <2>1. down' \in 0..(TCP_ACK_NUM + 1)
    BY <1>4, TcpAckAssumption DEF Unregister, TcpAckAssumption
  <2> QED BY <1>4, <2>1
          DEF Unregister, TypeOK, tableVars, msgVars, allocVars, senderVars, timerVars, tcpVars
<1>5. ASSUME NEW s \in Slots, Deinit(s) PROVE TypeOK'
  <2>1. down' \in 0..(TCP_ACK_NUM + 1)
    BY <1>5, TcpAckAssumption DEF Deinit, TcpAckAssumption, Slots
  <2>2. lost' \subseteq Conns
    BY <1>5 DEF Deinit, TypeOK, Msgs
  <2>3. held' \in [Slots -> Msgs \cup {None}] /\ timer' \in [Slots -> BOOLEAN]
        /\ late' \subseteq Slots
    BY <1>5 DEF Deinit, TypeOK
  <2> QED BY <1>5, <2>1, <2>2, <2>3
          DEF Deinit, TypeOK, tableVars, allocVars, senderVars, timerVars, tcpVars
<1> QED BY <1>1, <1>2, <1>3, <1>4, <1>5

LEMMA TypeNext ==
    ASSUME TypeOK, AtWork, Counted, [Next]_vars
    PROVE  TypeOK'
<1>1. CASE UNCHANGED vars
  BY <1>1 DEF TypeOK, vars, tableVars, msgVars, allocVars, senderVars, timerVars, tcpVars
<1>2. CASE Next
  BY <1>2, SubmitEffect, SenderType, TimerType, OtherType DEF Next, TimerStep
<1> QED BY <1>1, <1>2

\* Between Submit and Done a sender only moves on, and a reopened connection
\* has none.
LEMMA AtWorkNext ==
    ASSUME TypeOK, AtWork, Counted, [Next]_vars
    PROVE  AtWork'
<1>1. CASE UNCHANGED <<pc, msg, slot, tpc, tmsg, asked>>
  BY <1>1 DEF AtWork
<1>2. ASSUME NEW c \in Conns, Submit(c) PROVE AtWork'
  <2>1. UNCHANGED <<tpc, tmsg, slot>>
    BY <1>2 DEF Submit, timerVars
  <2>2. msg'[c] # None
    BY <1>2, SubmitEffect, NoneIsNobody
  <2> QED BY <1>2, <2>1, <2>2, SubmitEffect DEF AtWork
<1>3. ASSUME NEW c \in Conns, NEW s \in Slots \cup {None}, pc[c] # "idle",
             NEW p \in {"match", "alloc", "write", "handle", "pass"}, Goes(c, p, s),
             p \in {"write", "handle"} => s # None,
             UNCHANGED <<tpc, tmsg, asked>>
      PROVE  AtWork'
  BY <1>3, GoesType DEF AtWork
<1>4. ASSUME NEW c \in Conns, Done(c), UNCHANGED <<tpc, tmsg, asked>> PROVE AtWork'
  BY <1>4, DoneType DEF AtWork
<1>5. ASSUME NEW c \in Conns, Match(c) PROVE AtWork'
  <2>1. Matching(c) # {} => Min(Matching(c)) \in Slots
    <3>1. Matching(c) \in SUBSET Slots
      BY DEF Matching
    <3> QED BY <3>1, MinOfSlots
  <2>2. PICK s \in Slots \cup {None}, p \in {"handle", "alloc"} :
            Goes(c, p, s) /\ (p = "handle" => s # None)
    BY <1>5, <2>1, NoneIsNobody DEF Match
  <2> QED BY <1>3, <1>5, <2>2 DEF Match, timerVars, tcpVars
<1>6. ASSUME NEW c \in Conns, Alloc(c) PROVE AtWork'
  <2>1. Unused # {} => Min(Unused) \in Slots
    <3>1. Unused \in SUBSET Slots
      BY DEF Unused
    <3> QED BY <3>1, MinOfSlots
  <2>2. PICK s \in Slots \cup {None}, p \in {"pass", "write"} :
            Goes(c, p, s) /\ (p = "write" => s # None)
    BY <1>6, <2>1, NoneIsNobody DEF Alloc, TypeOK
  <2> QED BY <1>3, <1>6, <2>2 DEF Alloc, timerVars, tcpVars
<1>7. ASSUME NEW c \in Conns, Write(c) \/ HandleSend(c) PROVE AtWork'
  <2>1. /\ \E s \in Slots \cup {None} : Goes(c, "pass", s)
        /\ pc[c] # "idle" /\ UNCHANGED <<tpc, tmsg, asked>>
    BY <1>7 DEF Write, HandleSend, TypeOK, timerVars, tcpVars
  <2> QED BY <1>3, <2>1
<1>8. ASSUME NEW c \in Conns, HandleHold(c) \/ HandleOld(c) \/ Pass(c) PROVE AtWork'
  BY <1>4, <1>8 DEF HandleHold, HandleOld, Pass, timerVars, tcpVars
<1>9. ASSUME NEW s \in Slots, TimerStep(s) PROVE AtWork'
  <2>1. /\ UNCHANGED <<pc, msg, slot, asked>>
        /\ \A t \in Slots \ {s} : tpc'[t] = tpc[t] /\ tmsg'[t] = tmsg[t]
        /\ tpc'[s] = "send" <=> tmsg'[s] # None
    <3>1. CASE Fire(s)
      BY <3>1 DEF Fire, senderVars, tcpVars, TypeOK, AtWork
    <3>2. CASE TimeoutTake(s)
      BY <3>2 DEF TimeoutTake, Sendable, senderVars, tcpVars, TypeOK
    <3>3. CASE TimeoutGivesUp(s) \/ TimeoutSend(s)
      BY <3>3 DEF TimeoutGivesUp, TimeoutSend, senderVars, tcpVars, TypeOK
    <3> QED BY <1>9, <3>1, <3>2, <3>3 DEF TimerStep
  <2> QED BY <2>1 DEF AtWork
<1>10. ASSUME NEW c \in Conns, Reopen(c) PROVE AtWork'
  <2>1. pc[c] = "idle"
    <3>1. pc[c] # "idle" => msg[c] \in InHand /\ msg[c].conn = c
      BY DEF InHand, AtWork
    <3> QED BY <1>10, <3>1 DEF Reopen
  <2>2. \A d \in Conns \ {c} : asked'[d] = asked[d]
    BY <1>10 DEF Reopen, TypeOK
  <2> QED BY <1>10, <2>1, <2>2 DEF Reopen, AtWork, senderVars, timerVars
<1>11. ASSUME \/ \E c \in Conns : RxPush(c)
              \/ RxMark \/ Unregister \/ \E s \in Slots : Deinit(s)
       PROVE  AtWork'
  <2>1. UNCHANGED <<pc, msg, slot, tpc, tmsg, asked>>
    BY <1>11 DEF RxPush, RxMark, Unregister, Deinit, senderVars, timerVars, tcpVars
  <2> QED BY <1>1, <2>1
<1>12. CASE UNCHANGED vars
  BY <1>1, <1>12 DEF vars, senderVars, timerVars, tcpVars
<1>13. CASE Next
  BY <1>2, <1>5, <1>6, <1>7, <1>8, <1>9, <1>10, <1>11, <1>13 DEF Next, TimerStep
<1> QED BY <1>12, <1>13

-----------------------------------------------------------------------------
(* A message is in one place *)

\* OnePlace and Numbered, by the places rather than by the sets of messages.
Distinct ==
    /\ \A s, t \in Slots : s # t /\ held[s] # None => held[s] # held[t]
    /\ \A s \in Slots, c \in Conns : held[s] # None => held[s] # msg[c]
    /\ \A s, t \in Slots : held[s] # None => held[s] # tmsg[t]
    /\ \A s, t \in Slots : s # t /\ tmsg[s] # None => tmsg[s] # tmsg[t]
    /\ \A s \in Slots, c \in Conns : msg[c] # None => msg[c] # tmsg[s]
    /\ \A s \in Slots : held[s] # None => held[s].no <= acks
    /\ \A s \in Slots : tmsg[s] # None => tmsg[s].no <= acks
    /\ \A c \in Conns : msg[c] # None => msg[c].no <= acks

LEMMA InHandIs ==
    AtWork => \A m : m \in InHand <=> /\ m # None
                                      /\ \/ \E c \in Conns : msg[c] = m
                                         \/ \E s \in Slots : tmsg[s] = m
BY DEF AtWork, InHand

LEMMA HeldIs == \A m : m \in Held <=> m # None /\ \E s \in Slots : held[s] = m
BY DEF Held

Apart ==
    /\ \A s, t \in Slots : s # t /\ held[s] # None => held[s] # held[t]
    /\ Held \cap InHand = {}
    /\ \A s, t \in Slots : s # t /\ tmsg[s] # None => tmsg[s] # tmsg[t]
    /\ \A s \in Slots, c \in Conns : msg[c] # None => msg[c] # tmsg[s]

LEMMA DistinctIs == AtWork => (Distinct <=> Apart /\ Numbered)
<1> SUFFICES ASSUME AtWork PROVE Distinct <=> Apart /\ Numbered
  OBVIOUS
<1>1. ASSUME Distinct PROVE Apart /\ Numbered
  <2>1. Held \cap InHand = {}
    BY <1>1, InHandIs, HeldIs DEF Distinct
  <2>2. Numbered
    BY <1>1, InHandIs, HeldIs DEF Distinct, Numbered
  <2> QED BY <1>1, <2>1, <2>2 DEF Distinct, Apart
<1>2. ASSUME Apart, Numbered PROVE Distinct
  <2>1. \A s \in Slots : held[s] # None => held[s] \in Held
    BY HeldIs
  <2>2. \A c \in Conns : msg[c] # None => msg[c] \in InHand
    BY InHandIs
  <2>3. \A s \in Slots : tmsg[s] # None => tmsg[s] \in InHand
    BY InHandIs
  <2>4. \A s \in Slots, c \in Conns : held[s] # None => held[s] # msg[c]
    BY <1>2, <2>1, <2>2 DEF Apart
  <2>5. \A s, t \in Slots : held[s] # None => held[s] # tmsg[t]
    BY <1>2, <2>1, <2>3 DEF Apart
  <2> QED BY <1>2, <2>1, <2>2, <2>3, <2>4, <2>5 DEF Apart, Numbered, Distinct
<1> QED BY <1>1, <1>2

LEMMA DistinctAfter == (AtWork => (Distinct <=> Apart /\ Numbered))'
<1> QED BY DistinctIs, PTL

\* A message moves from a sender to a slot, from a slot to its timer handler,
\* or is gone; a new one has a new number.
LEMMA DistinctNext ==
    ASSUME TypeOK, AtWork, Counted, Distinct, [Next]_vars
    PROVE  Distinct'
<1>0. \A s \in Slots : held[s] \in Msgs \cup {None} /\ tmsg[s] \in Msgs \cup {None}
  BY DEF TypeOK
<1>1. CASE UNCHANGED <<held, msg, tmsg, acks>>
  BY <1>1 DEF Distinct
<1>2. ASSUME NEW c \in Conns, Submit(c) PROVE Distinct'
  <2>1. UNCHANGED <<held, tmsg>>
    BY <1>2 DEF Submit, msgVars, timerVars
  <2>2. /\ acks' = acks + 1 /\ acks \in Nat /\ msg'[c].conn = c /\ msg'[c].no = acks + 1
        /\ \A d \in Conns \ {c} : msg'[d] = msg[d]
    BY <1>2, SubmitEffect
  <2>3. \A m \in Msgs : m.no \in Int
    BY DEF Msgs
  <2>4. \A s \in Slots : /\ held[s] # None => held[s].no \in Int /\ held[s] # msg'[c]
                         /\ tmsg[s] # None => tmsg[s].no \in Int /\ tmsg[s] # msg'[c]
    BY <1>0, <2>2, <2>3 DEF Distinct
  <2>5. msg'[c] # None
    BY <1>2, SubmitEffect, NoneIsNobody
  <2>6. \A d \in Conns : msg[d] # None => msg[d].no \in Int
    BY <2>3 DEF TypeOK
  <2> QED BY <2>1, <2>2, <2>4, <2>5, <2>6 DEF Distinct
<1>3. ASSUME NEW c \in Conns, Done(c), UNCHANGED <<held, tmsg, acks>> PROVE Distinct'
  BY <1>3, DoneType DEF Distinct
<1>4. ASSUME NEW s \in Slots, held' = [held EXCEPT ![s] = None], UNCHANGED <<msg, tmsg, acks>>
      PROVE  Distinct'
  BY <1>4 DEF Distinct, TypeOK
<1>5. ASSUME NEW c \in Conns, Match(c) \/ Alloc(c) \/ Write(c) PROVE Distinct'
  BY <1>1, <1>5 DEF Match, Alloc, Write, Goes, msgVars, timerVars, tcpVars
<1>6. ASSUME NEW c \in Conns, HandleSend(c) PROVE Distinct'
  <2>1. slot[c] \in Slots
    BY <1>6, WorkerHas DEF HandleSend
  <2> QED BY <1>4, <1>6, <2>1 DEF HandleSend, Goes, timerVars, tcpVars
<1>7. ASSUME NEW c \in Conns, HandleHold(c) PROVE Distinct'
  <2>1. slot[c] \in Slots /\ msg[c] # None /\ msg[c].conn = c
    BY <1>7, WorkerHas, NoneIsNobody DEF HandleHold
  <2>2. /\ held' = [held EXCEPT ![slot[c]] = msg[c]] /\ UNCHANGED <<tmsg, acks>> /\ Done(c)
    BY <1>7 DEF HandleHold, timerVars, tcpVars
  <2>3. \A d \in Conns \ {c} : msg[d] # None => msg[d] # msg[c]
    BY <2>1 DEF AtWork
  <2>4. /\ held'[slot[c]] = msg[c] /\ \A t \in Slots \ {slot[c]} : held'[t] = held[t]
    BY <2>1, <2>2 DEF TypeOK
  <2>5. msg'[c] = None /\ \A d \in Conns \ {c} : msg'[d] = msg[d]
    BY <2>2, DoneType
  <2> QED BY <2>1, <2>2, <2>3, <2>4, <2>5 DEF Distinct
<1>8. ASSUME NEW c \in Conns, HandleOld(c) \/ Pass(c) PROVE Distinct'
  BY <1>3, <1>8 DEF HandleOld, Pass, msgVars, timerVars, tcpVars
<1>9. ASSUME NEW s \in Slots, TimeoutTake(s) PROVE Distinct'
  <2>1. /\ held[s] # None /\ UNCHANGED <<msg, acks>>
        /\ held'[s] = None /\ tmsg'[s] = held[s]
        /\ \A t \in Slots \ {s} : held'[t] = held[t] /\ tmsg'[t] = tmsg[t]
    BY <1>9 DEF TimeoutTake, Sendable, senderVars, tcpVars, TypeOK
  <2> QED BY <2>1 DEF Distinct
<1>10. ASSUME NEW s \in Slots, TimeoutGivesUp(s) \/ TimeoutSend(s) PROVE Distinct'
  <2>1. /\ UNCHANGED <<held, msg, acks>> /\ tmsg'[s] = None
        /\ \A t \in Slots \ {s} : tmsg'[t] = tmsg[t]
    BY <1>10 DEF TimeoutGivesUp, TimeoutSend, senderVars, tcpVars, TypeOK
  <2> QED BY <2>1 DEF Distinct
<1>11. ASSUME \/ \E c \in Conns : RxPush(c) \/ Reopen(c)
              \/ RxMark \/ Unregister \/ \E s \in Slots : Fire(s)
       PROVE  Distinct'
  BY <1>1, <1>11
     DEF RxPush, Reopen, RxMark, Unregister, Fire, msgVars, senderVars, timerVars, tcpVars
<1>12. ASSUME NEW s \in Slots, Deinit(s) PROVE Distinct'
  BY <1>4, <1>12 DEF Deinit, senderVars, timerVars, tcpVars
<1>13. CASE UNCHANGED vars
  BY <1>1, <1>13 DEF vars, msgVars, senderVars, timerVars, tcpVars
<1>14. CASE Next
  BY <1>2, <1>5, <1>6, <1>7, <1>8, <1>9, <1>10, <1>11, <1>12, <1>14 DEF Next
<1> QED BY <1>13, <1>14

-----------------------------------------------------------------------------
(* Slots that are in use *)

LEMMA Sizes ==
    /\ IsFiniteSet(Busy) /\ Cardinality(Busy) \in Nat
    /\ IsFiniteSet(Writers) /\ Cardinality(Writers) \in Nat
<1>1. Busy \in SUBSET Slots /\ Writers \in SUBSET Conns
  BY DEF Busy, Writers
<1> QED BY <1>1, CountedSets

LEMMA SizesAfter ==
    (/\ IsFiniteSet(Busy) /\ Cardinality(Busy) \in Nat
     /\ IsFiniteSet(Writers) /\ Cardinality(Writers) \in Nat)'
<1> QED BY Sizes, PTL

\* The slot in free_index is free, and max_num counts the busy slots and those
\* about to be filled, although tcp_ack_alloc_index and the write of the slot
\* are two steps, and aging may come between them.
LEMMA FreeNext ==
    ASSUME TypeOK, TypeOK', AtWork, FreeIsFree, Counted, [Next]_vars
    PROVE  FreeIsFree' /\ Counted'
<1>0. (free_index # None => ~busy[free_index]) /\ max_num \in Nat
  BY DEF FreeIsFree, TypeOK
<1>1. ASSUME UNCHANGED <<busy, free_index>>, max_num' >= max_num, max_num' \in Nat,
             \A c \in Conns : pc'[c] = "write" => pc[c] = "write" /\ slot'[c] = slot[c]
      PROVE  FreeIsFree' /\ Counted'
  <2>1. Busy' = Busy /\ Writers' \subseteq Writers
    BY <1>1 DEF Busy, Writers
  <2>2. Cardinality(Writers') <= Cardinality(Writers)
    BY <2>1, Sizes, FS_Subset
  <2>3. Counted'
    BY <1>1, <1>0, <2>1, <2>2, Sizes, SizesAfter DEF Counted, Writers
  <2>4. max_num >= Cardinality(Busy) /\ max_num' >= Cardinality(Busy')
    BY <1>1, <1>0, <2>1, Sizes DEF FreeIsFree, Busy
  <2> QED BY <1>0, <1>1, <2>3, <2>4 DEF FreeIsFree, Busy
<1>2. ASSUME NEW c \in Conns, Submit(c) PROVE FreeIsFree' /\ Counted'
  <2>1. PICK S \in SUBSET {s \in Slots : Idle(s)} : Age(S)
    BY <1>2 DEF Submit
  <2>2. /\ Busy' = Busy \ S /\ Cardinality(S) \in Nat
        /\ Cardinality(Busy') = Cardinality(Busy) - Cardinality(S)
    BY <2>1, AgedCount
  <2>3. pc' = [pc EXCEPT ![c] = "match"] /\ slot' = slot
    BY <1>2 DEF Submit
  <2>4. Writers' = Writers
    BY <1>2, <2>3 DEF Writers, Submit, TypeOK
  <2>5. max_num' = max_num - Cardinality(S)
    BY <2>1 DEF Age
  <2>6. max_num' >= Cardinality(Busy') + Cardinality(Writers')
    BY <1>0, <2>2, <2>4, <2>5, Sizes DEF Counted
  <2>7. CASE S = {}
    <3>1. free_index' = free_index /\ busy' = busy
      BY <2>1, <2>7 DEF Age, TypeOK
    <3>2. \A d \in Writers' : slot'[d] # free_index'
      BY <3>1, <2>3, <2>4 DEF Counted
    <3>3. max_num' >= Cardinality(Busy')
      BY <2>6, SizesAfter, <2>2, <2>5, <1>0
    <3> QED BY <1>0, <2>6, <3>1, <3>2, <3>3 DEF FreeIsFree, Counted, Busy
  <2>8. CASE S # {}
    <3>1. free_index' = Min(S) /\ Min(S) \in S /\ S \in SUBSET Slots
      <4>1. S \in SUBSET Slots
        OBVIOUS
      <4> QED BY <4>1, <2>1, <2>8, MinOfSlots DEF Age
    <3>2. ~busy'[Min(S)]
      BY <2>1, <3>1 DEF Age
    <3>3. \A d \in Writers' : slot'[d] # Min(S)
      BY <3>1, <2>3, <2>4 DEF Writers, Idle
    <3>4. max_num' >= Cardinality(Busy')
      BY <2>6, SizesAfter, <2>2, <2>5, <1>0
    <3> QED BY <2>6, <3>1, <3>2, <3>3, <3>4 DEF FreeIsFree, Counted, Busy
  <2> QED BY <2>7, <2>8
<1>3. ASSUME NEW c \in Conns, Alloc(c) PROVE FreeIsFree' /\ Counted'
  <2>1. busy' = busy /\ Busy' = Busy /\ pc[c] = "alloc"
    BY <1>3 DEF Alloc, tableVars, Busy
  <2>2. CASE Goes(c, "pass", None) /\ UNCHANGED free_index /\ max_num' >= max_num
    <3>1. \A d \in Conns : pc'[d] = "write" => pc[d] = "write" /\ slot'[d] = slot[d]
      BY <2>2, GoesType
    <3>2. max_num' \in Nat
      BY DEF TypeOK
    <3> QED BY <1>0, <1>1, <2>1, <2>2, <3>1, <3>2
  <2>3. ASSUME NEW s \in Slots, Goes(c, "write", s), NEW k \in Nat \ {0},
               max_num' = max_num + k, free_index' = None
        PROVE  FreeIsFree' /\ Counted'
    <3>1. Writers' = Writers \cup {c} /\ c \notin Writers
      BY <2>1, <2>3, GoesType DEF Writers
    <3>2. Cardinality(Writers') = Cardinality(Writers) + 1
      BY <3>1, Sizes, FS_AddElement
    <3>3. \A d \in Writers' : slot'[d] \in Slots
      BY <2>3, <3>1, GoesType, WorkerHas DEF Writers
    <3>4. max_num' >= Cardinality(Busy') + Cardinality(Writers')
      BY <1>0, <2>1, <2>3, <3>2, Sizes DEF Counted
    <3>5. max_num' >= Cardinality(Busy')
      BY <3>4, <1>0, <2>1, <2>3, <3>2, Sizes
    <3> QED BY <2>3, <3>3, <3>4, <3>5, NoneIsNobody DEF FreeIsFree, Counted, Busy
  <2>4. CASE max_num # TCP_ACK_NUM /\ free_index # None /\ Goes(c, "write", free_index)
             /\ max_num' = max_num + 1 /\ free_index' = None
    <3>1. free_index \in Slots
      BY <2>4 DEF TypeOK
    <3> QED BY <2>3, <2>4, <3>1
  <2>5. CASE free_index = None /\ Unused # {} /\ Goes(c, "write", Min(Unused))
             /\ UNCHANGED free_index
             /\ \E k \in Counts(c) : max_num' = max_num + k
    <3>1. Min(Unused) \in Slots
      <4>1. Unused \in SUBSET Slots
        BY DEF Unused
      <4> QED BY <4>1, <2>5, MinOfSlots
    <3>2. \A k \in Counts(c) : k \in Nat \ {0}
      BY DEF Counts
    <3> QED BY <2>3, <2>5, <3>1, <3>2
  <2>6. CASE /\ Goes(c, "pass", None) /\ UNCHANGED free_index
             /\ \/ UNCHANGED max_num
                \/ \E k \in Counts(c) : max_num' = max_num + k - 1
    <3>1. \A k \in Counts(c) : k - 1 \in Nat
      BY DEF Counts
    <3>2. max_num' >= max_num
      BY <1>0, <2>6, <3>1
    <3> QED BY <2>2, <2>6, <3>2
  <2> QED BY <1>3, <2>4, <2>5, <2>6 DEF Alloc, allocVars
<1>4. ASSUME NEW c \in Conns, Write(c) PROVE FreeIsFree' /\ Counted'
  <2>1. PICK s \in Slots : s = slot[c]
    BY <1>4, WorkerHas DEF Write
  <2>2. /\ busy' = [busy EXCEPT ![s] = TRUE] /\ Goes(c, "pass", None)
        /\ UNCHANGED <<max_num, free_index>> /\ pc[c] = "write"
    BY <1>4, <2>1 DEF Write, allocVars
  <2>3. c \in Writers /\ Writers' = Writers \ {c}
    BY <2>2, GoesType DEF Writers
  <2>4. Cardinality(Writers') = Cardinality(Writers) - 1
    BY <2>3, Sizes, FS_RemoveElement
  <2>5. Busy' = Busy \cup {s}
    BY <2>2 DEF Busy, TypeOK
  <2>6. Cardinality(Busy') <= Cardinality(Busy) + 1
    <3>1. Cardinality(Busy \cup {s}) = IF s \in Busy THEN Cardinality(Busy)
                                                     ELSE Cardinality(Busy) + 1
      BY Sizes, FS_AddElement, Zenon
    <3> QED BY <2>5, <3>1, Sizes
  <2>7. max_num' >= Cardinality(Busy') + Cardinality(Writers')
    BY <1>0, <2>2, <2>4, <2>6, Sizes, SizesAfter DEF Counted
  <2>8. \A d \in Writers' : slot'[d] # free_index'
    BY <2>2, <2>3, GoesType DEF Counted, Writers
  <2>9. free_index' # None => ~busy'[free_index']
    BY <2>1, <2>2, <2>3, <1>0 DEF Counted, TypeOK
  <2>10. max_num' >= Cardinality(Busy')
    BY <2>7, SizesAfter, <1>0, <2>2
  <2> QED BY <2>7, <2>8, <2>9, <2>10 DEF FreeIsFree, Counted, Busy
<1>5. ASSUME NEW c \in Conns, Match(c) PROVE FreeIsFree' /\ Counted'
  <2>1. \A d \in Conns : pc'[d] = "write" => pc[d] = "write" /\ slot'[d] = slot[d]
    BY <1>5 DEF Match, Goes, TypeOK
  <2> QED BY <1>0, <1>1, <1>5, <2>1 DEF Match, tableVars, allocVars
<1>6. ASSUME NEW c \in Conns, HandleSend(c) PROVE FreeIsFree' /\ Counted'
  <2>1. \A d \in Conns : pc'[d] = "write" => pc[d] = "write" /\ slot'[d] = slot[d]
    BY <1>6 DEF HandleSend, Goes, TypeOK
  <2> QED BY <1>0, <1>1, <1>6, <2>1 DEF HandleSend, allocVars
<1>7. ASSUME NEW c \in Conns, HandleHold(c) \/ HandleOld(c) \/ Pass(c)
      PROVE FreeIsFree' /\ Counted'
  <2>1. Done(c) /\ UNCHANGED <<busy, max_num, free_index>>
    BY <1>7 DEF HandleHold, HandleOld, Pass, allocVars, tableVars
  <2>2. \A d \in Conns : pc'[d] = "write" => pc[d] = "write" /\ slot'[d] = slot[d]
    BY <2>1, DoneType
  <2> QED BY <1>0, <1>1, <2>1, <2>2
<1>8. ASSUME \/ \E s \in Slots : TimerStep(s) \/ Deinit(s)
             \/ \E c \in Conns : RxPush(c) \/ Reopen(c)
             \/ RxMark \/ Unregister
      PROVE  FreeIsFree' /\ Counted'
  <2>1. UNCHANGED <<busy, max_num, free_index, pc, slot>>
    BY <1>8 DEF TimerStep, Fire, TimeoutTake, TimeoutGivesUp, TimeoutSend, Deinit, RxPush,
                Reopen, RxMark, Unregister, tableVars, allocVars, senderVars
  <2> QED BY <1>0, <1>1, <2>1
<1>9. CASE UNCHANGED vars
  BY <1>0, <1>1, <1>9 DEF vars, tableVars, allocVars, senderVars
<1>10. CASE Next
  BY <1>2, <1>3, <1>4, <1>5, <1>6, <1>7, <1>8, <1>10 DEF Next, TimerStep
<1> QED BY <1>9, <1>10

\* Once the interfaces are unregistered nobody sends, and the slots passed by
\* tcp_ack_deinit hold nothing, also when a timer handler is still running.
LEMMA EndingNext ==
    ASSUME TypeOK, AtWork, Ending, [Next]_vars
    PROVE  Ending'
<1>0. down \in Int
  BY DEF TypeOK
<1>1. CASE UNCHANGED <<down, pc, held>>
  BY <1>1 DEF Ending
<1>2. ASSUME NEW c \in Conns, Submit(c) PROVE Ending'
  <2>1. down' = 0 /\ UNCHANGED held
    BY <1>2 DEF Submit, msgVars
  <2> QED BY <2>1, TcpAckAssumption DEF Ending, Slots, TcpAckAssumption
<1>3. ASSUME NEW c \in Conns, SendStep(c) PROVE Ending'
  <2>1. pc[c] # "idle" /\ down' = down
    BY <1>3 DEF SendStep, Match, Alloc, Write, HandleSend, HandleHold, HandleOld, Pass
  <2>2. ~(down > 0)
    BY <2>1 DEF Ending
  <2> QED BY <1>0, <2>1, <2>2, TcpAckAssumption DEF Ending, Slots, TcpAckAssumption
<1>4. ASSUME NEW s \in Slots, TimeoutTake(s) PROVE Ending'
  <2>1. held' = [held EXCEPT ![s] = None] /\ UNCHANGED <<down, pc>>
    BY <1>4 DEF TimeoutTake, senderVars
  <2> QED BY <2>1 DEF Ending, TypeOK
<1>5. ASSUME \/ \E s \in Slots : Fire(s) \/ TimeoutGivesUp(s) \/ TimeoutSend(s)
             \/ \E c \in Conns : RxPush(c) \/ Reopen(c)
             \/ RxMark
      PROVE  Ending'
  BY <1>1, <1>5 DEF Fire, TimeoutGivesUp, TimeoutSend, RxPush, Reopen, RxMark, msgVars, senderVars
<1>6. CASE Unregister
  <2>1. down' = 1 /\ UNCHANGED <<pc, held>> /\ \A c \in Conns : pc[c] = "idle"
    BY <1>6 DEF Unregister, msgVars, senderVars
  <2> QED BY <2>1, TcpAckAssumption DEF Ending, Slots, TcpAckAssumption
<1>7. ASSUME NEW s \in Slots, Deinit(s) PROVE Ending'
  <2>1. /\ down = s /\ down' = s + 1 /\ UNCHANGED pc
        /\ held' = [held EXCEPT ![s] = None]
    BY <1>7 DEF Deinit, senderVars
  <2>2. \A t \in Slots : t < s + 1 => t < s \/ t = s
    BY TcpAckAssumption DEF Slots, TcpAckAssumption
  <2>3. s > 0
    BY DEF Slots
  <2> QED BY <2>1, <2>2, <2>3 DEF Ending, TypeOK
<1>8. CASE UNCHANGED vars
  BY <1>1, <1>8 DEF vars, msgVars, senderVars
<1>9. CASE Next
  BY <1>2, <1>3, <1>4, <1>5, <1>6, <1>7, <1>9 DEF Next, SendStep
<1> QED BY <1>8, <1>9

\* Only aging gives a slot up.
LEMMA StaysBusyNext ==
    ASSUME TypeOK, AtWork, StaysBusy, [Next]_vars
    PROVE  StaysBusy'
<1>1. ASSUME UNCHANGED <<busy, aged>>,
             \A s \in Slots : in_send'[s] # None =>
                in_send[s] # None \/ busy[s] \/ \E c \in Conns : pc[c] = "handle" /\ slot[c] = s,
             \A c \in Conns : pc'[c] = "handle" =>
                (pc[c] = "handle" /\ slot'[c] = slot[c]) \/ busy[slot'[c]]
      PROVE  StaysBusy'
  BY <1>1 DEF StaysBusy
<1>2. ASSUME NEW c \in Conns, Submit(c) PROVE StaysBusy'
  <2>1. aged' \/ UNCHANGED <<busy, aged>>
    <3>1. PICK S \in SUBSET {s \in Slots : Idle(s)} : Age(S)
      BY <1>2 DEF Submit
    <3> QED BY <3>1 DEF Age, TypeOK
  <2>2. UNCHANGED <<in_send, slot>> /\ pc' = [pc EXCEPT ![c] = "match"]
    BY <1>2 DEF Submit, msgVars
  <2> QED BY <1>1, <2>1, <2>2 DEF StaysBusy, TypeOK
<1>3. ASSUME NEW c \in Conns, Match(c) PROVE StaysBusy'
  <2>1. Matching(c) # {} => Min(Matching(c)) \in Slots /\ busy[Min(Matching(c))]
    <3>1. Matching(c) \in SUBSET Slots
      BY DEF Matching
    <3> QED BY <3>1, MinOfSlots DEF Matching
  <2>2. \A d \in Conns : pc'[d] = "handle" =>
                (pc[d] = "handle" /\ slot'[d] = slot[d]) \/ busy[slot'[d]]
    BY <1>3, <2>1 DEF Match, Goes, TypeOK
  <2> QED BY <1>1, <1>3, <2>2 DEF Match, tableVars, msgVars, tcpVars
<1>4. ASSUME NEW c \in Conns, Alloc(c) PROVE StaysBusy'
  <2>1. \A d \in Conns : pc'[d] = "handle" => pc[d] = "handle" /\ slot'[d] = slot[d]
    BY <1>4 DEF Alloc, Goes, TypeOK
  <2> QED BY <1>1, <1>4, <2>1 DEF Alloc, tableVars, msgVars, tcpVars
<1>5. ASSUME NEW c \in Conns, Write(c) PROVE StaysBusy'
  <2>1. slot[c] \in Slots
    BY <1>5, WorkerHas DEF Write
  <2>2. /\ \A s : busy[s] => busy'[s]
        /\ UNCHANGED <<aged, in_send>>
    BY <1>5, <2>1 DEF Write, TypeOK, msgVars, tcpVars
  <2>3. \A d \in Conns : pc'[d] = "handle" => pc[d] = "handle" /\ slot'[d] = slot[d]
    BY <1>5 DEF Write, Goes, TypeOK
  <2> QED BY <2>2, <2>3 DEF StaysBusy
<1>6. ASSUME NEW c \in Conns, HandleSend(c) PROVE StaysBusy'
  <2>1. \A d \in Conns : pc'[d] = "handle" => pc[d] = "handle" /\ slot'[d] = slot[d]
    BY <1>6 DEF HandleSend, Goes, TypeOK
  <2>2. \A s \in Slots : in_send'[s] # None => in_send[s] # None \/ slot[c] = s
    BY <1>6 DEF HandleSend, TypeOK
  <2> QED BY <1>1, <1>6, <2>1, <2>2 DEF HandleSend, tcpVars
<1>7. ASSUME NEW c \in Conns, HandleHold(c) \/ HandleOld(c) \/ Pass(c) PROVE StaysBusy'
  <2>1. Done(c) /\ UNCHANGED <<busy, aged>>
    BY <1>7 DEF HandleHold, HandleOld, Pass, tableVars, tcpVars
  <2>2. \A d \in Conns : pc'[d] = "handle" => pc[d] = "handle" /\ slot'[d] = slot[d]
    BY <2>1, DoneType
  <2>3. \A s \in Slots : in_send'[s] # None => in_send[s] # None
    BY <1>7 DEF HandleHold, HandleOld, Pass, Moved, msgVars
  <2> QED BY <1>1, <2>1, <2>2, <2>3
<1>8. ASSUME NEW s \in Slots, TimerStep(s) \/ Deinit(s) PROVE StaysBusy'
  <2>1. UNCHANGED <<busy, aged, pc, slot>>
    BY <1>8 DEF TimerStep, Fire, TimeoutTake, TimeoutGivesUp, TimeoutSend, Deinit,
                tableVars, senderVars, tcpVars
  <2>2. \A t \in Slots : in_send'[t] # None => in_send[t] # None \/ busy[t]
    BY <1>8 DEF TimerStep, Fire, TimeoutTake, TimeoutGivesUp, TimeoutSend, Deinit, Sendable,
                Moved, TypeOK
  <2> QED BY <1>1, <2>1, <2>2
<1>9. ASSUME \/ \E c \in Conns : RxPush(c) \/ Reopen(c)
             \/ RxMark \/ Unregister
      PROVE  StaysBusy'
  <2>1. UNCHANGED <<busy, aged, pc, slot, in_send>>
    BY <1>9 DEF RxPush, Reopen, RxMark, Unregister, tableVars, msgVars, senderVars, tcpVars
  <2> QED BY <1>1, <2>1
<1>10. CASE UNCHANGED vars
  BY <1>1, <1>10 DEF vars, tableVars, msgVars, senderVars, tcpVars
<1>11. CASE Next
  BY <1>2, <1>3, <1>4, <1>5, <1>6, <1>7, <1>8, <1>9, <1>11 DEF Next, TimerStep
<1> QED BY <1>10, <1>11

\* The message in in_send_msg is on its way.
OnWay(m) == \/ \E c \in Conns : pc[c] = "pass" /\ msg[c] = m
            \/ \E t \in Slots : tpc[t] = "send" /\ tmsg[t] = m

LEMMA SendsEndNext ==
    ASSUME TypeOK, AtWork, StaysBusy, SendsEnd, [Next]_vars
    PROVE  SendsEnd'
<1>0. ~aged' /\ down' <= 1 => ~aged /\ down <= 1
  <2>1. down \in Int
    BY DEF TypeOK
  <2>2. ~aged' => ~aged
    <3>1. CASE \E c \in Conns : Submit(c)
      BY <3>1 DEF Submit, Age
    <3>2. CASE ~\E c \in Conns : Submit(c)
      BY <3>2 DEF Next, Match, Alloc, Write, HandleSend, HandleHold, HandleOld, Pass, Fire,
                  TimeoutTake, TimeoutGivesUp, TimeoutSend, RxPush, RxMark, Reopen,
                  Unregister, Deinit, vars, tcpVars
    <3> QED BY <3>1, <3>2
  <2>3. down' = down \/ (down = 0 /\ down' = 1) \/ (down' = down + 1)
    BY DEF Next, Submit, Match, Alloc, Write, HandleSend, HandleHold, HandleOld, Pass, Fire,
           TimeoutTake, TimeoutGivesUp, TimeoutSend, RxPush, RxMark, Reopen,
           Unregister, Deinit, vars
  <2> QED BY <2>1, <2>2, <2>3
<1> SUFFICES ASSUME ~aged, down <= 1, NEW s \in Slots, in_send'[s] # None
             PROVE  OnWay(in_send[s])'
  BY <1>0 DEF SendsEnd, OnWay
<1>1. \A t \in Slots : in_send[t] # None => OnWay(in_send[t]) /\ busy[t]
  BY DEF SendsEnd, StaysBusy, OnWay
<1>2. ASSUME in_send'[s] = in_send[s], UNCHANGED <<tpc, tmsg>>,
             \A c \in Conns : pc[c] = "pass" => pc'[c] = "pass" /\ msg'[c] = msg[c]
      PROVE  OnWay(in_send[s])'
  BY <1>1, <1>2 DEF OnWay
<1>3. ASSUME NEW c \in Conns, Submit(c) PROVE OnWay(in_send[s])'
  <2>1. UNCHANGED <<in_send, tpc, tmsg>> /\ pc[c] # "pass" /\ pc' = [pc EXCEPT ![c] = "match"]
    BY <1>3 DEF Submit, msgVars, timerVars
  <2>2. \A d \in Conns \ {c} : msg'[d] = msg[d] /\ pc'[d] = pc[d]
    BY <1>3, <2>1 DEF Submit, TypeOK
  <2> QED BY <1>2, <2>1, <2>2
<1>4. ASSUME NEW c \in Conns, Match(c) \/ Alloc(c) \/ Write(c) PROVE OnWay(in_send[s])'
  <2>1. UNCHANGED <<in_send, tpc, tmsg, msg>> /\ pc[c] # "pass"
    BY <1>4 DEF Match, Alloc, Write, Goes, msgVars, timerVars
  <2>2. \A d \in Conns \ {c} : pc'[d] = pc[d]
    BY <1>4 DEF Match, Alloc, Write, Goes, TypeOK
  <2> QED BY <1>2, <2>1, <2>2
<1>5. ASSUME NEW c \in Conns, HandleSend(c) PROVE OnWay(in_send[s])'
  <2>1. /\ UNCHANGED <<tpc, tmsg, msg>> /\ pc[c] # "pass" /\ pc'[c] = "pass"
        /\ \A d \in Conns \ {c} : pc'[d] = pc[d]
        /\ in_send'[s] = in_send[s] \/ in_send'[s] = msg[c]
    BY <1>5 DEF HandleSend, Goes, timerVars, TypeOK
  <2>2. CASE in_send'[s] = msg[c]
    BY <2>1, <2>2 DEF OnWay
  <2> QED BY <1>2, <2>1, <2>2
<1>6. ASSUME NEW c \in Conns, HandleHold(c) \/ HandleOld(c) PROVE OnWay(in_send[s])'
  <2>1. UNCHANGED <<in_send, tpc, tmsg>> /\ pc[c] # "pass" /\ Done(c)
    BY <1>6 DEF HandleHold, HandleOld, msgVars, timerVars
  <2> QED BY <1>2, <2>1, DoneType
<1>7. ASSUME NEW c \in Conns, Pass(c) PROVE OnWay(in_send[s])'
  <2>1. UNCHANGED <<tpc, tmsg>> /\ Done(c) /\ in_send' = Moved(msg[c])
    BY <1>7 DEF Pass, timerVars
  <2>2. in_send'[s] = in_send[s] /\ in_send[s] # msg[c]
    BY <2>1, <1>1 DEF Moved
  <2>3. \A d \in Conns \ {c} : pc'[d] = pc[d] /\ msg'[d] = msg[d]
    BY <2>1, DoneType
  <2> QED BY <2>1, <2>2, <2>3, <1>1 DEF OnWay
<1>8. ASSUME NEW t \in Slots, Fire(t) \/ TimeoutGivesUp(t) PROVE OnWay(in_send[s])'
  <2>1. /\ UNCHANGED <<in_send, pc, msg>> /\ tpc[t] # "send"
        /\ \A u \in Slots \ {t} : tpc'[u] = tpc[u] /\ tmsg'[u] = tmsg[u]
    BY <1>8 DEF Fire, TimeoutGivesUp, senderVars, TypeOK
  <2> QED BY <2>1, <1>1 DEF OnWay
<1>9. ASSUME NEW t \in Slots, TimeoutTake(t) PROVE OnWay(in_send[s])'
  <2>1. /\ UNCHANGED <<pc, msg>> /\ tpc[t] # "send"
        /\ tpc'[t] = "send" /\ tmsg'[t] = held[t]
        /\ \A u \in Slots \ {t} : tpc'[u] = tpc[u] /\ tmsg'[u] = tmsg[u]
        /\ in_send'[s] = IF s = t THEN held[t] ELSE in_send[s]
    BY <1>9 DEF TimeoutTake, senderVars, TypeOK
  <2> QED BY <2>1, <1>1 DEF OnWay
<1>10. ASSUME NEW t \in Slots, TimeoutSend(t) PROVE OnWay(in_send[s])'
  <2>1. /\ UNCHANGED <<pc, msg>> /\ in_send' = Moved(tmsg[t])
        /\ \A u \in Slots \ {t} : tpc'[u] = tpc[u] /\ tmsg'[u] = tmsg[u]
    BY <1>10 DEF TimeoutSend, senderVars, TypeOK
  <2>2. in_send'[s] = in_send[s] /\ in_send[s] # tmsg[t]
    BY <2>1, <1>1 DEF Moved
  <2> QED BY <2>1, <2>2, <1>1 DEF OnWay
<1>11. ASSUME \/ \E c \in Conns : RxPush(c) \/ Reopen(c)
              \/ RxMark \/ Unregister \/ \E t \in Slots : Deinit(t)
       PROVE  OnWay(in_send[s])'
  <2>1. UNCHANGED <<pc, msg, tpc, tmsg, in_send>>
    BY <1>11 DEF RxPush, Reopen, RxMark, Unregister, Deinit, msgVars, senderVars, timerVars
  <2> QED BY <1>2, <2>1
<1>12. CASE UNCHANGED vars
  BY <1>2, <1>12 DEF vars, msgVars, senderVars, timerVars
<1>13. CASE Next
  BY <1>3, <1>4, <1>5, <1>6, <1>7, <1>8, <1>9, <1>10, <1>11, <1>13 DEF Next
<1> QED BY <1>12, <1>13

-----------------------------------------------------------------------------
(* The number a slot remembers *)

\* Remainders of numbers that follow one another.
LEMMA RestOf ==
    ASSUME NEW M \in Nat \ {0}, NEW q \in Int, NEW r \in 0..(M - 1)
    PROVE  (M * q + r) % M = r
OBVIOUS

LEMMA NextRest ==
    ASSUME NEW M \in Nat \ {0}, NEW n \in Nat
    PROVE  (n + 1) % M = IF n % M = M - 1 THEN 0 ELSE (n % M) + 1
<1> DEFINE q == n \div M
           r == n % M
<1>1. n = M * q + r /\ q \in Int /\ r \in 0..(M - 1)
  OBVIOUS
<1> HIDE DEF q, r
<1>2. CASE r = M - 1
  <2>1. n + 1 = M * (q + 1) + 0 /\ q + 1 \in Int /\ 0 \in 0..(M - 1)
    BY <1>1, <1>2
  <2>2. (M * (q + 1) + 0) % M = 0
    BY <2>1, RestOf
  <2> QED BY <1>2, <2>1, <2>2 DEF r
<1>3. CASE r # M - 1
  <2>1. n + 1 = M * q + (r + 1) /\ r + 1 \in 0..(M - 1)
    BY <1>1, <1>3
  <2>2. (M * q + (r + 1)) % M = r + 1
    BY <1>1, <2>1, RestOf
  <2> QED BY <1>3, <2>1, <2>2 DEF r
<1> QED BY <1>2, <1>3

LEMMA LastRest ==
    ASSUME NEW M \in Nat \ {0}
    PROVE  (-1) % M = M - 1 /\ (M - 1) % M = M - 1 /\ 0 % M = 0
<1>1. -1 = M * (-1) + (M - 1) /\ M - 1 = M * 0 + (M - 1) /\ 0 = M * 0 + 0
      /\ M - 1 \in 0..(M - 1) /\ 0 \in 0..(M - 1)
  OBVIOUS
<1>2. (M * (-1) + (M - 1)) % M = M - 1
  BY <1>1, RestOf
<1>3. (M * 0 + (M - 1)) % M = M - 1
  BY <1>1, RestOf
<1>4. (M * 0 + 0) % M = 0
  BY <1>1, RestOf
<1> QED BY <1>1, <1>2, <1>3, <1>4

\* U32_BEFORE, whether or not the numbers have wrapped in between.
LEMMA BeforeNext ==
    ASSUME NEW n \in Nat
    PROVE  /\ Before(n % SeqMod, n % SeqMod)
           /\ Before(n % SeqMod, (n + 1) % SeqMod)
<1>0. SeqMod \in Nat \ {0}
  BY TcpAckAssumption DEF TcpAckAssumption
<1> DEFINE a == n % SeqMod
           b == (n + 1) % SeqMod
<1>1. a \in 0..(SeqMod - 1)
  BY <1>0
<1>2. b = IF a = SeqMod - 1 THEN 0 ELSE a + 1
  BY <1>0, NextRest
<1> HIDE DEF a, b
<1>3. (-1) % SeqMod = SeqMod - 1 /\ (SeqMod - 1) % SeqMod = SeqMod - 1 /\ 0 % SeqMod = 0
  BY <1>0, LastRest
<1>4. a - a = 0
  BY <1>1
<1>5. Before(a, a)
  BY <1>3, <1>4 DEF Before
<1>6. a - b = -1 \/ a - b = SeqMod - 1
  BY <1>0, <1>1, <1>2
<1>7. (a - b) % SeqMod = SeqMod - 1
  BY <1>3, <1>6
<1>8. SeqMod - 1 \in {0} \cup (SeqMod \div 2)..(SeqMod - 1)
  <2>1. SeqMod = 1 \/ (SeqMod \div 2 <= SeqMod - 1 /\ SeqMod \div 2 \in Int)
    BY <1>0
  <2> QED BY <1>0, <2>1
<1>9. Before(a, b)
  BY <1>7, <1>8 DEF Before
<1> QED BY <1>5, <1>9 DEF a, b

\* An acknowledgement is taken for old by a foreign number only.
LEMMA ForeignOnly ==
    ASSUME TypeOK, AtWork, Tracks, NEW c \in Conns, pc[c] = "handle", ~Newer(c)
    PROVE  slot[c] \in foreign \/ conn[slot[c]] # c
<1> SUFFICES ASSUME slot[c] \notin foreign, conn[slot[c]] = c PROVE FALSE
  OBVIOUS
<1>1. asked[c] \in Nat /\ msg[c].n = asked[c]
  BY WorkerHas DEF TypeOK
<1>2. \/ seq[slot[c]] = asked[c] % SeqMod
      \/ asked[c] > 0 /\ seq[slot[c]] = (asked[c] - 1) % SeqMod
  BY DEF Tracks, Tracked, Follows
<1>3. CASE seq[slot[c]] = asked[c] % SeqMod
  BY <1>1, <1>3, BeforeNext DEF Newer
<1>4. CASE asked[c] > 0 /\ seq[slot[c]] = (asked[c] - 1) % SeqMod
  <2>1. PICK k \in Nat : k = asked[c] - 1 /\ asked[c] = k + 1
    BY <1>1, <1>4
  <2>2. Before(k % SeqMod, (k + 1) % SeqMod)
    BY BeforeNext
  <2> QED BY <1>1, <1>4, <2>1, <2>2 DEF Newer
<1> QED BY <1>2, <1>3, <1>4

\* A step of others may give the connection's slot up, or write a foreign
\* number to it.
LEMMA TrackedFrame ==
    ASSUME TypeOK, AtWork, NEW c \in Conns, Tracked(c),
           pc'[c] = pc[c], slot'[c] = slot[c], asked'[c] = asked[c],
           \A s \in Slots : conn'[s] = c =>
              /\ conn[s] = c /\ (busy'[s] => busy[s])
              /\ s \in foreign => s \in foreign'
              /\ s \in foreign' \/ seq'[s] = seq[s]
    PROVE  Tracked(c)'
<1>1. \A s \in Matching(c)' : s \in Slots /\ conn'[s] = c /\ s \in Matching(c)
  BY DEF Matching
<1>2. \A s \in Slots : conn'[s] = c /\ Follows(c, s) => Follows(c, s)'
  BY DEF Follows
<1>3. pc[c] = "handle" => slot[c] \in Slots
  BY WorkerHas
<1> QED BY <1>1, <1>2, <1>3 DEF Tracked

\* A connection takes a slot only when it has none, its acknowledgements come
\* one after the other, and what another one writes is foreign.
LEMMA TracksNext ==
    ASSUME TypeOK, AtWork, Counted, Tracks, [Next]_vars
    PROVE  Tracks'
<1> SUFFICES ASSUME NEW c \in Conns, Tracked(c) PROVE Tracked(c)'
  BY DEF Tracks
<1>1. ASSUME UNCHANGED <<busy, conn, seq, foreign>>,
             pc'[c] = pc[c], slot'[c] = slot[c], asked'[c] = asked[c]
      PROVE  Tracked(c)'
  BY <1>1, TrackedFrame
<1>2. ASSUME NEW d \in Conns, Submit(d) PROVE Tracked(c)'
  <2>1. /\ UNCHANGED <<conn, seq, foreign, slot>> /\ pc[d] = "idle"
        /\ pc' = [pc EXCEPT ![d] = "match"]
        /\ asked'[d] \in {asked[d], asked[d] + 1}
        /\ \A e \in Conns \ {d} : asked'[e] = asked[e]
    BY <1>2 DEF Submit, TypeOK
  <2>2. \A s \in Slots : busy'[s] => busy[s]
    BY <1>2 DEF Submit, Age
  <2>3. CASE c # d
    BY <2>1, <2>2, <2>3, TrackedFrame DEF TypeOK
  <2>4. CASE c = d
    <3>1. Matching(c)' \subseteq Matching(c) /\ pc'[c] = "match" /\ asked[c] \in Nat
      BY <2>1, <2>2, <2>4 DEF Matching, TypeOK
    <3>2. \A s \in Matching(c) : s \in foreign \/ seq[s] = asked[c] % SeqMod
      BY <2>1, <2>4 DEF Tracked, Follows
    <3>3. asked'[c] = asked[c] \/ (asked'[c] > 0 /\ asked'[c] - 1 = asked[c])
      BY <2>1, <2>4, <3>1
    <3>4. \A s \in Matching(c) : Follows(c, s)'
      BY <2>1, <3>1, <3>2, <3>3 DEF Follows
    <3> QED BY <3>1, <3>4 DEF Tracked
  <2> QED BY <2>3, <2>4
<1>3. ASSUME NEW d \in Conns, NEW p \in {"match", "alloc", "write", "handle", "pass"},
             NEW s \in Slots \cup {None}, Goes(d, p, s), c # d,
             UNCHANGED <<busy, conn, seq, foreign, asked>>
      PROVE  Tracked(c)'
  BY <1>1, <1>3, GoesType
<1>4. ASSUME NEW d \in Conns, Match(d) PROVE Tracked(c)'
  <2>1. UNCHANGED <<busy, conn, seq, foreign, asked>> /\ pc[d] = "match"
    BY <1>4 DEF Match, tableVars, tcpVars
  <2>2. Matching(d) # {} => Min(Matching(d)) \in Matching(d) /\ Min(Matching(d)) \in Slots
    <3>1. Matching(d) \in SUBSET Slots
      BY DEF Matching
    <3> QED BY <3>1, MinOfSlots
  <2>3. PICK p \in {"handle", "alloc"}, s \in Slots \cup {None} :
            /\ Goes(d, p, s)
            /\ p = "handle" => s \in Matching(d)
            /\ p = "alloc" => Matching(d) = {}
    BY <1>4, <2>2 DEF Match
  <2>4. CASE c = d
    <3>1. pc'[c] = p /\ slot'[c] = s /\ Matching(c)' = Matching(c)
      BY <2>1, <2>3, <2>4, GoesType DEF Matching
    <3>2. \A t \in Matching(c) : Follows(c, t)'
      BY <2>1, <2>3, <2>4, <3>1 DEF Tracked, Follows
    <3>3. p = "handle" => Matching(c) \subseteq {s} /\ Follows(c, s)'
      BY <2>3, <2>4, <3>2 DEF Tracked
    <3> QED BY <2>3, <2>4, <3>1, <3>2, <3>3 DEF Tracked
  <2> QED BY <1>3, <2>1, <2>3, <2>4
<1>5. ASSUME NEW d \in Conns, Alloc(d) PROVE Tracked(c)'
  <2>1. UNCHANGED <<busy, conn, seq, foreign, asked>> /\ pc[d] = "alloc"
    BY <1>5 DEF Alloc, tableVars, tcpVars
  <2>2. Unused # {} => Min(Unused) \in Slots
    <3>1. Unused \in SUBSET Slots
      BY DEF Unused
    <3> QED BY <3>1, MinOfSlots
  <2>3. PICK p \in {"write", "pass"}, s \in Slots \cup {None} : Goes(d, p, s)
    BY <1>5, <2>2 DEF Alloc, TypeOK
  <2>4. CASE c = d
    <3>1. pc'[c] = p /\ Matching(c)' = {}
      BY <2>1, <2>3, <2>4, GoesType DEF Matching, Tracked
    <3> QED BY <2>3, <3>1 DEF Tracked
  <2> QED BY <1>3, <2>1, <2>3, <2>4
<1>6. ASSUME NEW d \in Conns, Write(d) PROVE Tracked(c)'
  <2>1. PICK s \in Slots : s = slot[d]
    BY <1>6, WorkerHas DEF Write
  <2>2. /\ busy' = [busy EXCEPT ![s] = TRUE] /\ conn' = [conn EXCEPT ![s] = d]
        /\ seq' = [seq EXCEPT ![s] = asked[d] % SeqMod] /\ foreign' = foreign \ {s}
        /\ Goes(d, "pass", None) /\ UNCHANGED asked /\ pc[d] = "write"
    BY <1>6, <2>1, WorkerHas DEF Write, tcpVars
  <2>3. /\ busy'[s] /\ conn'[s] = d /\ seq'[s] = asked[d] % SeqMod
        /\ \A t \in Slots \ {s} : busy'[t] = busy[t] /\ conn'[t] = conn[t] /\ seq'[t] = seq[t]
    BY <2>2 DEF TypeOK
  <2>4. CASE c = d
    <3>1. Matching(c)' = {s} /\ pc'[c] = "pass"
      BY <2>2, <2>3, <2>4, GoesType DEF Matching, Tracked
    <3>2. Follows(c, s)'
      BY <2>2, <2>3, <2>4 DEF Follows
    <3> QED BY <3>1, <3>2 DEF Tracked
  <2>5. CASE c # d
    <3>1. pc'[c] = pc[c] /\ slot'[c] = slot[c] /\ asked'[c] = asked[c]
      BY <2>2, <2>5, GoesType
    <3>2. \A t \in Slots : conn'[t] = c => t # s
      BY <2>3, <2>5
    <3> QED BY <2>2, <2>3, <3>1, <3>2, TrackedFrame
  <2> QED BY <2>4, <2>5
<1>7. ASSUME NEW d \in Conns, HandleSend(d) \/ HandleHold(d) PROVE Tracked(c)'
  <2>1. PICK s \in Slots : s = slot[d]
    BY <1>7, WorkerHas DEF HandleSend, HandleHold
  <2>2. UNCHANGED <<busy, conn, asked>> /\ Remembers(d, s) /\ pc[d] = "handle"
    BY <1>7, <2>1 DEF HandleSend, HandleHold, tcpVars
  <2>3. /\ seq'[s] = asked[d] % SeqMod /\ \A t \in Slots \ {s} : seq'[t] = seq[t]
        /\ foreign' = IF conn[s] = d THEN foreign \ {s} ELSE foreign \cup {s}
    BY <2>2, WorkerHas DEF Remembers, TypeOK
  <2>4. /\ pc'[d] \in {"pass", "idle"}
        /\ \A e \in Conns \ {d} : pc'[e] = pc[e] /\ slot'[e] = slot[e]
    BY <1>7, <2>1, GoesType, DoneType DEF HandleSend, HandleHold
  <2>5. CASE c = d
    <3>1. Matching(c)' = Matching(c) /\ Matching(c) \subseteq {s}
      BY <2>1, <2>2, <2>5 DEF Matching, Tracked
    <3>2. s \in Matching(c) => Follows(c, s)'
      BY <2>2, <2>3, <2>5 DEF Matching, Follows
    <3> QED BY <2>4, <2>5, <3>1, <3>2 DEF Tracked
  <2>6. CASE c # d
    <3>1. \A t \in Slots : conn'[t] = c =>
              /\ t \in foreign => t \in foreign'
              /\ t \in foreign' \/ seq'[t] = seq[t]
      BY <2>2, <2>3, <2>6
    <3> QED BY <2>2, <2>4, <2>6, <3>1, TrackedFrame
  <2> QED BY <2>5, <2>6
<1>8. ASSUME NEW d \in Conns, HandleOld(d) \/ Pass(d) PROVE Tracked(c)'
  <2>1. UNCHANGED <<busy, conn, seq, foreign, asked>> /\ Done(d)
    BY <1>8 DEF HandleOld, Pass, tableVars, tcpVars
  <2>2. CASE c = d
    <3>1. pc'[c] = "idle" /\ Matching(c)' = Matching(c)
      BY <2>1, <2>2, DoneType DEF Matching
    <3>2. \A s \in Matching(c) : s \in foreign \/ seq[s] = asked[c] % SeqMod
      <4>1. CASE Pass(d)
        BY <2>2, <4>1 DEF Pass, Tracked, Follows
      <4>2. CASE HandleOld(d)
        <5>1. Matching(c) \subseteq {slot[c]} /\ \A s \in Matching(c) : conn[s] = c
          BY <2>2, <4>2 DEF HandleOld, Tracked, Matching
        <5>2. slot[c] \in foreign \/ conn[slot[c]] # c
          BY <2>2, <4>2, ForeignOnly DEF HandleOld
        <5> QED BY <5>1, <5>2
      <4> QED BY <1>8, <4>1, <4>2
    <3>3. \A s \in Matching(c) : Follows(c, s)'
      BY <2>1, <3>2 DEF Follows
    <3> QED BY <3>1, <3>3 DEF Tracked
  <2> QED BY <1>1, <2>1, <2>2, DoneType
<1>9. ASSUME \/ \E s \in Slots : TimerStep(s) \/ Deinit(s)
             \/ \E d \in Conns : RxPush(d)
             \/ RxMark \/ Unregister
      PROVE  Tracked(c)'
  <2>1. UNCHANGED <<busy, conn, seq, foreign, pc, slot, asked>>
    BY <1>9 DEF TimerStep, Fire, TimeoutTake, TimeoutGivesUp, TimeoutSend, Deinit, RxPush,
                RxMark, Unregister, tableVars, senderVars, tcpVars
  <2> QED BY <1>1, <2>1
<1>10. ASSUME NEW d \in Conns, Reopen(d) PROVE Tracked(c)'
  <2>1. /\ UNCHANGED <<busy, conn, seq, pc, slot>>
        /\ foreign' = foreign \cup {s \in Slots : conn[s] = d}
        /\ asked' = [asked EXCEPT ![d] = First - 1]
    BY <1>10 DEF Reopen, tableVars, senderVars
  <2>2. pc[d] = "idle"
    <3>1. pc[d] # "idle" => msg[d] \in InHand /\ msg[d].conn = d
      BY DEF InHand, AtWork
    <3> QED BY <1>10, <3>1 DEF Reopen
  <2>3. CASE c = d
    <3>1. Matching(c)' = Matching(c) /\ pc'[c] = "idle"
      BY <2>1, <2>2, <2>3 DEF Matching
    <3>2. \A s \in Matching(c) : Follows(c, s)'
      BY <2>1, <2>3 DEF Matching, Follows
    <3> QED BY <3>1, <3>2 DEF Tracked
  <2>4. CASE c # d
    <3>1. asked'[c] = asked[c]
      BY <2>1, <2>4 DEF TypeOK
    <3> QED BY <2>1, <3>1, TrackedFrame
  <2> QED BY <2>3, <2>4
<1>11. CASE UNCHANGED vars
  BY <1>1, <1>11 DEF vars, tableVars, senderVars, tcpVars
<1>12. CASE Next
  BY <1>2, <1>4, <1>5, <1>6, <1>7, <1>8, <1>9, <1>10, <1>12 DEF Next, TimerStep
<1> QED BY <1>11, <1>12

-----------------------------------------------------------------------------
(* The invariant *)

LEMMA InitInv == Init => TcpAckInv /\ NewestKept
<1> SUFFICES ASSUME Init PROVE TcpAckInv /\ NewestKept
  OBVIOUS
<1>1. TypeOK /\ AtWork
  BY InitType
<1>2. Held = {} /\ InHand = {}
  BY DEF Init, Held, InHand
<1>3. Numbered /\ OnePlace
  BY <1>2 DEF Init, Numbered, OnePlace
<1>4. Busy = {} /\ Writers = {}
  BY DEF Init, Busy, Writers
<1>5. Cardinality(Busy) = 0 /\ Cardinality(Writers) = 0
  BY <1>4, FS_EmptySet
<1>6. Counted /\ FreeIsFree
  <2>1. max_num = 0 /\ free_index = 1 /\ 1 \in Slots /\ busy = [t \in Slots |-> FALSE]
    BY TcpAckAssumption DEF Init, Slots, TcpAckAssumption
  <2> QED BY <1>4, <1>5, <2>1 DEF Counted, FreeIsFree, Busy
<1>7. Ending /\ StaysBusy /\ SendsEnd
  BY DEF Init, Ending, StaysBusy, SendsEnd
<1>8. NewestKept
  BY TcpAckAssumption DEF Init, NewestKept, Waiting, TcpAckAssumption
<1>9. Tracks
  <2>1. \A c \in Conns : Matching(c) = {} /\ pc[c] = "idle"
    BY DEF Init, Matching
  <2> QED BY <2>1 DEF Tracks, Tracked
<1> QED BY <1>1, <1>3, <1>6, <1>7, <1>8, <1>9 DEF TcpAckInv

LEMMA NextInv == TcpAckInv /\ [Next]_vars => TcpAckInv'
<1> SUFFICES ASSUME TcpAckInv, [Next]_vars PROVE TcpAckInv'
  OBVIOUS
<1>1. TypeOK' /\ AtWork' /\ TypeOK /\ AtWork /\ Counted
  BY TypeNext, AtWorkNext DEF TcpAckInv
<1>2. Distinct
  BY DistinctIs DEF TcpAckInv, OnePlace, Apart
<1>3. Apart' /\ Numbered'
  BY <1>1, <1>2, DistinctNext, DistinctAfter
<1>4. Ending' /\ StaysBusy' /\ SendsEnd' /\ FreeIsFree' /\ Counted'
  BY <1>1, EndingNext, StaysBusyNext, SendsEndNext, FreeNext DEF TcpAckInv
<1>5. down' = TCP_ACK_NUM + 1 => Held' = {}
  <2>1. \A s \in Slots : s < TCP_ACK_NUM + 1
    BY TcpAckAssumption DEF Slots, TcpAckAssumption
  <2> QED BY <1>4, <2>1 DEF Ending, Held
<1>6. OnePlace'
  BY <1>3, <1>5 DEF OnePlace, Apart
<1>7. Tracks'
  BY <1>1, TracksNext DEF TcpAckInv
<1> QED BY <1>1, <1>3, <1>4, <1>6, <1>7 DEF TcpAckInv

-----------------------------------------------------------------------------
(* The newest acknowledgement *)

\* NewestKept, by the places rather than by the set of messages in hand.
Near(c) == \/ Newest(c, msg[c])
           \/ \E s \in Slots : Newest(c, tmsg[s])
           \/ \E s \in Slots : Newest(c, held[s]) /\ (Woken(s) \/ s \in late)
           \/ c \in lost

LEMMA NearIs ==
    TypeOK /\ AtWork => (NewestKept <=> \A c \in Conns : Waiting(c) => Near(c))
<1> SUFFICES ASSUME TypeOK, AtWork, NEW c \in Conns
             PROVE  (\/ \E m \in InHand : Newest(c, m)
                     \/ \E s \in Slots : Newest(c, held[s]) /\ Woken(s)
                     \/ Excused(c)) <=> Near(c)
  BY DEF NewestKept
<1>1. (\E m \in InHand : Newest(c, m))
        <=> Newest(c, msg[c]) \/ \E s \in Slots : Newest(c, tmsg[s])
  <2>1. \A d \in Conns : Newest(c, msg[d]) => d = c
    BY DEF AtWork, Newest
  <2>2. \A m : Newest(c, m) => m # None
    BY DEF Newest
  <2> QED BY <2>1, <2>2, InHandIs
<1>2. late \subseteq Slots
  BY DEF TypeOK
<1> QED BY <1>1, <1>2 DEF Near, Excused

LEMMA NearAfter ==
    (TypeOK /\ AtWork => (NewestKept <=> \A c \in Conns : Waiting(c) => Near(c)))'
<1> QED BY NearIs, PTL

\* A step that leaves the places, and the numbers, of connection c alone.
LEMMA NearFrame ==
    ASSUME NEW c \in Conns, Near(c), msg'[c] = msg[c], asked'[c] = asked[c],
           UNCHANGED <<tmsg, held, timer, tpc, late>>, c \in lost => c \in lost'
    PROVE  Near(c)'
BY DEF Near, Newest, Woken

LEMMA NewestNext ==
    ASSUME TcpAckInv, TcpAckInv', NewestKept, [Next]_vars
    PROVE  NewestKept'
<1>0. TypeOK /\ TypeOK' /\ AtWork /\ AtWork' /\ Counted
  BY DEF TcpAckInv
<1> SUFFICES ASSUME NEW c \in Conns, Waiting(c)' PROVE Near(c)'
  BY <1>0, NearAfter
<1>1. Waiting(c) => Near(c)
  BY <1>0, NearIs
<1>2. asked[c] \in Nat /\ acked[c] \in Nat
  BY <1>0 DEF TypeOK
<1>3. ASSUME UNCHANGED <<msg, asked, acked, tmsg, held, timer, tpc, late, lost>>
      PROVE  Near(c)'
  BY <1>1, <1>3, NearFrame DEF Waiting
<1>4. ASSUME NEW d \in Conns, Submit(d) PROVE Near(c)'
  <2>1. UNCHANGED <<tmsg, held, timer, tpc, late, acked>> /\ lost' = lost \ {d}
    BY <1>4 DEF Submit, msgVars, timerVars
  <2>2. CASE c = d
    <3>1. msg'[c].conn = c /\ msg'[c].n = asked'[c] /\ msg'[c] # None
      BY <1>0, <1>4, <2>2, SubmitEffect, NoneIsNobody
    <3> QED BY <3>1 DEF Near, Newest
  <2>3. CASE c # d
    <3>1. msg'[c] = msg[c] /\ asked'[c] = asked[c]
      BY <1>0, <1>4, <2>3, SubmitEffect
    <3> QED BY <1>1, <2>1, <2>3, <3>1, NearFrame DEF Waiting
  <2> QED BY <2>2, <2>3
<1>5. ASSUME NEW d \in Conns, Match(d) \/ Alloc(d) \/ Write(d) PROVE Near(c)'
  BY <1>3, <1>5 DEF Match, Alloc, Write, Goes, msgVars, timerVars, tcpVars
<1>6. ASSUME NEW d \in Conns, HandleSend(d) PROVE Near(c)'
  <2>1. PICK s \in Slots : s = slot[d]
    BY <1>0, <1>6, WorkerHas DEF HandleSend
  <2>2. /\ UNCHANGED <<msg, tmsg, tpc, asked, acked>> /\ late' = late \ {s}
        /\ held' = [held EXCEPT ![s] = None] /\ timer' = [timer EXCEPT ![s] = FALSE]
        /\ Drops(d, s)
    BY <1>6, <2>1 DEF HandleSend, Goes, timerVars, tcpVars
  <2>3. CASE c = d
    <3>1. msg[d] # None /\ msg[d].conn = d /\ msg[d].n = asked[d]
      BY <1>0, <1>6, WorkerHas, NoneIsNobody DEF HandleSend
    <3> QED BY <2>2, <2>3, <3>1 DEF Near, Newest
  <2>4. CASE c # d /\ Newest(c, held[s])
    <3>1. c \in lost'
      BY <2>2, <2>4 DEF Drops, Newest
    <3> QED BY <3>1 DEF Near
  <2>5. CASE c # d /\ ~Newest(c, held[s])
    <3>1. Near(c) /\ (c \in lost => c \in lost')
      BY <1>1, <2>2 DEF Waiting, Drops
    <3>2. \A t \in Slots : t # s => held'[t] = held[t] /\ timer'[t] = timer[t]
                                    /\ (t \in late => t \in late')
      BY <1>0, <2>2 DEF TypeOK
    <3> QED BY <2>2, <2>5, <3>1, <3>2 DEF Near, Newest, Woken
  <2> QED BY <2>3, <2>4, <2>5
<1>7. ASSUME NEW d \in Conns, HandleHold(d) PROVE Near(c)'
  <2>1. PICK s \in Slots : s = slot[d]
    BY <1>0, <1>7, WorkerHas DEF HandleHold
  <2>2. /\ UNCHANGED <<tmsg, tpc, asked, acked>> /\ late' = late \ {s} /\ Done(d)
        /\ held' = [held EXCEPT ![s] = msg[d]] /\ timer' = [timer EXCEPT ![s] = TRUE]
        /\ Drops(d, s)
    BY <1>7, <2>1 DEF HandleHold, timerVars, tcpVars
  <2>3. CASE c = d
    <3>1. msg[d] # None /\ msg[d].conn = d /\ msg[d].n = asked[d]
      BY <1>0, <1>7, WorkerHas, NoneIsNobody DEF HandleHold
    <3>2. held'[s] = msg[d] /\ timer'[s]
      BY <1>0, <2>2 DEF TypeOK
    <3> QED BY <2>2, <2>3, <3>1, <3>2 DEF Near, Newest, Woken
  <2>4. CASE c # d /\ Newest(c, held[s])
    <3>1. c \in lost'
      BY <2>2, <2>4 DEF Drops, Newest
    <3> QED BY <3>1 DEF Near
  <2>5. CASE c # d /\ ~Newest(c, held[s])
    <3>1. Near(c) /\ (c \in lost => c \in lost')
      BY <1>1, <2>2 DEF Waiting, Drops
    <3>2. \A t \in Slots : t # s => held'[t] = held[t] /\ timer'[t] = timer[t]
                                    /\ (t \in late => t \in late')
      BY <1>0, <2>2 DEF TypeOK
    <3>3. msg'[c] = msg[c]
      BY <1>0, <2>2, <2>5, DoneType
    <3> QED BY <2>2, <2>5, <3>1, <3>2, <3>3 DEF Near, Newest, Woken
  <2> QED BY <2>3, <2>4, <2>5
<1>8. ASSUME NEW d \in Conns, HandleOld(d) PROVE Near(c)'
  <2>1. /\ UNCHANGED <<tmsg, held, timer, tpc, late, asked, acked>> /\ Done(d)
        /\ lost \subseteq lost'
        /\ Waiting(d) /\ (slot[d] \in foreign \/ conn[slot[d]] # d) => d \in lost'
    BY <1>8 DEF HandleOld, msgVars, timerVars, tcpVars
  <2>2. Waiting(c)
    BY <2>1 DEF Waiting
  <2>3. CASE c = d
    <3>1. slot[d] \in foreign \/ conn[slot[d]] # d
      BY <1>0, <1>8, ForeignOnly DEF TcpAckInv, HandleOld
    <3> QED BY <2>1, <2>2, <2>3, <3>1 DEF Near
  <2>4. CASE c # d
    <3>1. msg'[c] = msg[c]
      BY <1>0, <2>1, <2>4, DoneType
    <3> QED BY <1>1, <2>1, <2>2, <3>1, NearFrame
  <2> QED BY <2>3, <2>4
<1>9. ASSUME NEW d \in Conns, Pass(d) PROVE Near(c)'
  <2>1. /\ UNCHANGED <<tmsg, held, timer, tpc, late, asked, lost>> /\ Done(d)
        /\ Reaches(msg[d]) /\ msg[d].conn = d /\ msg[d].n = asked[d]
    BY <1>0, <1>9, WorkerHas DEF Pass, timerVars, tcpVars
  <2>2. acked'[d] >= asked[d] /\ \A e \in Conns \ {d} : acked'[e] = acked[e]
    BY <1>0, <2>1 DEF Reaches, TypeOK
  <2>3. asked[d] \in Nat /\ acked'[d] \in Nat
    BY <1>0 DEF TypeOK, TcpAckInv
  <2>4. c # d
    BY <2>1, <2>2, <2>3 DEF Waiting
  <2>5. msg'[c] = msg[c] /\ Waiting(c)
    BY <1>0, <2>1, <2>2, <2>4, DoneType DEF Waiting
  <2> QED BY <1>1, <2>1, <2>5, NearFrame
<1>10. ASSUME NEW s \in Slots, Fire(s) PROVE Near(c)'
  <2>1. /\ UNCHANGED <<msg, asked, acked, tmsg, held, late, lost>>
        /\ \A t \in Slots : Woken(t) => Woken(t)'
    BY <1>0, <1>10 DEF Fire, senderVars, tcpVars, Woken, TypeOK
  <2> QED BY <1>1, <2>1 DEF Near, Newest, Waiting
<1>11. ASSUME NEW s \in Slots, TimeoutTake(s) PROVE Near(c)'
  <2>1. /\ UNCHANGED <<msg, asked, acked, timer, lost>> /\ tmsg'[s] = held[s]
        /\ tpc[s] = "lock" /\ late' = late \ {s}
        /\ \A t \in Slots \ {s} : held'[t] = held[t] /\ tmsg'[t] = tmsg[t] /\ tpc'[t] = tpc[t]
    BY <1>0, <1>11 DEF TimeoutTake, senderVars, tcpVars, TypeOK
  <2>2. tmsg[s] = None
    BY <1>0, <2>1 DEF AtWork
  <2>3. CASE Newest(c, held[s])
    BY <2>1, <2>3 DEF Near, Newest
  <2>4. CASE ~Newest(c, held[s])
    BY <1>1, <2>1, <2>2, <2>4 DEF Near, Newest, Woken, Waiting
  <2> QED BY <2>3, <2>4
<1>12. ASSUME NEW s \in Slots, TimeoutGivesUp(s) PROVE Near(c)'
  <2>1. /\ UNCHANGED <<msg, asked, acked, timer, held, lost>> /\ tpc[s] = "lock"
        /\ late' = IF held[s] # None THEN late \cup {s} ELSE late
        /\ \A t \in Slots \ {s} : tmsg'[t] = tmsg[t] /\ tpc'[t] = tpc[t]
    BY <1>0, <1>12 DEF TimeoutGivesUp, senderVars, tcpVars, TypeOK
  <2>2. tmsg[s] = None
    BY <1>0, <2>1 DEF AtWork
  <2> QED BY <1>1, <2>1, <2>2 DEF Near, Newest, Woken, Waiting
<1>13. ASSUME NEW s \in Slots, TimeoutSend(s) PROVE Near(c)'
  <2>1. /\ UNCHANGED <<msg, asked, timer, held, late, lost>> /\ tpc[s] = "send"
        /\ Reaches(tmsg[s])
        /\ \A t \in Slots \ {s} : tmsg'[t] = tmsg[t] /\ tpc'[t] = tpc[t]
    BY <1>0, <1>13 DEF TimeoutSend, senderVars, tcpVars, TypeOK
  <2>2. tmsg[s] \in Msgs
    BY <1>0, <2>1 DEF TypeOK, AtWork
  <2>3. tmsg[s].conn \in Conns /\ tmsg[s].n \in Nat
    BY <2>2 DEF Msgs
  <2>4. acked'[c] >= acked[c] /\ (Newest(c, tmsg[s]) => acked'[c] >= asked[c])
    BY <1>0, <2>1, <2>3 DEF Reaches, TypeOK, Newest
  <2>5. acked'[c] \in Nat
    BY DEF TcpAckInv, TypeOK
  <2>6. ~Newest(c, tmsg[s]) /\ Waiting(c)
    BY <1>2, <2>1, <2>4, <2>5 DEF Waiting
  <2> QED BY <1>1, <2>1, <2>6 DEF Near, Newest, Woken
<1>14. ASSUME NEW d \in Conns, RxPush(d) PROVE Near(c)'
  BY <1>3, <1>14 DEF RxPush, msgVars, senderVars, timerVars
<1>15. CASE RxMark \/ Unregister
  BY <1>3, <1>15 DEF RxMark, Unregister, msgVars, senderVars, timerVars, tcpVars
<1>16. ASSUME NEW d \in Conns, Reopen(d) PROVE Near(c)'
  <2>1. /\ UNCHANGED <<msg, tmsg, held, timer, tpc, late>> /\ lost' = lost \ {d}
        /\ asked' = [asked EXCEPT ![d] = First - 1] /\ acked' = [acked EXCEPT ![d] = First - 1]
    BY <1>16 DEF Reopen, msgVars, senderVars, timerVars
  <2>2. c # d
    BY <1>0, <2>1, TcpAckAssumption DEF Waiting, TypeOK, TcpAckAssumption
  <2>3. asked'[c] = asked[c] /\ acked'[c] = acked[c]
    BY <1>0, <2>1, <2>2 DEF TypeOK
  <2> QED BY <1>1, <2>1, <2>2, <2>3, NearFrame DEF Waiting
<1>17. ASSUME NEW s \in Slots, Deinit(s) PROVE Near(c)'
  <2>1. /\ UNCHANGED <<msg, asked, acked, tmsg, tpc>> /\ late' = late \ {s}
        /\ lost' = IF held[s] = None THEN lost ELSE lost \cup {held[s].conn}
        /\ \A t \in Slots \ {s} : held'[t] = held[t] /\ timer'[t] = timer[t]
    BY <1>0, <1>17 DEF Deinit, senderVars, timerVars, tcpVars, TypeOK
  <2>2. CASE Newest(c, held[s])
    <3>1. c \in lost'
      BY <2>1, <2>2 DEF Newest
    <3> QED BY <3>1 DEF Near
  <2>3. CASE ~Newest(c, held[s])
    BY <1>1, <2>1, <2>3 DEF Near, Newest, Woken, Waiting
  <2> QED BY <2>2, <2>3
<1>18. CASE UNCHANGED vars
  BY <1>3, <1>18 DEF vars, msgVars, senderVars, timerVars, tcpVars
<1>19. CASE Next
  BY <1>4, <1>5, <1>6, <1>7, <1>8, <1>9, <1>10, <1>11, <1>12, <1>13, <1>14, <1>15,
     <1>16, <1>17, <1>19 DEF Next
<1> QED BY <1>18, <1>19

-----------------------------------------------------------------------------
(* The theorems *)

\* Type correctness, and: a message is in one place, so none is freed or sent
\* twice, and none is left after tcp_ack_deinit; the slot handed out is free;
\* and until a slot is aged, what in_send_msg refers to is on its way.
THEOREM FilterSound == Spec => []TcpAckInv
<1> QED BY InitInv, NextInv, PTL DEF Spec

\* The filter drops acknowledgements, but keeps the newest of a connection,
\* with the exceptions that NewestKept names, whatever the senders, the timers,
\* the agings and the wrapping of the numbers do.
THEOREM NewestSurvives == Spec => []NewestKept
<1>1. TcpAckInv /\ TcpAckInv' /\ NewestKept /\ [Next]_vars => NewestKept'
  BY NewestNext
<1> QED BY <1>1, InitInv, FilterSound, PTL DEF Spec
=============================================================================
