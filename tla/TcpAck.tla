------------------------------- MODULE TcpAck -------------------------------
(***************************************************************************)
(* The TCP acknowledgement filter of the AIC8800 FullMAC driver: a table   *)
(* of slots, one per TCP connection, in which a pure acknowledgement may   *)
(* be held for 5 ms and dropped when a newer one of the connection comes.  *)
(*                                                                         *)
(* Transmitters run concurrently, but the acknowledgements of a connection *)
(* pass the lock of one netdev queue one after the other, so there is one  *)
(* sender per connection; the timer of each slot and the receive thread    *)
(* run beside them.  A step is one critical section of the code.           *)
(*                                                                         *)
(* Time is left out but for one thing: a slot that is aged has not been    *)
(* touched for 4 s, so its timer is not running and no sender that changed *)
(* it, or found it free, is still on its way.  A sender may just have      *)
(* matched it.                                                             *)
(***************************************************************************)
EXTENDS Integers, FiniteSets, FiniteSetsExt

CONSTANTS
    Conns,              \* TCP connections
    None,               \* NULL, or no index
    TCP_ACK_NUM,
    TCP_ACK_DROP_CNT,
    SeqMod,             \* 2^32: acknowledgement numbers wrap
    First, MaxSeq,      \* acknowledgement numbers before they wrap
    MaxAcks,            \* bound on the acknowledgements TCP hands over
    MaxEvents           \* bound on segments received with PSH, on agings, and on
                        \* connections opened again, together

(* A msg_buf: whose acknowledgement it is, its number, and which one it is *)
Msgs == [conn : Conns, n : Nat, no : 1..MaxAcks]

ASSUME TcpAckAssumption ==
    /\ None \notin Conns \cup Int \cup Msgs
    /\ IsFiniteSet(Conns)
    /\ TCP_ACK_NUM \in Nat \ {0} /\ TCP_ACK_DROP_CNT \in Nat
    /\ SeqMod \in Nat \ {0} /\ First \in Nat \ {0} /\ MaxSeq \in Nat
    /\ MaxAcks \in Nat /\ MaxEvents \in Nat

VARIABLES
    busy, conn, seq,    \* of each slot: is it used, by whom, and its last ack
    drop_cnt,
    psh,                \* psh_seq when psh_flag is set
    held,               \* msgbuf
    in_send,            \* in_send_msg
    timer,              \* the timer is pending
    max_num, free_index,
    pc, msg, slot,      \* where the sender of each connection is, its
                        \* acknowledgement, and the slot it uses
    tpc, tmsg,          \* where the timer handler of each slot is, and what it sends
    push,               \* the slot filter_rx_tcp_ack found, and the number
    down,               \* how far the driver is in being removed
    asked, acked,       \* the newest ack TCP handed over, and the newest queued
    acks,               \* how many were handed over
    late,               \* slots whose timer gave up on a held ack
    lost,               \* connections whose newest ack was thrown away
    foreign,            \* slots whose number is another connection's, or an
                        \* earlier one's with the same ports
    aged,               \* a slot was aged
    events

tableVars == <<busy, conn, seq, drop_cnt, psh>>
msgVars == <<held, in_send, timer, late>>
allocVars == <<max_num, free_index>>
tcpVars == <<asked, acks, aged, events>>
senderVars == <<pc, msg, slot>>
timerVars == <<tpc, tmsg>>
vars == <<tableVars, msgVars, allocVars, senderVars, timerVars, push, down, tcpVars,
          acked, lost, foreign>>

Slots == 1..TCP_ACK_NUM

Seqs == 0..(SeqMod - 1)

TypeOK ==
    /\ busy \in [Slots -> BOOLEAN] /\ conn \in [Slots -> Conns \cup {None}]
    /\ seq \in [Slots -> Seqs] /\ drop_cnt \in [Slots -> Nat]
    /\ psh \in [Slots -> Seqs \cup {None}]
    /\ held \in [Slots -> Msgs \cup {None}] /\ in_send \in [Slots -> Msgs \cup {None}]
    /\ timer \in [Slots -> BOOLEAN] /\ late \subseteq Slots
    /\ max_num \in Nat /\ free_index \in Slots \cup {None}
    /\ pc \in [Conns -> {"idle", "match", "alloc", "write", "handle", "pass"}]
    /\ msg \in [Conns -> Msgs \cup {None}] /\ slot \in [Conns -> Slots \cup {None}]
    /\ tpc \in [Slots -> {"idle", "lock", "send"}]
    /\ tmsg \in [Slots -> Msgs \cup {None}]
    /\ push \in [slot : Slots \cup {None}, seq : Seqs]
    /\ down \in 0..(TCP_ACK_NUM + 1)
    /\ asked \in [Conns -> Nat] /\ acked \in [Conns -> Nat]
    /\ acks \in 0..MaxAcks /\ lost \subseteq Conns /\ foreign \subseteq Slots
    /\ aged \in BOOLEAN /\ events \in 0..MaxEvents

Init ==
    /\ busy = [s \in Slots |-> FALSE] /\ conn = [s \in Slots |-> None]
    /\ seq = [s \in Slots |-> 0] /\ drop_cnt = [s \in Slots |-> 0]
    /\ psh = [s \in Slots |-> None]
    /\ held = [s \in Slots |-> None] /\ in_send = [s \in Slots |-> None]
    /\ timer = [s \in Slots |-> FALSE] /\ late = {}
    /\ max_num = 0 /\ free_index = 1
    /\ pc = [c \in Conns |-> "idle"] /\ msg = [c \in Conns |-> None]
    /\ slot = [c \in Conns |-> None]
    /\ tpc = [s \in Slots |-> "idle"] /\ tmsg = [s \in Slots |-> None]
    /\ push = [slot |-> None, seq |-> 0] /\ down = 0
    /\ asked = [c \in Conns |-> First] /\ acked = [c \in Conns |-> First]
    /\ acks = 0 /\ lost = {} /\ foreign = {}
    /\ aged = FALSE /\ events = 0

\* Mutant: acknowledgement numbers are compared without regard to their wrap.
BeforeUnsigned(a, b) == a <= b

(* U32_BEFORE: the difference, as a signed number, is not positive. *)
Before(a, b) == (a - b) % SeqMod \in {0} \cup (SeqMod \div 2)..(SeqMod - 1)

-----------------------------------------------------------------------------
(* rwnx_start_xmit and filter_send_tcp_ack *)

Goes(c, p, s) ==
    pc' = [pc EXCEPT ![c] = p] /\ slot' = [slot EXCEPT ![c] = s] /\ UNCHANGED msg

Done(c) ==
    /\ pc' = [pc EXCEPT ![c] = "idle"]
    /\ msg' = [msg EXCEPT ![c] = None] /\ slot' = [slot EXCEPT ![c] = None]

(* Nobody touched the slot for 4 s. *)
Idle(s) ==
    /\ busy[s] /\ ~timer[s] /\ tpc[s] = "idle"
    /\ \A c \in Conns : slot[c] = s => pc[c] = "handle"

(* tcp_ack_update: slots S are given up; the messages stay in them. *)
Age(S) ==
    /\ S = {} \/ events < MaxEvents
    /\ busy' = [s \in Slots |-> busy[s] /\ s \notin S]
    /\ free_index' = IF S = {} THEN free_index ELSE Min(S)
    /\ max_num' = max_num - Cardinality(S)
    /\ aged' = (aged \/ S # {})
    /\ events' = IF S = {} THEN events ELSE events + 1

(* TCP hands over a pure acknowledgement, the same as the last or newer; *)
(* tcp_ack_update is due or not.                                         *)
Submit(c) ==
    /\ pc[c] = "idle" /\ down = 0 /\ acks < MaxAcks
    /\ \E n \in {asked[c], asked[c] + 1} \cap 0..MaxSeq :
          /\ asked' = [asked EXCEPT ![c] = n]
          /\ msg' = [msg EXCEPT ![c] = [conn |-> c, n |-> n, no |-> acks + 1]]
    /\ pc' = [pc EXCEPT ![c] = "match"] /\ UNCHANGED slot
    /\ acks' = acks + 1
    /\ \E S \in SUBSET {s \in Slots : Idle(s)} : Age(S)
    /\ lost' = lost \ {c}
    /\ UNCHANGED <<conn, seq, drop_cnt, psh, msgVars, timerVars, push, down, acked,
                   foreign>>

Matching(c) == {s \in Slots : busy[s] /\ conn[s] = c}

(* tcp_ack_match *)
Match(c) ==
    /\ pc[c] = "match"
    /\ IF Matching(c) # {} THEN Goes(c, "handle", Min(Matching(c)))
                           ELSE Goes(c, "alloc", None)
    /\ UNCHANGED <<tableVars, msgVars, allocVars, timerVars, push, down, tcpVars,
                   acked, lost, foreign>>

Unused == {s \in Slots : ~busy[s]}

(* Whoever writes a slot while it is read, and that is any other sender or  *)
(* timer handler, or the receive thread, makes read_seqretry read it again: *)
(* the slot is counted once more, or is no longer free but stays counted.   *)
(* tcp_ack_update is kept out by ack_m->lock.                               *)
Counts(c) ==
    IF \/ \E d \in Conns \ {c} : pc[d] \in {"write", "handle", "pass"}
       \/ \E s \in Slots : tpc[s] # "idle"
       \/ push.slot # None
    THEN {1, 2} ELSE {1}

(* tcp_ack_alloc_index: a slot is chosen and counted, not yet marked busy. *)
Alloc(c) ==
    /\ pc[c] = "alloc"
    /\ \/ /\ max_num = TCP_ACK_NUM
          /\ Goes(c, "pass", None) /\ UNCHANGED allocVars
       \/ /\ max_num # TCP_ACK_NUM /\ free_index # None
          /\ Goes(c, "write", free_index)
          /\ max_num' = max_num + 1 /\ free_index' = None
       \/ /\ max_num # TCP_ACK_NUM /\ free_index = None /\ Unused # {}
          /\ Goes(c, "write", Min(Unused))
          /\ \E k \in Counts(c) : max_num' = max_num + k
          /\ UNCHANGED free_index
       \/ /\ max_num # TCP_ACK_NUM /\ free_index = None /\ Unused = {}
          /\ Goes(c, "pass", None)
          /\ \E k \in Counts(c) : max_num' = max_num + k - 1
          /\ UNCHANGED free_index
    /\ UNCHANGED <<tableVars, msgVars, timerVars, push, down, tcpVars, acked, lost,
                   foreign>>

(* The chosen slot becomes the connection's; msgbuf and in_send_msg stay. *)
Write(c) ==
    /\ pc[c] = "write"
    /\ LET s == slot[c] IN
          /\ busy' = [busy EXCEPT ![s] = TRUE]
          /\ conn' = [conn EXCEPT ![s] = c]
          /\ seq' = [seq EXCEPT ![s] = msg[c].n % SeqMod]
          /\ drop_cnt' = [drop_cnt EXCEPT ![s] = TCP_ACK_DROP_CNT]
          /\ psh' = [psh EXCEPT ![s] = None]
          /\ foreign' = foreign \ {s}
    /\ Goes(c, "pass", None)
    /\ UNCHANGED <<msgVars, allocVars, timerVars, push, down, tcpVars, acked, lost>>

Newer(c) == Before(seq[slot[c]], msg[c].n % SeqMod)

(* The acknowledgement answers a segment with PSH. *)
Quick(c) ==
    /\ psh[slot[c]] # None
    /\ ~Before(msg[c].n % SeqMod, psh[slot[c]])

Enough(c) ==
    /\ in_send[slot[c]] = None
    /\ drop_cnt[slot[c]] + 1 >= TCP_ACK_DROP_CNT

(* TCP waits for its newest acknowledgement of c to be sent. *)
Waiting(c) == asked[c] > acked[c]

(* The held acknowledgement is dropped for a newer one of connection c; *)
(* when it is another connection's, that one has lost its newest.       *)
Drops(c, s) ==
    lost' = IF held[s] # None /\ held[s].conn # c THEN lost \cup {held[s].conn} ELSE lost

(* The slot remembers the number of an acknowledgement of c. *)
Remembers(c, s) ==
    /\ seq' = [seq EXCEPT ![s] = msg[c].n % SeqMod]
    /\ foreign' = IF conn[s] = c THEN foreign \ {s} ELSE foreign \cup {s}

(* tcp_ack_handle_new *)
HandleSend(c) ==
    /\ pc[c] = "handle" /\ Newer(c) /\ (Quick(c) \/ Enough(c))
    /\ LET s == slot[c] IN
          /\ held' = [held EXCEPT ![s] = None] /\ late' = late \ {s} /\ Drops(c, s)
          /\ psh' = IF Quick(c) THEN [psh EXCEPT ![s] = None] ELSE psh
          /\ drop_cnt' = [drop_cnt EXCEPT ![s] = 0]
          /\ Remembers(c, s)
          /\ in_send' = [in_send EXCEPT ![s] = msg[c]]
          /\ timer' = [timer EXCEPT ![s] = FALSE]
          /\ Goes(c, "pass", s)
    /\ UNCHANGED <<busy, conn, allocVars, timerVars, push, down, tcpVars, acked>>

\* Mutant: the timer is armed for the first acknowledgement held only.
HandleHoldNoTimer(c) ==
    /\ pc[c] = "handle" /\ Newer(c) /\ ~Quick(c) /\ ~Enough(c)
    /\ LET s == slot[c] IN
          /\ held' = [held EXCEPT ![s] = msg[c]] /\ late' = late \ {s} /\ Drops(c, s)
          /\ drop_cnt' = [drop_cnt EXCEPT ![s] = @ + 1]
          /\ Remembers(c, s)
          /\ timer' = [timer EXCEPT ![s] = @ \/ drop_cnt[s] = 0]
    /\ Done(c)
    /\ UNCHANGED <<busy, conn, psh, in_send, allocVars, timerVars, push, down,
                   tcpVars, acked>>

HandleHold(c) ==
    /\ pc[c] = "handle" /\ Newer(c) /\ ~Quick(c) /\ ~Enough(c)
    /\ LET s == slot[c] IN
          /\ held' = [held EXCEPT ![s] = msg[c]] /\ late' = late \ {s} /\ Drops(c, s)
          /\ drop_cnt' = [drop_cnt EXCEPT ![s] = @ + 1]
          /\ Remembers(c, s)
          /\ timer' = [timer EXCEPT ![s] = TRUE]
    /\ Done(c)
    /\ UNCHANGED <<busy, conn, psh, in_send, allocVars, timerVars, push, down,
                   tcpVars, acked>>

(* An acknowledgement older than the last of the slot is dropped.  Of the *)
(* newest ones, a connection loses only what a foreign number is ahead of. *)
HandleOld(c) ==
    /\ pc[c] = "handle" /\ ~Newer(c)
    /\ lost' = IF Waiting(c) /\ (slot[c] \in foreign \/ conn[slot[c]] # c)
               THEN lost \cup {c} ELSE lost
    /\ Done(c)
    /\ UNCHANGED <<tableVars, msgVars, allocVars, timerVars, push, down, tcpVars,
                   acked, foreign>>

(* move_tcpack_msg: nothing once tcp_ack_deinit has cleared enable *)
Moved(m) ==
    [s \in Slots |->
        IF down <= 1 /\ busy[s] /\ in_send[s] = m THEN None ELSE in_send[s]]

Reaches(m) == acked' = [acked EXCEPT ![m.conn] = IF m.n > @ THEN m.n ELSE @]

(* The slot forgets the message, and the frame goes on to its transmit queue, *)
(* which touches nothing of the filter.                                       *)
Pass(c) ==
    /\ pc[c] = "pass"
    /\ in_send' = Moved(msg[c])
    /\ Reaches(msg[c])
    /\ Done(c)
    /\ UNCHANGED <<tableVars, held, timer, late, allocVars, timerVars, push, down,
                   tcpVars, lost, foreign>>

-----------------------------------------------------------------------------
(* The timer of a slot: tcp_ack_timeout and intf_tx *)

Fire(s) ==
    /\ timer[s] /\ tpc[s] = "idle"
    /\ timer' = [timer EXCEPT ![s] = FALSE]
    /\ tpc' = [tpc EXCEPT ![s] = "lock"]
    /\ UNCHANGED <<tableVars, held, in_send, late, allocVars, senderVars, tmsg,
                   push, down, tcpVars, acked, lost, foreign>>

Sendable(s) == busy[s] /\ held[s] # None /\ in_send[s] = None

\* Mutant: the message the timer sends stays in the slot.
TimeoutTakeKeeps(s) ==
    /\ tpc[s] = "lock" /\ Sendable(s)
    /\ tpc' = [tpc EXCEPT ![s] = "send"] /\ tmsg' = [tmsg EXCEPT ![s] = held[s]]
    /\ drop_cnt' = [drop_cnt EXCEPT ![s] = 0]
    /\ in_send' = [in_send EXCEPT ![s] = held[s]]
    /\ UNCHANGED <<busy, conn, seq, psh, held, timer, late, allocVars, senderVars,
                   push, down, tcpVars, acked, lost, foreign>>

TimeoutTake(s) ==
    /\ tpc[s] = "lock" /\ Sendable(s)
    /\ tpc' = [tpc EXCEPT ![s] = "send"] /\ tmsg' = [tmsg EXCEPT ![s] = held[s]]
    /\ held' = [held EXCEPT ![s] = None]
    /\ late' = late \ {s}
    /\ drop_cnt' = [drop_cnt EXCEPT ![s] = 0]
    /\ in_send' = [in_send EXCEPT ![s] = held[s]]
    /\ UNCHANGED <<busy, conn, seq, psh, timer, allocVars, senderVars, push, down,
                   tcpVars, acked, lost, foreign>>

(* Nothing is held, the slot was given up, or another message of it is on *)
(* its way: the timer is not armed again.                                 *)
TimeoutGivesUp(s) ==
    /\ tpc[s] = "lock" /\ ~Sendable(s)
    /\ tpc' = [tpc EXCEPT ![s] = "idle"] /\ tmsg' = [tmsg EXCEPT ![s] = None]
    /\ late' = IF held[s] # None THEN late \cup {s} ELSE late
    /\ UNCHANGED <<tableVars, held, in_send, timer, allocVars, senderVars, push,
                   down, tcpVars, acked, lost, foreign>>

(* intf_tx *)
TimeoutSend(s) ==
    /\ tpc[s] = "send"
    /\ in_send' = Moved(tmsg[s])
    /\ Reaches(tmsg[s])
    /\ tpc' = [tpc EXCEPT ![s] = "idle"] /\ tmsg' = [tmsg EXCEPT ![s] = None]
    /\ UNCHANGED <<tableVars, held, timer, late, allocVars, senderVars, push, down,
                   tcpVars, lost, foreign>>

-----------------------------------------------------------------------------
(* Received segments, connections opened again, and the end *)

(* filter_rx_tcp_ack finds the slot of a segment with PSH ... *)
RxPush(c) ==
    /\ push.slot = None /\ down = 0 /\ events < MaxEvents
    /\ Matching(c) # {}
    /\ push' = [slot |-> Min(Matching(c)), seq |-> asked[c] % SeqMod]
    /\ events' = events + 1
    /\ UNCHANGED <<tableVars, msgVars, allocVars, senderVars, timerVars, down,
                   asked, acks, aged, acked, lost, foreign>>

(* ... and marks it, whosever it is by then. *)
RxMark ==
    /\ push.slot # None
    /\ psh' = [psh EXCEPT ![push.slot] = push.seq]
    /\ push' = [slot |-> None, seq |-> 0]
    /\ UNCHANGED <<busy, conn, seq, drop_cnt, msgVars, allocVars, senderVars,
                   timerVars, down, tcpVars, acked, lost, foreign>>

Held == {held[s] : s \in Slots} \ {None}

(* Messages a sender or a timer handler has taken and not yet queued *)
InHand ==
    {msg[c] : c \in {d \in Conns : pc[d] # "idle"}}
    \cup {tmsg[s] : s \in {t \in Slots : tpc[t] = "send"}}

(* A connection with the same addresses and ports starts over, below. *)
Reopen(c) ==
    /\ down = 0 /\ events < MaxEvents /\ asked[c] >= First + 1
    /\ \A m \in Held \cup InHand : m.conn # c
    /\ asked' = [asked EXCEPT ![c] = First - 1]
    /\ acked' = [acked EXCEPT ![c] = First - 1]
    /\ events' = events + 1 /\ lost' = lost \ {c}
    /\ foreign' = foreign \cup {s \in Slots : conn[s] = c}
    /\ UNCHANGED <<tableVars, msgVars, allocVars, senderVars, timerVars, push, down,
                   acks, aged>>

(* The interfaces are unregistered: no sender and no received frame is left. *)
Unregister ==
    /\ down = 0 /\ push.slot = None
    /\ \A c \in Conns : pc[c] = "idle"
    /\ down' = 1
    /\ UNCHANGED <<tableVars, msgVars, allocVars, senderVars, timerVars, push,
                   tcpVars, acked, lost, foreign>>

(* tcp_ack_deinit, slot by slot: del_timer does not wait for the handler. *)
Deinit(s) ==
    /\ down = s
    /\ down' = s + 1
    /\ timer' = [timer EXCEPT ![s] = FALSE]
    /\ held' = [held EXCEPT ![s] = None]
    /\ late' = late \ {s}
    /\ lost' = IF held[s] = None THEN lost ELSE lost \cup {held[s].conn}
    /\ UNCHANGED <<tableVars, in_send, allocVars, senderVars, timerVars, push,
                   tcpVars, acked, foreign>>

-----------------------------------------------------------------------------
SendStep(c) ==
    Match(c) \/ Alloc(c) \/ Write(c) \/ HandleSend(c) \/ HandleHold(c) \/ HandleOld(c)
    \/ Pass(c)

TimerStep(s) ==
    Fire(s) \/ TimeoutTake(s) \/ TimeoutGivesUp(s) \/ TimeoutSend(s)

Next ==
    \/ \E c \in Conns : Submit(c)
    \/ \E c \in Conns : Match(c)
    \/ \E c \in Conns : Alloc(c)
    \/ \E c \in Conns : Write(c)
    \/ \E c \in Conns : HandleSend(c)
    \/ \E c \in Conns : HandleHold(c)
    \/ \E c \in Conns : HandleOld(c)
    \/ \E c \in Conns : Pass(c)
    \/ \E s \in Slots : Fire(s)
    \/ \E s \in Slots : TimeoutTake(s)
    \/ \E s \in Slots : TimeoutGivesUp(s)
    \/ \E s \in Slots : TimeoutSend(s)
    \/ \E c \in Conns : RxPush(c)
    \/ RxMark
    \/ \E c \in Conns : Reopen(c)
    \/ Unregister
    \/ \E s \in Slots : Deinit(s)

Spec == Init /\ [][Next]_vars

(* A transmitter and a timer handler run to their end, and a timer fires. *)
FairSpec ==
    /\ Spec
    /\ \A c \in Conns : WF_vars(SendStep(c))
    /\ \A s \in Slots : WF_vars(TimerStep(s))

-----------------------------------------------------------------------------
(* Properties *)

(* A message is in one place: held by one slot, or in the hands of one     *)
(* sender or timer handler.  Otherwise it would be freed or sent twice.    *)
(* After tcp_ack_deinit no slot holds one, so none leaks.                  *)
OnePlace ==
    /\ \A s, t \in Slots : s # t /\ held[s] # None => held[s] # held[t]
    /\ Held \cap InHand = {}
    /\ \A s, t \in Slots : s # t /\ tmsg[s] # None => tmsg[s] # tmsg[t]
    /\ \A s \in Slots, c \in Conns : msg[c] # None => msg[c] # tmsg[s]
    /\ down = TCP_ACK_NUM + 1 => Held = {}

Newest(c, m) == m # None /\ m.conn = c /\ m.n = asked[c]

(* Timers that will look at what the slot holds *)
Woken(s) == timer[s] \/ tpc[s] = "lock"

Excused(c) == c \in lost \/ \E s \in late : Newest(c, held[s])

(* The filter drops acknowledgements, but not the newest of a connection:   *)
(* as long as it has not been sent, somebody is sending it, or a slot holds *)
(* it whose timer will look at it.  The exceptions are those the code has:  *)
(* the timer gave up on it (the slot was aged between match and handling,   *)
(* or another message of the slot was on its way), another connection took  *)
(* the slot over, or the slot remembers a number that is not one of this    *)
(* connection, but of an earlier one with the same ports, or of another.    *)
NewestKept ==
    \A c \in Conns : Waiting(c) =>
        \/ \E m \in InHand : Newest(c, m)
        \/ \E s \in Slots : Newest(c, held[s]) /\ Woken(s)
        \/ Excused(c)

(* The slot tcp_ack_update left in free_index is not in use: handing it out *)
(* takes it from no connection.  And max_num counts at least the busy slots *)
(* (two senders that choose the same slot count it twice).                  *)
FreeIsFree ==
    /\ free_index # None => ~busy[free_index]
    /\ max_num >= Cardinality({s \in Slots : busy[s]})

(* As long as no slot was aged, and until tcp_ack_deinit, the message a     *)
(* slot has in in_send_msg is on its way: a pointer left there would keep   *)
(* the timer, and the drop count, from ever sending an acknowledgement of   *)
(* that slot again.                                                         *)
SendsEnd ==
    ~aged /\ down <= 1 =>
        \A s \in Slots : in_send[s] # None =>
            \/ \E c \in Conns : pc[c] = "pass" /\ msg[c] = in_send[s]
            \/ \E t \in Slots : tpc[t] = "send" /\ tmsg[t] = in_send[s]

(* An acknowledgement TCP handed over is followed by it, or a newer one,    *)
(* being sent, with the exceptions of NewestKept.                           *)
AcksReach == \A c \in Conns : Waiting(c) ~> (~Waiting(c) \/ Excused(c))
-----------------------------------------------------------------------------
(* The inductive invariant behind OnePlace, FreeIsFree, SendsEnd, NewestKept *)

(* Whoever is at work has a message, a sender the newest of its connection. *)
AtWork ==
    /\ \A c \in Conns :
        /\ pc[c] = "idle" <=> msg[c] = None
        /\ pc[c] # "idle" => msg[c].conn = c /\ msg[c].n = asked[c]
        /\ pc[c] \in {"write", "handle"} => slot[c] # None
    /\ \A s \in Slots : tpc[s] = "send" <=> tmsg[s] # None

Numbered == \A m \in Held \cup InHand : m.no <= acks

(* A slot that a sender is about to fill is no longer in free_index, and is *)
(* counted in max_num.                                                      *)
Busy == {s \in Slots : busy[s]}
Writers == {c \in Conns : pc[c] = "write"}
Counted ==
    /\ \A c \in Writers : slot[c] # free_index
    /\ max_num >= Cardinality(Busy) + Cardinality(Writers)

(* tcp_ack_deinit leaves nothing behind in the slots it has passed. *)
Ending ==
    /\ down > 0 => \A c \in Conns : pc[c] = "idle"
    /\ \A s \in Slots : s < down => held[s] = None

(* Without aging, slots stay in use. *)
StaysBusy ==
    ~aged => /\ \A s \in Slots : in_send[s] # None => busy[s]
             /\ \A c \in Conns : pc[c] = "handle" => busy[slot[c]]

(* The number a slot of connection c remembers is that of the last          *)
(* acknowledgement TCP handed over, or of the one before while a newer is   *)
(* on its way to the slot, unless it is foreign; and a connection has one   *)
(* slot.  So no acknowledgement is taken for old but by a foreign number.   *)
Follows(c, s) ==
    \/ s \in foreign
    \/ seq[s] = asked[c] % SeqMod
    \/ /\ pc[c] \in {"match", "handle"} /\ asked[c] > 0
       /\ seq[s] = (asked[c] - 1) % SeqMod

Tracked(c) ==
    /\ \A s, t \in Matching(c) : s = t
    /\ pc[c] \in {"alloc", "write"} => Matching(c) = {}
    /\ pc[c] = "handle" => Matching(c) \subseteq {slot[c]}
    /\ \A s \in Matching(c) : Follows(c, s)
    /\ pc[c] = "handle" /\ conn[slot[c]] = c => Follows(c, slot[c])

Tracks == \A c \in Conns : Tracked(c)

(* What holds of messages and slots in every state: no message is freed or  *)
(* sent twice or leaked, no slot in use is given away, and none is blocked. *)
TcpAckInv ==
    /\ TypeOK /\ AtWork /\ Numbered /\ OnePlace
    /\ FreeIsFree /\ Counted /\ Ending /\ StaysBusy /\ SendsEnd /\ Tracks
=============================================================================
