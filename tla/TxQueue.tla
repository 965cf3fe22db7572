------------------------------ MODULE TxQueue ------------------------------
(***************************************************************************)
(* The transmit queues of an access-point interface: rwnx_txq.c and the    *)
(* parts of rwnx_tx.c that queue, schedule, push and confirm frames, hold  *)
(* them for sleeping stations and open service periods.                    *)
(*                                                                         *)
(* A TX queue (txq) buffers the frames of one station and TID.  A queue    *)
(* that may send is linked in the list of its hardware queue (hwq); the    *)
(* xmit path processes that list at once, everybody else schedules the     *)
(* tasklet.  Frames pass to the firmware without credit accounting: the    *)
(* decrement of txq->credits is compiled out.  Actors: the senders (xmit   *)
(* paths on any CPU, under tx_lock), the tasklet, the USB receive thread   *)
(* that runs the firmware's indications and, WITHOUT tx_lock, the data     *)
(* confirmations, cfg80211 adding and deleting stations, and the USB bus   *)
(* that stops and wakes all netdev queues.                                 *)
(*                                                                         *)
(* The multicast station is one more member of Stas with a single queue.   *)
(* Left out: the order of queues in a hwq list and its rotation, retry     *)
(* ordering inside a queue, statistics, pkt_sent, MU-MIMO, A-MSDU, TDLS    *)
(* and off-channel queues.                                                 *)
(***************************************************************************)
EXTENDS Integers, SequencesExt

CONSTANTS
    Stas,           \* stations of the interface
    Txqs,           \* their TX queues
    MgtTxqs,        \* the queues for management frames (TID_MGT)
    Hwqs,           \* hardware queues
    StaOf,          \* [Txqs -> Stas]    txq->sta
    HwqOf,          \* [Txqs -> Hwqs]    txq->hwq
    PsOf,           \* [Txqs -> PsIds]   txq->ps_id
    Prio,           \* [Txqs -> Nat]     rank of the TID in nx_tid_prio
    Senders,        \* CPUs inside an xmit path
    NoSender,       \* tx_lock is free between steps
    CREDITS,        \* NX_TXQ_INITIAL_CREDITS
    CreditMax,      \* largest value of the signed txq->credits
    FLOW_STOP,      \* RWNX_NDEV_FLOW_CTRL_STOP
    FLOW_RESTART,   \* RWNX_NDEV_FLOW_CTRL_RESTART
    CountMod,       \* width of the unsigned ps.sp_cnt and ps.pkt_ready
    MaxReq,         \* bound: largest number of frames the firmware asks for
    MaxLen,         \* bound: frames in one queue
    MaxCfm,         \* bound: frames of a queue that await confirmation
    Events          \* which optional events the environment produces

PsIds == {"LEGACY", "UAPSD"}
VifReasons == {"CHAN", "VIF_PS", "CSA"}
Reasons == VifReasons \cup {"FULL", "STA_PS"}
Frames == {"data", "eapol"}
AllEvents == {"ps", "interrupt", "CHAN", "VIF_PS", "CSA", "cfm", "sta", "bus"}

ASSUME TxQueueAssumption ==
    /\ MgtTxqs \subseteq Txqs
    /\ StaOf \in [Txqs -> Stas] /\ HwqOf \in [Txqs -> Hwqs]
    /\ PsOf \in [Txqs -> PsIds] /\ Prio \in [Txqs -> Nat]
    /\ \A q, r \in Txqs : StaOf[q] = StaOf[r] /\ Prio[q] = Prio[r] => q = r
    /\ IsFiniteSet(Txqs) /\ IsFiniteSet(Senders) /\ NoSender \notin Senders
    /\ CREDITS \in Nat \ {0} /\ CreditMax \in Nat /\ CREDITS <= CreditMax
    /\ FLOW_STOP \in Nat /\ FLOW_RESTART \in Nat /\ FLOW_RESTART <= FLOW_STOP
    /\ CountMod \in Nat /\ MaxLen \in Nat /\ MaxLen * Cardinality(Txqs) < CountMod
    /\ MaxReq \in Nat /\ MaxCfm \in Nat
    /\ Events \subseteq AllEvents

VARIABLES
    txq,        \* the TX queues, one record per queue
    sta,        \* the stations, one record per station
    adding,     \* rwnx_hw->adding_sta
    vifStop,    \* stop bits of the interface's own (BC/MC) queue
    need,       \* hwq->need_processing
    tasklet,    \* rwnx_hw->task is scheduled
    tbusy,      \* usbdev->tbusy
    lock,       \* the sender that holds tx_lock between two of its steps
    xmit,       \* where each sender is
    rx,         \* where the USB receive thread is
    fw,         \* per queue, frames pushed that await confirmation
    bug         \* a BUG_ON was hit

vars == <<txq, sta, adding, vifStop, need, tasklet, tbusy, lock, xmit, rx, fw, bug>>

XIdle == [pc |-> "idle"]
RxIdle == [pc |-> "idle"]

TxqsOf(s) == {q \in Txqs : StaOf[q] = s}
\* sta->valid; "added": valid, and rwnx_cfg80211_add_station not yet left.
Valid(s) == sta[s].phase \in {"added", "valid"}

TxqsOfPs(s, p) == {q \in TxqsOf(s) : PsOf[q] = p}
\* What each ps_id of station s gets when every queue q contributes f[q].
PerPs(s, f) == [p \in PsIds |-> SumFunctionOnSet(f, TxqsOfPs(s, p))]

\* What rwnx_txq_init sets; it touches neither the list node nor the netdev
\* queue.  "dirty": inactive, but its frames are not flushed yet.
Initialised(t, stop) ==
    [active |-> TRUE, dirty |-> FALSE, stop |-> stop, listed |-> FALSE,
     links |-> t.links, sk_list |-> <<>>, push_limit |-> 0,
     credits |-> CREDITS, flow |-> FALSE, closed |-> t.closed]
Zero == [p \in PsIds |-> 0]

Init ==
    /\ txq = [q \in Txqs |-> Initialised([links |-> 0, closed |-> FALSE], {})]
    /\ sta = [s \in Stas |-> [phase |-> "valid", ps |-> FALSE, ready |-> Zero,
                              sp |-> Zero, tim |-> [p \in PsIds |-> FALSE]]]
    /\ adding = FALSE
    /\ vifStop = {}
    /\ need = [h \in Hwqs |-> FALSE]
    /\ tasklet = FALSE
    /\ tbusy = FALSE
    /\ lock = NoSender
    /\ xmit = [x \in Senders |-> XIdle]
    /\ rx = RxIdle
    /\ fw = [q \in Txqs |-> 0]
    /\ bug = FALSE

-----------------------------------------------------------------------------
(* Operations on one queue record, as the functions of rwnx_txq.c.         *)

Stopped(t) == t.stop # {}

AddToHwList(t) ==
    IF t.listed THEN t ELSE [t EXCEPT !.listed = TRUE, !.links = t.links + 1]

DelFromHwList(t) ==
    IF t.listed THEN [t EXCEPT !.listed = FALSE, !.links = t.links - 1] ELSE t

\* Mutant: the stop bits are not looked at.
ReadyWhileStopped(t) == IF t.sk_list # <<>> THEN AddToHwList(t) ELSE t

ReadyToSend(t) ==
    IF ~Stopped(t) /\ t.sk_list # <<>> THEN AddToHwList(t) ELSE t

\* Mutants: starting for one reason lifts all of them; the queue is not put
\* back into the list.
StartForAll(t, reason) ==
    IF t.active /\ reason \in t.stop THEN ReadyToSend([t EXCEPT !.stop = {}]) ELSE t
StartUnlisted(t, reason) ==
    IF t.active THEN [t EXCEPT !.stop = t.stop \ {reason}] ELSE t

Start(t, reason) ==
    IF t.active /\ reason \in t.stop
    THEN ReadyToSend([t EXCEPT !.stop = t.stop \ {reason}])
    ELSE t

Stop(t, reason) ==
    IF t.active
    THEN DelFromHwList([t EXCEPT !.stop = t.stop \cup {reason}])
    ELSE t

\* Mutant: the netdev queue is stopped and the flag is not set.
FlowStopUnmarked(q, t) ==
    IF q \notin MgtTxqs /\ ~tbusy /\ Len(t.sk_list) > FLOW_STOP
    THEN [t EXCEPT !.closed = TRUE] ELSE t

\* The frame is in the list: stop the netdev queue if it has grown too long.
FlowStop(q, t) ==
    IF q \notin MgtTxqs /\ ~tbusy /\ Len(t.sk_list) > FLOW_STOP
    THEN [t EXCEPT !.flow = TRUE, !.closed = TRUE]
    ELSE t

\* Mutant: linking a queue does not flag its hwq.
NeedAsBefore(t) == need

\* need_processing of every hwq one of whose queues has just been listed.
NeedAfter(t) ==
    [h \in Hwqs |-> need[h] \/ \E q \in Txqs : /\ HwqOf[q] = h
                                               /\ t[q].listed
                                               /\ t[q].links > txq[q].links]

\* Apply op to every queue of the set Q and flag the hwqs that got work.
Update(Q, op(_)) ==
    LET new == [q \in Txqs |-> IF q \in Q THEN op(txq[q]) ELSE txq[q]]
    IN  txq' = new /\ need' = NeedAfter(new)

\* Mutant: the credits alone limit a pass.
AllowedByCredits(t) == t.credits

\* rwnx_txq_get_credits, rwnx_txq_get_skb_to_push: how many frames leave a
\* queue in one pass, and whether the pass leaves it nothing to do.
Allowed(t) ==
    IF t.push_limit # 0 /\ t.credits > t.push_limit THEN t.push_limit
                                                     ELSE t.credits
Taken(t) == IF Allowed(t) >= Len(t.sk_list) THEN Len(t.sk_list) ELSE Allowed(t)
\* Mutant: off by one, a queue that used all it may is kept.
FinishedStrictly(t) == \/ Allowed(t) > Len(t.sk_list)
                       \/ t.push_limit # 0 /\ Allowed(t) = t.push_limit

Finished(t) == \/ Allowed(t) >= Len(t.sk_list)
               \/ t.push_limit # 0 /\ Allowed(t) = t.push_limit

\* A BUG_ON of rwnx_hwq_process fires on this listed queue.
Broken(t) == ~t.listed \/ (t.active /\ (t.credits <= 0 \/ t.sk_list = <<>>))

\* Mutant: the limit is not lowered by what was pushed.
LimitLeftAsBefore(t) == t.push_limit

\* The push_limit left when a pass could not complete a service period: a
\* legacy period is abandoned, a U-APSD one waits for its EOSP frame.
LimitLeft(t) == IF t.push_limit > Taken(t) THEN t.push_limit - Taken(t) ELSE 0

\* One pass of rwnx_hwq_process over the listed queue q.
Pass(q, t) ==
    LET n == Taken(t)
        pushed == [t EXCEPT !.sk_list = SubSeq(t.sk_list, n + 1, Len(t.sk_list)),
                            !.push_limit = IF PsOf[q] = "LEGACY" THEN 0
                                           ELSE LimitLeft(t)]
        kept == IF Finished(t) THEN DelFromHwList(pushed) ELSE pushed
    IN  IF ~t.active THEN [DelFromHwList(t) EXCEPT !.sk_list = <<>>]
        ELSE IF kept.flow /\ Len(kept.sk_list) < FLOW_RESTART
        THEN [kept EXCEPT !.flow = FALSE, !.closed = tbusy /\ t.closed]
        ELSE kept

\* What is linked in the lists of the hwqs of H.
Work(H) == {q \in Txqs : HwqOf[q] \in H /\ txq[q].links > 0}
Eapols(seq) == Cardinality({i \in DOMAIN seq : seq[i] = "eapol"})

\* How many frames one pass over these lists takes from each queue, and how
\* many a legacy period that is abandoned still had to push.
Pushed(H) ==
    [q \in Txqs |-> IF q \in Work(H) /\ txq[q].active THEN Taken(txq[q]) ELSE 0]
Dropped(H) ==
    [q \in Txqs |-> IF q \in Work(H) /\ txq[q].active /\ PsOf[q] = "LEGACY"
                    THEN LimitLeft(txq[q]) ELSE 0]

\* rwnx_set_more_data_flag counts the frames of a sleeping station down.
CountDown(s, out, lost) ==
    LET awake == ~sta[s].ps
        ready == [p \in PsIds |-> IF awake THEN sta[s].ready[p]
                                  ELSE (sta[s].ready[p] - out[p]) % CountMod]
    IN  [sta[s] EXCEPT
           !.ready = ready,
           !.sp = [p \in PsIds |-> (sta[s].sp[p] - lost[p]
                                     - (IF awake THEN 0 ELSE out[p])) % CountMod],
           !.tim = [p \in PsIds |-> sta[s].tim[p] /\
                                     (awake \/ out[p] = 0 \/ ready[p] # 0)]]

\* rwnx_hwq_process on every hwq of H.
Process(H) ==
    IF \E q \in Work(H) : Broken(txq[q])
    THEN bug' = TRUE /\ UNCHANGED <<txq, sta, need, fw>>
    ELSE /\ txq' = [q \in Txqs |-> IF q \in Work(H) THEN Pass(q, txq[q]) ELSE txq[q]]
         /\ need' = [h \in Hwqs |-> need[h] /\ h \notin H]
         /\ fw' = [q \in Txqs |->
                     fw[q] + Eapols(SubSeq(txq[q].sk_list, 1, Pushed(H)[q]))]
         /\ sta' = [s \in Stas |->
                      CountDown(s, PerPs(s, Pushed(H)), PerPs(s, Dropped(H)))]
         /\ UNCHANGED bug

-----------------------------------------------------------------------------
(* The xmit paths: rwnx_start_xmit, intf_tx and rwnx_start_mgmt_xmit.  The *)
(* queue's index is read before tx_lock is taken.                          *)

LockFree == lock = NoSender

\* Frames of queue q, in the queue, on their way into it or unconfirmed.
OnTheWay(q) == Cardinality({x \in Senders : xmit[x].pc = "checked" /\ xmit[x].q = q})
Unconfirmed(q, f) == fw[q] + Eapols(txq[q].sk_list) +
    Cardinality({x \in Senders : xmit[x] = [pc |-> "checked", q |-> q, frame |-> f]})

\* A frame of the netdev queue (open) or of cfg80211 finds its queue active.
XmitCheck(x, q, f) ==
    /\ xmit[x].pc = "idle"
    /\ txq[q].active
    /\ q \notin MgtTxqs => ~txq[q].closed
    /\ Len(txq[q].sk_list) + OnTheWay(q) < MaxLen
    /\ f = "eapol" => "cfm" \in Events /\ Unconfirmed(q, f) < MaxCfm
    /\ xmit' = [xmit EXCEPT ![x] = [pc |-> "checked", q |-> q, frame |-> f]]
    /\ UNCHANGED <<adding, txq, sta, vifStop, need, tasklet, tbusy, lock, rx, fw, bug>>

\* Mutant: the TIM is set one frame late.
CountReadyLate(r, p, old) ==
    [r EXCEPT !.ready = [r.ready EXCEPT ![p] = (old + 1) % CountMod],
              !.tim = [r.tim EXCEPT ![p] = r.tim[p] \/ old = 1]]

\* The bookkeeping of rwnx_txq_queue_skb for a sleeping station.
CountReady(r, p, old) ==
    [r EXCEPT !.ready = [r.ready EXCEPT ![p] = (old + 1) % CountMod],
              !.tim = [r.tim EXCEPT ![p] = r.tim[p] \/ old = 0]]

\* rwnx_txq_queue_skb under tx_lock; the lock is kept while a listed queue
\* is about to be processed.
XmitQueue(x) ==
    /\ xmit[x].pc = "checked" /\ LockFree
    /\ LET q == xmit[x].q
           s == StaOf[q]
           t == FlowStop(q, [txq[q] EXCEPT
                    !.sk_list = Append(txq[q].sk_list, xmit[x].frame)])
       IN  /\ Update({q}, LAMBDA old : IF Stopped(t) THEN t ELSE AddToHwList(t))
           /\ sta' = IF sta[s].ps
                     THEN [sta EXCEPT ![s] = CountReady(sta[s], PsOf[q],
                                                        sta[s].ready[PsOf[q]])]
                     ELSE sta
           /\ IF Stopped(t)
              THEN xmit' = [xmit EXCEPT ![x] = XIdle] /\ UNCHANGED lock
              ELSE /\ xmit' = [xmit EXCEPT ![x] = [pc |-> "queued", q |-> q]]
                   /\ lock' = x
    /\ UNCHANGED <<adding, vifStop, tasklet, tbusy, rx, fw, bug>>

\* rwnx_hwq_process(txq->hwq), then tx_lock is released.
XmitProcess(x) ==
    /\ xmit[x].pc = "queued"
    /\ Process({HwqOf[xmit[x].q]})
    /\ xmit' = [xmit EXCEPT ![x] = XIdle]
    /\ lock' = NoSender
    /\ UNCHANGED <<adding, vifStop, tasklet, tbusy, rx>>

\* rwnx_task: rwnx_hwq_process_all under tx_lock.
Task ==
    /\ tasklet /\ LockFree
    /\ tasklet' = FALSE
    /\ Process({h \in Hwqs : need[h]})
    /\ UNCHANGED <<adding, vifStop, tbusy, lock, xmit, rx>>

-----------------------------------------------------------------------------
(* Indications of the firmware, run one at a time by the receive thread.   *)
(* cb_lock is no longer taken around them.                                 *)

\* rwnx_ps_bh_enable.  On: all queues of the station stop and what they hold
\* is counted, the TIM is left as it is.  Off: no limit any more, the queues
\* start and the tasklet will push.
PsEnable(s, on, phase) ==
    LET Op(t) == IF on THEN Stop(t, "STA_PS")
                 ELSE Start([t EXCEPT !.push_limit = 0], "STA_PS")
        held == PerPs(s, [q \in Txqs |-> Len(txq[q].sk_list)])
    IN  /\ Update(TxqsOf(s), Op)
        /\ sta' = [sta EXCEPT ![s] =
             IF on THEN [sta[s] EXCEPT !.phase = phase, !.ps = TRUE, !.sp = Zero,
                                       !.ready = [p \in PsIds |-> held[p] % CountMod]]
                   ELSE [sta[s] EXCEPT !.phase = phase, !.ps = FALSE]]
        /\ tasklet' = (tasklet \/ ~on)

\* rwnx_rx_ps_change_ind reads sta->valid ...  (The firmware indicates changes
\* only, of stations it knows.)
PsChangeInd(s, on) ==
    /\ "ps" \in Events
    /\ rx.pc = "idle" /\ sta[s].phase # "absent" /\ sta[s].ps # on
    /\ rx' = [pc |-> "ps", s |-> s, on |-> on, valid |-> Valid(s)]
    /\ UNCHANGED <<adding, txq, sta, vifStop, need, tasklet, tbusy, lock, xmit, fw, bug>>

\* ... and changes the mode of a station that was valid when it looked.
PsChange ==
    /\ rx.pc = "ps" /\ rx.valid /\ LockFree
    /\ PsEnable(rx.s, rx.on, sta[rx.s].phase)
    /\ rx' = RxIdle
    /\ UNCHANGED <<adding, vifStop, tbusy, lock, xmit, fw, bug>>

\* A mode change of a station that is not valid yet is only remembered, and
\* dropped when no station is being added.
PsRemember ==
    /\ rx.pc = "ps" /\ ~rx.valid
    /\ sta' = IF adding
              THEN [sta EXCEPT ![rx.s] = [sta[rx.s] EXCEPT !.ps = rx.on]]
              ELSE sta
    /\ rx' = RxIdle
    /\ UNCHANGED <<adding, txq, vifStop, need, tasklet, tbusy, lock, xmit, fw, bug>>

\* rwnx_ps_bh_traffic_req, the request shared out between the queues: each
\* gives what it holds, data queues by priority, management queues nothing.
Offer(q) ==
    IF Len(txq[q].sk_list) > txq[q].credits THEN txq[q].credits % CountMod
                                            ELSE Len(txq[q].sk_list)
DataTxqsOf(s, p) == TxqsOfPs(s, p) \ MgtTxqs
Share(s, p, req) ==
    LET offer == [q \in Txqs |-> Offer(q)]
        before(q) == SumFunctionOnSet(offer,
                       {r \in DataTxqsOf(s, p) : Prio[r] < Prio[q]})
    IN  [q \in Txqs |->
           IF q \notin DataTxqsOf(s, p) \/ before(q) >= req THEN 0
           ELSE Min({Offer(q), req - before(q)})]

\* A request is served unless a period of that ps_id is open or nothing is
\* ready.  It comes over the air: only while the interface is on its channel.
TrafficReq(s, n, p) ==
    LET all == sta[s].ready[p] - sta[s].sp[p]
        share == Share(s, p, IF n = 0 \/ n > all THEN all ELSE n)
        new == [q \in Txqs |->
                  IF share[q] = 0 THEN txq[q]
                  ELSE AddToHwList([txq[q] EXCEPT !.push_limit = share[q]])]
    IN  /\ "ps" \in Events
        /\ rx.pc = "idle" /\ LockFree
        /\ vifStop \cap {"CHAN", "VIF_PS"} = {}
        /\ sta[s].ps /\ sta[s].sp[p] = 0 /\ all > 0
        /\ txq' = new
        /\ need' = NeedAfter(new)
        /\ sta' = [sta EXCEPT ![s] = [sta[s] EXCEPT
             !.sp = [sta[s].sp EXCEPT ![p] = PerPs(s, share)[p] % CountMod]]]
        /\ tasklet' = TRUE
        /\ UNCHANGED <<adding, vifStop, tbusy, lock, xmit, rx, fw, bug>>

\* The firmware interrupts the U-APSD period (PS_SP_INTERRUPTED).
SpInterrupted(s) ==
    /\ "interrupt" \in Events
    /\ rx.pc = "idle" /\ LockFree /\ sta[s].ps
    /\ txq' = [q \in Txqs |-> IF StaOf[q] = s
                              THEN [txq[q] EXCEPT !.push_limit = 0] ELSE txq[q]]
    /\ sta' = [sta EXCEPT ![s] = [sta[s] EXCEPT
                 !.sp = [sta[s].sp EXCEPT !["UAPSD"] = 0]]]
    /\ UNCHANGED <<adding, vifStop, need, tasklet, tbusy, lock, xmit, rx, fw, bug>>

\* rwnx_txq_vif_stop: channel left, P2P absence or channel-switch
\* announcement.  It reaches the stations linked to the interface.
LinkedTxqs == {q \in Txqs : Valid(StaOf[q])}

VifStop(r) ==
    LET Op(t) == Stop(t, r)
    IN  /\ r \in Events \ vifStop
        /\ rx.pc = "idle" /\ LockFree
        /\ Update(LinkedTxqs, Op)
        /\ vifStop' = vifStop \cup {r}
        /\ UNCHANGED <<adding, sta, tasklet, tbusy, lock, xmit, rx, fw, bug>>

\* rwnx_txq_vif_start.  The handlers of a channel switch and of the end of an
\* absence schedule the tasklet, that of the end of a CSA does not.
VifStart(r) ==
    LET Op(t) == Start(t, r)
    IN  /\ r \in vifStop
        /\ rx.pc = "idle" /\ LockFree
        /\ Update(LinkedTxqs, Op)
        /\ vifStop' = vifStop \ {r}
        /\ tasklet' = (tasklet \/ r # "CSA")
        /\ UNCHANGED <<adding, sta, tbusy, lock, xmit, rx, fw, bug>>

\* rwnx_txq_credit_update: the credits stay, only the FULL bit follows them.
CreditUpdate(q) ==
    LET Op(t) == IF t.credits <= 0 THEN Stop(t, "FULL") ELSE Start(t, "FULL")
    IN  /\ "cfm" \in Events
        /\ rx.pc = "idle" /\ LockFree /\ txq[q].active
        /\ Update({q}, Op)
        /\ UNCHANGED <<adding, sta, vifStop, tasklet, tbusy, lock, xmit, rx, fw, bug>>

-----------------------------------------------------------------------------
(* Data confirmations: rwnx_txdatacfm and rwnx_tx_retry, run by the receive *)
(* thread without tx_lock: the reads and the writes of the counter, the    *)
(* queue and the status word are steps between which others run.           *)

\* The firmware reports a frame of queue q and may ask for it again.  While
\* a service period is open, the queue is to be scheduled again.
Cfm(q, again) ==
    /\ "cfm" \in Events /\ rx.pc = "idle" /\ fw[q] > 0
    /\ fw' = [fw EXCEPT ![q] = fw[q] - 1]
    /\ need' = [need EXCEPT ![HwqOf[q]] = TRUE]
    /\ rx' = IF again /\ q \notin MgtTxqs /\ txq[q].active
             THEN [pc |-> "retry", q |-> q]
             ELSE IF txq[q].active /\ txq[q].push_limit # 0
                     /\ "FULL" \notin txq[q].stop
             THEN [pc |-> "link", q |-> q]
             ELSE RxIdle
    /\ UNCHANGED <<adding, txq, sta, vifStop, tasklet, tbusy, lock, xmit, bug>>

\* A signed counter that wraps.
Incremented(c) == IF c = CreditMax THEN -(CreditMax + 1) ELSE c + 1

\* rwnx_tx_retry: a credit comes back that was never taken.  rwnx_txq_queue_skb
\* then reads whether the station sleeps, and its counter.
CfmRetry ==
    LET q == rx.q
        Op(t) == LET u == [t EXCEPT !.credits = Incremented(t.credits)]
                 IN  IF u.credits > 0 THEN Start(u, "FULL") ELSE u
    IN  /\ rx.pc = "retry"
        /\ Update({q}, Op)
        /\ rx' = [pc |-> "insert", q |-> q, ps |-> sta[StaOf[q]].ps,
                  old |-> sta[StaOf[q]].ready[PsOf[q]]]
        /\ UNCHANGED <<adding, sta, vifStop, tasklet, tbusy, lock, xmit, fw, bug>>

\* Mutant: a retried frame is scheduled although its queue is stopped.
CfmInsertLinks ==
    LET q == rx.q
        s == StaOf[q]
        t == FlowStop(q, [txq[q] EXCEPT !.sk_list = <<"eapol">> \o txq[q].sk_list])
    IN  /\ rx.pc = "insert"
        /\ txq' = [txq EXCEPT ![q] = t]
        /\ sta' = IF rx.ps
                  THEN [sta EXCEPT ![s] = CountReady(sta[s], PsOf[q], rx.old)]
                  ELSE sta
        /\ rx' = [pc |-> "link", q |-> q]
        /\ UNCHANGED <<adding, vifStop, need, tasklet, tbusy, lock, xmit, fw, bug>>

\* The counter is written and the frame goes to the head of its queue.
CfmInsert ==
    LET q == rx.q
        s == StaOf[q]
        t == FlowStop(q, [txq[q] EXCEPT !.sk_list = <<"eapol">> \o txq[q].sk_list])
    IN  /\ rx.pc = "insert"
        /\ txq' = [txq EXCEPT ![q] = t]
        /\ sta' = IF rx.ps
                  THEN [sta EXCEPT ![s] = CountReady(sta[s], PsOf[q], rx.old)]
                  ELSE sta
        /\ rx' = IF Stopped(t) THEN RxIdle ELSE [pc |-> "link", q |-> q]
        /\ UNCHANGED <<adding, vifStop, need, tasklet, tbusy, lock, xmit, fw, bug>>

\* rwnx_txq_add_to_hw_list: the status word is read ...
CfmLink ==
    /\ rx.pc = "link"
    /\ rx' = IF txq[rx.q].listed THEN RxIdle
             ELSE [pc |-> "linked", q |-> rx.q, stop |-> txq[rx.q].stop,
                   flow |-> txq[rx.q].flow]
    /\ UNCHANGED <<adding, txq, sta, vifStop, need, tasklet, tbusy, lock, xmit, fw, bug>>

\* ... and written back whole, and the queue is linked.
CfmLinked ==
    LET q == rx.q
    IN  /\ rx.pc = "linked"
        /\ txq' = [txq EXCEPT ![q] = [txq[q] EXCEPT
                     !.listed = TRUE, !.links = txq[q].links + 1,
                     !.stop = rx.stop, !.flow = rx.flow]]
        /\ need' = [need EXCEPT ![HwqOf[q]] = TRUE]
        /\ rx' = RxIdle
        /\ UNCHANGED <<adding, sta, vifStop, tasklet, tbusy, lock, xmit, fw, bug>>

-----------------------------------------------------------------------------
(* cfg80211 deletes and adds stations.                                     *)

Phase(s, from, to) == /\ sta[s].phase = from
                      /\ sta' = [sta EXCEPT ![s] = [sta[s] EXCEPT !.phase = to]]

\* cfg80211 runs one of these operations at a time.
RtnlFree == \A s \in Stas : sta[s].phase \in {"valid", "absent"}

\* rwnx_cfg80211_del_station: unlinked first ...
StaUnlink(s) ==
    /\ "sta" \in Events
    /\ RtnlFree /\ Valid(s)
    /\ sta' = [sta EXCEPT ![s] = [sta[s] EXCEPT !.phase = "deleting", !.ps = FALSE]]
    /\ UNCHANGED <<adding, txq, vifStop, need, tasklet, tbusy, lock, xmit, rx, fw, bug>>

\* ... then rwnx_txq_deinit for each queue: inactive under tx_lock ...
TxqDeinit(q) ==
    /\ sta[StaOf[q]].phase = "deleting" /\ txq[q].active /\ LockFree
    /\ txq' = [txq EXCEPT ![q] = [DelFromHwList(txq[q]) EXCEPT !.active = FALSE,
                                                               !.dirty = TRUE]]
    /\ UNCHANGED <<adding, sta, vifStop, need, tasklet, tbusy, lock, xmit, rx, fw, bug>>

\* ... and flushed after tx_lock is released.
TxqFlush(q) ==
    /\ txq[q].dirty
    /\ txq' = [txq EXCEPT ![q] = [txq[q] EXCEPT !.dirty = FALSE, !.sk_list = <<>>]]
    /\ UNCHANGED <<adding, sta, vifStop, need, tasklet, tbusy, lock, xmit, rx, fw, bug>>

\* The firmware has forgotten the station.
StaGone(s) ==
    /\ \A q \in TxqsOf(s) : ~txq[q].active /\ ~txq[q].dirty
    /\ Phase(s, "deleting", "absent")
    /\ UNCHANGED <<adding, txq, vifStop, need, tasklet, tbusy, lock, xmit, rx, fw, bug>>

\* rwnx_cfg80211_add_station: adding_sta is set and the firmware told ...
StaAdd(s) ==
    /\ RtnlFree
    /\ Phase(s, "absent", "adding")
    /\ adding' = TRUE
    /\ UNCHANGED <<txq, vifStop, need, tasklet, tbusy, lock, xmit, rx, fw, bug>>

\* ... it refuses the station, or the command fails and adding_sta stays set ...
StaRefused(s) ==
    /\ Phase(s, "adding", "absent")
    /\ adding' \in BOOLEAN
    /\ UNCHANGED <<txq, vifStop, need, tasklet, tbusy, lock, xmit, rx, fw, bug>>

\* ... its queues are initialised, stopped as the interface's own queue is ...
StaInit(s) ==
    /\ Phase(s, "adding", "ready")
    /\ txq' = [q \in Txqs |->
                 IF StaOf[q] = s
                 THEN Initialised(txq[q], vifStop \cap {"CHAN", "VIF_PS"})
                 ELSE txq[q]]
    /\ UNCHANGED <<adding, vifStop, need, tasklet, tbusy, lock, xmit, rx, fw, bug>>

\* ... it is linked to the interface and its power-save mode set, to what the
\* firmware answered (asleep) or indicated since ...
StaLink(s, asleep) ==
    /\ sta[s].phase = "ready" /\ LockFree
    /\ asleep => "ps" \in Events
    /\ PsEnable(s, sta[s].ps \/ asleep, "added")
    /\ UNCHANGED <<adding, vifStop, tbusy, lock, xmit, rx, fw, bug>>

\* ... and adding_sta is cleared.
StaAdded(s) ==
    /\ Phase(s, "added", "valid")
    /\ adding' = FALSE
    /\ UNCHANGED <<txq, vifStop, need, tasklet, tbusy, lock, xmit, rx, fw, bug>>

-----------------------------------------------------------------------------
(* aicwf_usb_tx_flowctrl, called under tx_flow_lock by the USB bus when it  *)
(* runs out of buffers and when it has enough of them again.               *)

NetdevQueues(closed) ==
    txq' = [q \in Txqs |-> IF q \in MgtTxqs THEN txq[q]
                           ELSE [txq[q] EXCEPT !.closed = closed]]
BusStop ==
    /\ "bus" \in Events
    /\ tbusy' = TRUE
    /\ NetdevQueues(TRUE)
    /\ UNCHANGED <<adding, sta, vifStop, need, tasklet, lock, xmit, rx, fw, bug>>

BusWake ==
    /\ tbusy /\ tbusy' = FALSE
    /\ NetdevQueues(FALSE)
    /\ UNCHANGED <<adding, sta, vifStop, need, tasklet, lock, xmit, rx, fw, bug>>

-----------------------------------------------------------------------------
Xmit(x) == \/ \E q \in Txqs, f \in Frames : XmitCheck(x, q, f)
           \/ XmitQueue(x)
           \/ XmitProcess(x)

Indication ==
    \/ \E s \in Stas, on \in BOOLEAN : PsChangeInd(s, on)
    \/ \E s \in Stas, n \in 0..MaxReq, p \in PsIds : TrafficReq(s, n, p)
    \/ \E s \in Stas : SpInterrupted(s)
    \/ \E r \in VifReasons : VifStop(r) \/ VifStart(r)
    \/ \E q \in Txqs : CreditUpdate(q)
    \/ \E q \in Txqs, again \in BOOLEAN : Cfm(q, again)

RxStep == PsChange \/ PsRemember \/ CfmRetry \/ CfmInsert \/ CfmLink \/ CfmLinked

Stations ==
    \/ \E s \in Stas : StaUnlink(s) \/ StaGone(s) \/ StaAdd(s) \/ StaRefused(s)
                       \/ StaInit(s) \/ StaAdded(s)
    \/ \E s \in Stas, asleep \in BOOLEAN : StaLink(s, asleep)
    \/ \E q \in Txqs : TxqDeinit(q) \/ TxqFlush(q)

Next == ~bug /\ (\/ \E x \in Senders : Xmit(x)
                 \/ Task
                 \/ Indication
                 \/ RxStep
                 \/ Stations
                 \/ BusStop
                 \/ BusWake)

Spec == Init /\ [][Next]_vars

\* A CPU leaves its xmit path, a scheduled tasklet runs (queued spinlocks are
\* fair), the receive thread finishes what it began, the bus recovers.
Fairness == /\ \A x \in Senders : SF_vars(XmitQueue(x)) /\ WF_vars(XmitProcess(x))
            /\ SF_vars(Task)
            /\ SF_vars(RxStep)
            /\ WF_vars(BusWake)
FairSpec == Spec /\ Fairness

-----------------------------------------------------------------------------
(* Properties.                                                             *)

Waiting(q) == txq[q].active /\ txq[q].sk_list # <<>> /\ ~Stopped(txq[q])

Queue ==
    [active : BOOLEAN, dirty : BOOLEAN, stop : SUBSET Reasons, listed : BOOLEAN,
     links : Int, sk_list : Seq(Frames), push_limit : Nat, credits : Int,
     flow : BOOLEAN, closed : BOOLEAN]

Count == 0..CountMod - 1
Station ==
    [phase : {"absent", "adding", "ready", "added", "valid", "deleting"},
     ps : BOOLEAN, ready : [PsIds -> Count], sp : [PsIds -> Count],
     tim : [PsIds -> BOOLEAN]]

XmitState ==
    {XIdle} \cup [pc : {"checked"}, q : Txqs, frame : Frames]
            \cup [pc : {"queued"}, q : Txqs]

RxState ==
    {RxIdle} \cup [pc : {"ps"}, s : Stas, on : BOOLEAN, valid : BOOLEAN]
            \cup [pc : {"retry", "link"}, q : Txqs]
            \cup [pc : {"insert"}, q : Txqs, ps : BOOLEAN, old : Count]
            \cup [pc : {"linked"}, q : Txqs, stop : SUBSET Reasons, flow : BOOLEAN]

\* Every variable keeps its type.
TypeOK ==
    /\ txq \in [Txqs -> Queue] /\ sta \in [Stas -> Station]
    /\ adding \in BOOLEAN /\ vifStop \subseteq VifReasons
    /\ need \in [Hwqs -> BOOLEAN]
    /\ tasklet \in BOOLEAN /\ tbusy \in BOOLEAN /\ bug \in BOOLEAN
    /\ lock \in Senders \cup {NoSender}
    /\ xmit \in [Senders -> XmitState] /\ rx \in RxState
    /\ fw \in [Txqs -> Nat]

\* A queue is linked in its hardware queue's list once if its status word
\* says so and not at all otherwise, and a linked queue has frames.  The list
\* itself and two BUG_ONs of rwnx_hwq_process rest on this.
ListSound ==
    LockFree => \A q \in Txqs :
        /\ txq[q].links = IF txq[q].listed THEN 1 ELSE 0
        /\ txq[q].listed => txq[q].sk_list # <<>>

\* While a station sleeps, pkt_ready is the number of frames its queues
\* hold, although it is kept up to date by hand at every place that queues
\* or pushes a frame.
ReadyCount ==
    \A s \in Stas, p \in PsIds :
        Valid(s) /\ sta[s].ps =>
            sta[s].ready[p] = PerPs(s, [q \in Txqs |-> Len(txq[q].sk_list)])[p]

\* The frames of an open service period are the push limits of the queues,
\* and each queue still holds what it has promised.
SpCount ==
    \A s \in Stas : sta[s].ps =>
        /\ \A p \in PsIds :
             sta[s].sp[p] = PerPs(s, [q \in Txqs |-> txq[q].push_limit])[p]
        /\ \A q \in TxqsOf(s) : txq[q].push_limit <= Len(txq[q].sk_list)

\* Both counters kept by hand agree with the queues.
CountersAgree == ReadyCount /\ SpCount

\* What is kept by hand of the queues is right: types and ranges, the lists,
\* the counters.
QueuesSound == TypeOK /\ ListSound /\ CountersAgree

\* A queue that owes frames to an open service period.
Owes(q) == txq[q].active /\ sta[StaOf[q]].ps /\ txq[q].push_limit > 0

\* A queue that owes frames to an open service period is in the list, as
\* rwnx_ps_bh_traffic_req promises ("will make sure that @pkt_req are pushed"),
\* unless the interface was stopped inside the period: that takes the queue off
\* the list for good.
SpServed ==
    [][\A q \in Txqs : Owes(q)' /\ ~txq'[q].listed =>
         \/ Owes(q) /\ ~txq[q].listed
         \/ \E r \in VifReasons : VifStop(r)]_vars

\* The frames a step takes out of queue q.
Leaves(q) == /\ txq[q].active /\ txq'[q].active
             /\ Len(txq'[q].sk_list) < Len(txq[q].sk_list)

\* A queue of a sleeping station in the list with no limit on what it pushes.
Unlimited(q) == txq[q].listed /\ sta[StaOf[q]].ps /\ txq[q].push_limit = 0

\* Frames for a sleeping station leave its queue only as far as it has asked,
\* but for a queue whose service period was interrupted before the tasklet came:
\* that one is left in the list without a limit (rwnx_tx.c:181-190).
OnlyRequested ==
    [][\A q \in Txqs :
         /\ Leaves(q) /\ sta[StaOf[q]].ps =>
              \/ Len(txq[q].sk_list) - Len(txq'[q].sk_list) <= txq[q].push_limit
              \/ Unlimited(q)
         /\ Unlimited(q)' => Unlimited(q) \/ SpInterrupted(StaOf[q])]_vars

\* While the interface is off its channel or absent no frame of a queue is
\* handed to the firmware.
OffChannelSilent ==
    [][\A q \in Txqs : Leaves(q) => vifStop \cap {"CHAN", "VIF_PS"} = {}]_vars

\* The stop reasons of the interface reach every queue of its stations, and
\* are lifted from all of them.
VifStopReaches ==
    \A q \in LinkedTxqs : \A r \in {"CHAN", "VIF_PS"} :
        r \in txq[q].stop <=> r \in vifStop

\* A queue that has been initialised has the interface's stop bits.  With
\* stations coming and going they part only when the interface stops or starts
\* between the copying of its bits and the linking of the station
\* (rwnx_main.c:4423-4428: cb_lock keeps no indication out any more).
Initialized(q) == sta[StaOf[q]].phase \in {"ready", "added", "valid"}
Parted(q, r) == Initialized(q) /\ ~(r \in txq[q].stop <=> r \in vifStop)

StopsFollow ==
    [][\A q \in Txqs, r \in {"CHAN", "VIF_PS"} : Parted(q, r)' =>
         \/ Parted(q, r)
         \/ sta[StaOf[q]].phase = "ready" /\ (VifStop(r) \/ VifStart(r))]_vars

\* A station's queues are held back for power save exactly while it sleeps.
PsAgrees ==
    \A q \in LinkedTxqs : txq[q].active =>
        (sta[StaOf[q]].ps <=> "STA_PS" \in txq[q].stop)

\* The stop bits of the queues are those of the interface and the station.
StopsAgree == VifStopReaches /\ PsAgrees

\* The beacon says whether frames of ps_id p wait for station s.
Announced(s, p) == sta[s].ready[p] = 0 \/ sta[s].tim[p]

\* As long as a station sleeps, the beacon announces the frames that wait for
\* it, however they come and go: what falsifies the announcement is only falling
\* asleep with frames in the queues, which rwnx_ps_bh_enable counts and does not
\* announce (rwnx_tx.c:109, against its comment).
TimTold ==
    [][\A s \in Stas, p \in PsIds :
         Valid(s) /\ sta[s].ps /\ sta'[s].ps /\ Announced(s, p)
           => Announced(s, p)']_vars

\* A stopped netdev queue has somebody who will wake it: the USB bus, or the
\* pass that brings its queue under the threshold.
NetdevHeld ==
    LockFree => \A q \in Txqs : txq[q].active /\ txq[q].closed =>
        tbusy \/ (txq[q].flow /\ Len(txq[q].sk_list) >= FLOW_RESTART)

\* Somebody will look at a queue in the list: its hardware queue is flagged and
\* the tasklet scheduled, or a sender is about to process it.
Ahead(q) == \/ need[HwqOf[q]] /\ tasklet
            \/ \E x \in Senders : xmit[x].pc = "queued" /\ HwqOf[xmit[x].q] = HwqOf[q]
Stranded(q) == txq[q].listed /\ ~Ahead(q)

\* No queue is left in the list with nobody to look at it (until a BUG_ON), but
\* by two steps: the end of a channel switch announcement, which schedules
\* nobody for the queues it links (rwnx_msg_rx.c:508), and a pass that takes as
\* many frames as there are credits from a queue that holds more, and drops
\* need_processing all the same (rwnx_txq.c:1245).
WorkScheduled ==
    [][\A q \in Txqs : Stranded(q)' =>
         \/ Stranded(q) \/ bug'
         \/ ~txq[q].listed /\ VifStart("CSA")
         \/ Leaves(q) /\ Len(txq[q].sk_list) > txq[q].credits]_vars

\* A queue that is active, not stopped and not empty is in the list.
NotForgotten == LockFree => \A q \in Txqs : Waiting(q) => txq[q].listed

\* A queue that always has something to send goes on sending, unless a pass
\* has stranded it.
Drains ==
    \A q \in Txqs : []<>(~Waiting(q) \/ Stranded(q)) \/ []<><<Leaves(q)>>_vars

\* A service period ends.
PeriodEnds ==
    \A s \in Stas, p \in PsIds :
        (sta[s].ps /\ sta[s].sp[p] # 0) ~> (~sta[s].ps \/ sta[s].sp[p] = 0)

-----------------------------------------------------------------------------
(* The inductive invariants behind these properties, while no station comes *)
(* or goes and no frame is confirmed.                                       *)

Quiet == Events \cap {"sta", "cfm"} = {}

\* The queues stay those of linked stations and keep their credits, so no
\* BUG_ON is met; a power-save change under way is one.
Settled ==
    /\ \A s \in Stas : sta[s].phase = "valid"
    /\ \A q \in Txqs : txq[q].active /\ ~txq[q].dirty /\ txq[q].credits = CREDITS
    /\ rx.pc \in {"idle", "ps"}
    /\ rx.pc = "ps" => rx.valid /\ sta[rx.s].ps # rx.on
    /\ ~bug

LockHeld == \A x \in Senders : xmit[x].pc = "queued" <=> lock = x

\* ListSound and NotForgotten hold also while a sender has the lock.
Linked ==
    \A q \in Txqs : /\ txq[q].links = IF txq[q].listed THEN 1 ELSE 0
                    /\ txq[q].listed => txq[q].sk_list # <<>>
Kept == \A q \in Txqs : txq[q].sk_list # <<>> /\ ~Stopped(txq[q]) => txq[q].listed

Room == \A q \in Txqs : Len(txq[q].sk_list) + OnTheWay(q) <= MaxLen

\* Only a sleeping station has a period open, of frames that are there, and
\* that one pass can push; and nothing is listed that may not be on the air.
Limited ==
    \A q \in Txqs :
        /\ txq[q].push_limit <= Len(txq[q].sk_list)
        /\ txq[q].push_limit <= CREDITS
        /\ txq[q].push_limit > 0 => sta[StaOf[q]].ps
OnChannel ==
    \A q \in Txqs : txq[q].listed => txq[q].stop \cap {"CHAN", "VIF_PS"} = {}

ClosedForReason ==
    \A q \in Txqs : txq[q].closed =>
        /\ q \notin MgtTxqs
        /\ tbusy \/ (txq[q].flow /\ Len(txq[q].sk_list) >= FLOW_RESTART)

QuietInv ==
    /\ TypeOK /\ Settled /\ LockHeld /\ Linked /\ Kept /\ Room /\ StopsAgree
    /\ Limited /\ OnChannel /\ ClosedForReason /\ ReadyCount

\* Without interruptions, what is listed of a sleeping station was asked for.
Promised == \A q \in Txqs : ~Unlimited(q)
=============================================================================
