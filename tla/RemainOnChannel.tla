--------------------------- MODULE RemainOnChannel ---------------------------
(***************************************************************************)
(* Remain on channel: cfg80211 asks the driver to stay on another channel  *)
(* for a while, itself (remain_on_channel) or to send one frame there      *)
(* (mgmt_tx).  The driver keeps what it was asked in one element,          *)
(* rwnx_hw->roc_elem, which the requesting thread publishes, the receive   *)
(* thread uses and frees when the firmware reports the end, and the        *)
(* closing of the interface drops; nothing of it is under a lock.          *)
(*                                                                         *)
(* Threads: the operations of cfg80211 and the closing of an interface,    *)
(* which the locks of the network stack keep apart, one at a time; and the *)
(* receive thread.  Commands reach the firmware in order and what it sends *)
(* comes back in order (CmdMgr).  A use of freed or absent memory sets     *)
(* oops, and the model stops there.                                        *)
(***************************************************************************)
EXTENDS Naturals, Sequences, FiniteSets

CONSTANTS
    Vifs,               \* interfaces
    None,               \* NULL
    Odd,                \* which of OddEvents may happen
    MaxOps,             \* bound on the operations of cfg80211
    MaxOdd              \* bound on the odd events

(* A command, or memory, is refused; a command is answered too late; its     *)
(* sender goes on before the answer (killed, or deferred behind another      *)
(* sender); the sender is so slow after the answer that its time on the      *)
(* channel, 200 ms, is over; an interface is closed.                         *)
OddEvents == {"refused", "timeout", "early", "slow", "close"}

Ids == 1..MaxOps        \* the elements, by the operation that allocates them

ASSUME RocAssumption ==
    /\ None \notin Vifs \cup Nat \cup [id : Ids, vif : Vifs, on : BOOLEAN]
    /\ Odd \subseteq OddEvents
    /\ MaxOps \in Nat /\ MaxOdd \in Nat

VARIABLES
    elem,               \* rwnx_hw->roc_elem
    heap,               \* the elements not freed
    wdev,               \* whose element it is
    mgmt_roc, on_chan,  \* the elements with the flag
    cookie,             \* roc_cookie_cnt
    pc, cur, vif, mgmt, \* the operation: where it is, its element, its interface,
                        \* and whether it is mgmt_tx
    ptr,                \* the element mgmt_tx or the closing found
    up,                 \* the running interfaces
    rxpc, rxptr,        \* the receive thread in the expiry, and its element
    oidx, ostop,        \* the off-channel queue: is it active, is it stopped
    oframes, olisted,   \* its frames, and is it in the hardware queue's list
    chan, ind,          \* commands and messages on the bus
    fw,                 \* what the firmware carries out
    crashed,            \* the command manager is
    ops, odd,           \* operations and odd events so far
    past,               \* which odd events they were
    ret,                \* the cookie each operation returned to cfg80211
    reports,            \* what cfg80211 was told
    oops                \* where memory was used that is not there

elemVars == <<elem, heap, wdev, mgmt_roc, on_chan>>
opVars == <<cur, vif, mgmt, ptr, ops, up>>
cfgVars == <<pc, opVars>>
rxVars == <<rxpc, rxptr>>
offVars == <<oidx, ostop, oframes, olisted>>
busVars == <<chan, ind, fw, crashed>>
oddVars == <<odd, past>>
toldVars == <<cookie, ret, reports>>
vars == <<elemVars, cfgVars, rxVars, offVars, busVars, oddVars, toldVars, oops>>

Commands ==
    [op : {"start"}, id : Ids, vif : Vifs] \cup [op : {"cancel"}]
        \cup [op : {"remove"}, vif : Vifs]

Messages ==
    [what : {"start_cfm"}, id : Ids, ok : BOOLEAN]
        \cup [what : {"cancel_cfm", "remove_cfm", "switch", "exp"}]

TypeOK ==
    /\ elem \in Ids \cup {None} /\ heap \subseteq Ids
    /\ wdev \in [Ids -> Vifs \cup {None}]
    /\ mgmt_roc \subseteq Ids /\ on_chan \subseteq Ids /\ cookie \in Nat \ {0}
    /\ pc \in {"idle", "recheck", "init", "publish", "send", "wait", "done", "fail",
               "cancel", "use", "mark", "xmit", "queue", "remove", "look", "clear"}
    /\ cur \in Ids \cup {None} /\ vif \in Vifs \cup {None} /\ mgmt \in BOOLEAN
    /\ ptr \in Ids \cup {None}
    /\ up \subseteq Vifs
    /\ rxpc \in {"idle", "free", "forget"} /\ rxptr \in Ids \cup {None}
    /\ oidx \in BOOLEAN /\ ostop \in BOOLEAN
    /\ oframes \in 0..MaxOps /\ olisted \in BOOLEAN
    /\ chan \in Seq(Commands) /\ ind \in Seq(Messages)
    /\ fw \in [id : Ids, vif : Vifs, on : BOOLEAN] \cup {None}
    /\ crashed \in BOOLEAN
    /\ ops \in 0..MaxOps /\ odd \in 0..MaxOdd
    /\ past \subseteq OddEvents \cup {"unmarked", "late"}
    /\ ret \in [Ids -> Nat]
    /\ reports \in Seq([what : {"ready", "expired"}, cookie : Nat])
    /\ oops \in {"no", "switch", "exp", "use", "mark", "fail", "free",
                 "clear"}

Init ==
    /\ elem = None /\ heap = {} /\ wdev = [i \in Ids |-> None]
    /\ mgmt_roc = {} /\ on_chan = {} /\ cookie = 1
    /\ pc = "idle" /\ cur = None /\ vif = None /\ mgmt = FALSE /\ ptr = None
    /\ up = Vifs
    /\ rxpc = "idle" /\ rxptr = None
    /\ oidx = FALSE /\ ostop = FALSE /\ oframes = 0 /\ olisted = FALSE
    /\ chan = <<>> /\ ind = <<>> /\ fw = None /\ crashed = FALSE
    /\ ops = 0 /\ odd = 0 /\ past = {}
    /\ ret = [i \in Ids |-> 0] /\ reports = <<>> /\ oops = "no"

Happens(e) == e \in Odd /\ odd < MaxOdd /\ odd' = odd + 1 /\ past' = past \cup {e}

Usual == UNCHANGED oddVars

(* The memory of e is used at a place of the code. *)
Uses(e, place) == oops' = IF e \in heap THEN oops ELSE place

-----------------------------------------------------------------------------
(* The off-channel queue *)

(* rwnx_txq_offchan_deinit *)
OffchanDeinit ==
    /\ oidx' = FALSE
    /\ IF oidx THEN oframes' = 0 /\ olisted' = FALSE ELSE UNCHANGED <<oframes, olisted>>
    /\ UNCHANGED ostop

(* rwnx_txq_offchan_start: a stop is lifted, of an active queue. *)
OffchanStart ==
    /\ ostop' = (ostop /\ ~oidx)
    /\ olisted' = (olisted \/ (oidx /\ ostop /\ oframes > 0))
    /\ UNCHANGED <<oidx, oframes>>

(* The tasklet pushes what the queue holds. *)
OffchanTask ==
    /\ olisted
    /\ olisted' = FALSE /\ oframes' = 0
    /\ UNCHANGED <<elemVars, cfgVars, rxVars, oidx, ostop, busVars, oddVars,
                   toldVars, oops>>

-----------------------------------------------------------------------------
(* Operations of cfg80211 *)

Goes(p) == pc' = p /\ UNCHANGED opVars

(* rwnx_cfg80211_remain_on_channel, up to its test of roc_elem *)
Request(v) ==
    /\ pc = "idle" /\ v \in up /\ ops < MaxOps
    /\ ops' = ops + 1 /\ vif' = v /\ mgmt' = FALSE /\ UNCHANGED <<cur, ptr, up>>
    /\ pc' = IF elem = None THEN "init" ELSE "recheck"
    /\ UNCHANGED <<elemVars, rxVars, offVars, busVars, oddVars, toldVars, oops>>

(* After 2 ms another one is still under way, or not. *)
Recheck ==
    /\ pc = "recheck"
    /\ Goes(IF elem = None THEN "init" ELSE "idle")
    /\ UNCHANGED <<elemVars, rxVars, offVars, busVars, oddVars, toldVars, oops>>

(* There is no memory for the element ... *)
RocNoMem ==
    /\ pc = "init" /\ Goes("idle") /\ Happens("refused")
    /\ UNCHANGED <<elemVars, rxVars, offVars, busVars, toldVars, oops>>

(* ... or it is allocated and the off-channel queue reset ... *)
RocInit ==
    /\ pc = "init"
    /\ heap' = heap \cup {ops} /\ wdev' = [wdev EXCEPT ![ops] = vif] /\ cur' = ops
    /\ oidx' = TRUE /\ ostop' = TRUE /\ oframes' = 0 /\ olisted' = FALSE
    /\ pc' = "publish" /\ UNCHANGED <<vif, mgmt, ptr, ops, up>>
    /\ UNCHANGED <<elem, mgmt_roc, on_chan, rxVars, busVars, oddVars, toldVars,
                   oops>>

(* ... before the others see it. *)
Publish ==
    /\ pc = "publish" /\ Goes("send")
    /\ elem' = cur
    /\ UNCHANGED <<heap, wdev, mgmt_roc, on_chan, rxVars, offVars, busVars, oddVars,
                   toldVars, oops>>

(* rwnx_send_roc hands the command over, or is refused. *)
SendRoc ==
    /\ pc = "send"
    /\ \/ /\ ~crashed /\ Goes("wait") /\ Usual
          /\ chan' = Append(chan, [op |-> "start", id |-> cur, vif |-> vif])
       \/ /\ crashed /\ Goes("fail") /\ Usual /\ UNCHANGED chan
       \/ /\ ~crashed /\ Goes("fail") /\ Happens("refused") /\ UNCHANGED chan
    /\ UNCHANGED <<elemVars, rxVars, offVars, ind, fw, crashed, toldVars, oops>>

(* The command timed out; or its sender goes on with whatever roc_cfm holds. *)
WaitEnds ==
    /\ pc = "wait"
    /\ \/ Happens("timeout") /\ Goes("fail") /\ crashed' = TRUE
       \/ Happens("early") /\ (Goes("fail") \/ Goes("done")) /\ UNCHANGED crashed
    /\ UNCHANGED <<elemVars, rxVars, offVars, chan, ind, fw, toldVars, oops>>

(* cfg80211 gets its cookie. *)
RocDone ==
    /\ pc = "done"
    /\ ret' = IF mgmt THEN ret ELSE [ret EXCEPT ![cur] = cookie]
    /\ Goes(IF mgmt THEN "mark" ELSE "idle")
    /\ UNCHANGED <<elemVars, rxVars, offVars, busVars, oddVars, cookie, reports, oops>>

\* Mutant: the pointer to what is freed stays.
RocFailsKeeps ==
    /\ pc = "fail"
    /\ heap' = heap \ {cur} /\ Uses(cur, "fail")
    /\ OffchanDeinit
    /\ Goes("idle")
    /\ UNCHANGED <<elem, wdev, mgmt_roc, on_chan, rxVars, busVars, oddVars, toldVars>>

(* It failed: the element is taken back. *)
RocFails ==
    /\ pc = "fail"
    /\ elem' = None /\ heap' = heap \ {cur} /\ Uses(cur, "fail")
    /\ OffchanDeinit
    /\ Goes("idle")
    /\ UNCHANGED <<wdev, mgmt_roc, on_chan, rxVars, busVars, oddVars, toldVars>>

(* rwnx_cfg80211_cancel_remain_on_channel *)
Cancel(v) ==
    /\ pc = "idle" /\ v \in up /\ elem # None /\ ops < MaxOps
    /\ ops' = ops + 1 /\ vif' = v /\ UNCHANGED <<cur, mgmt, ptr, up>>
    /\ \/ /\ ~crashed /\ pc' = "cancel" /\ Usual
          /\ chan' = Append(chan, [op |-> "cancel"])
       \/ /\ ~crashed /\ Happens("refused") /\ UNCHANGED <<pc, chan>>
    /\ UNCHANGED <<elemVars, rxVars, offVars, ind, fw, crashed, toldVars, oops>>

(* The answer to the cancel, or to the removal of an interface, does not come. *)
AnswerLate ==
    /\ pc \in {"cancel", "remove"} /\ Goes(IF pc = "cancel" THEN "idle" ELSE "look")
    /\ \/ Happens("timeout") /\ crashed' = TRUE
       \/ Happens("early") /\ UNCHANGED crashed
    /\ UNCHANGED <<elemVars, rxVars, offVars, chan, ind, fw, toldVars, oops>>

(* rwnx_cfg80211_mgmt_tx finds the element, or asks for one of its own. *)
MgmtTx(v) ==
    /\ pc = "idle" /\ v \in up /\ ops < MaxOps
    /\ ops' = ops + 1 /\ vif' = v /\ mgmt' = TRUE /\ ptr' = elem
    /\ UNCHANGED <<cur, up>>
    /\ pc' = IF elem = None THEN "init" ELSE "use"
    /\ UNCHANGED <<elemVars, rxVars, offVars, busVars, oddVars, toldVars, oops>>

(* It compares channel and interface, through a pointer it may read again. *)
MgmtUse ==
    /\ pc = "use"
    /\ \E e \in {ptr, elem} :
          /\ Uses(e, "use")
          /\ \/ e # None /\ wdev[e] = vif /\ Goes("xmit")
             \/ Goes("idle")
    /\ UNCHANGED <<elemVars, rxVars, offVars, busVars, oddVars, toldVars>>

(* It marks the element as its own. *)
MgmtMark ==
    /\ pc = "mark"
    /\ Uses(elem, "mark")
    /\ mgmt_roc' = IF elem = None THEN mgmt_roc ELSE mgmt_roc \cup {elem}
    /\ Goes("xmit")
    /\ UNCHANGED <<elem, heap, wdev, on_chan, rxVars, offVars, busVars, oddVars,
                   toldVars>>

(* rwnx_start_mgmt_xmit looks at the queue without tx_lock, and allocates ... *)
XmitCheck ==
    /\ pc = "xmit"
    /\ (oidx /\ Goes("queue")) \/ Goes("idle")
    /\ UNCHANGED <<elemVars, rxVars, offVars, busVars, oddVars, toldVars, oops>>

(* ... and queues the frame under it: an open queue is processed at once. *)
XmitQueue ==
    /\ pc = "queue" /\ Goes("idle")
    /\ IF ostop THEN oframes' = oframes + 1 /\ UNCHANGED olisted
                ELSE oframes' = 0 /\ olisted' = FALSE
    /\ past' = IF oidx THEN past ELSE past \cup {"late"}
    /\ UNCHANGED <<elemVars, rxVars, oidx, ostop, busVars, odd, toldVars, oops>>

-----------------------------------------------------------------------------
(* The closing of an interface: rwnx_close.  Where a scan cannot be          *)
(* cancelled it does nothing more.                                           *)
Close(v) ==
    /\ pc = "idle" /\ v \in up /\ Happens("close")
    /\ up' = up \ {v} /\ vif' = v /\ UNCHANGED <<cur, mgmt, ptr, ops>>
    /\ \/ IF crashed THEN pc' = "look" /\ UNCHANGED chan
          ELSE pc' = "remove" /\ chan' = Append(chan, [op |-> "remove", vif |-> v])
       \/ pc' = "idle" /\ UNCHANGED chan
    /\ UNCHANGED <<elemVars, rxVars, offVars, ind, fw, crashed, toldVars, oops>>

CloseLook ==
    /\ pc = "look"
    /\ ptr' = elem /\ pc' = IF elem = None THEN "idle" ELSE "clear"
    /\ UNCHANGED <<elemVars, cur, vif, mgmt, ops, up, rxVars, offVars, busVars, oddVars,
                   toldVars, oops>>

\* Mutant: the element of a closed interface stays.
CloseClearNot ==
    /\ pc = "clear" /\ Goes("idle")
    /\ \E e \in {ptr, elem} : Uses(e, "clear")
    /\ UNCHANGED <<elemVars, rxVars, offVars, busVars, oddVars, toldVars>>

(* The element, read again, is dropped and not freed; the off-channel queue is *)
(* left as it is.                                                              *)
CloseClear ==
    /\ pc = "clear" /\ Goes("idle")
    /\ \E e \in {ptr, elem} :
          /\ Uses(e, "clear")
          /\ elem' = IF e # None /\ wdev[e] = vif THEN None ELSE elem
    /\ UNCHANGED <<heap, wdev, mgmt_roc, on_chan, rxVars, offVars, busVars, oddVars,
                   toldVars>>

Open(v) ==
    /\ v \notin up /\ pc \notin {"remove", "look", "clear"}
    /\ up' = up \cup {v}
    /\ UNCHANGED <<elemVars, pc, cur, vif, mgmt, ptr, ops, rxVars, offVars, busVars,
                   oddVars, toldVars, oops>>

-----------------------------------------------------------------------------
(* The receive thread *)

Receives(what) ==
    rxpc = "idle" /\ ind # <<>> /\ Head(ind).what = what /\ ind' = Tail(ind)

Tells(what) == reports' = Append(reports, [what |-> what, cookie |-> cookie])

(* The answer completes its command, if its sender still waits. *)
RxStartCfm ==
    /\ Receives("start_cfm")
    /\ IF pc = "wait" /\ cur = Head(ind).id
       THEN Goes(IF Head(ind).ok THEN "done" ELSE "fail")
       ELSE UNCHANGED cfgVars
    /\ UNCHANGED <<elemVars, rxVars, offVars, chan, fw, crashed, oddVars, toldVars,
                   oops>>

RxCancelCfm ==
    /\ Receives("cancel_cfm")
    /\ IF pc = "cancel" THEN Goes("idle") ELSE UNCHANGED cfgVars
    /\ UNCHANGED <<elemVars, rxVars, offVars, chan, fw, crashed, oddVars, toldVars,
                   oops>>

RxRemoveCfm ==
    /\ Receives("remove_cfm")
    /\ IF pc = "remove" THEN Goes("look") ELSE UNCHANGED cfgVars
    /\ UNCHANGED <<elemVars, rxVars, offVars, chan, fw, crashed, oddVars, toldVars,
                   oops>>

(* rwnx_rx_chan_switch_ind for a remain-on-channel: roc_elem is not tested. *)
RxSwitch ==
    /\ Receives("switch")
    /\ Uses(elem, "switch")
    /\ IF elem = None THEN UNCHANGED <<on_chan, reports, past>>
       ELSE /\ on_chan' = on_chan \cup {elem}
            /\ IF elem \in mgmt_roc THEN UNCHANGED reports ELSE Tells("ready")
            /\ past' = IF /\ mgmt /\ elem = cur /\ elem \notin mgmt_roc
                          /\ pc \in {"wait", "done", "fail", "mark"}
                       THEN past \cup {"unmarked"} ELSE past
    /\ OffchanStart
    /\ UNCHANGED <<elem, heap, wdev, mgmt_roc, cfgVars, rxVars, chan, fw, crashed,
                   odd, cookie, ret>>


\* Mutant: the next element has the cookie of the last one.
SameCookie == cookie

(* A counter of 32 bits that skips 0: MaxOps requests do not make it wrap. *)
NextCookie == cookie + 1

(* rwnx_rx_remain_on_channel_exp_ind, up to kfree: the element it works on is *)
(* the one it finds, its own channel or not.                                  *)
RxExp ==
    /\ Receives("exp")
    /\ IF elem = None
       THEN UNCHANGED <<rxVars, offVars, cookie, reports, oops>>
       ELSE /\ Uses(elem, "exp")
            /\ IF elem \notin mgmt_roc /\ elem \in on_chan THEN Tells("expired")
                                                        ELSE UNCHANGED reports
            /\ OffchanDeinit
            /\ cookie' = NextCookie
            /\ rxptr' = elem /\ rxpc' = "free"
    /\ UNCHANGED <<elemVars, cfgVars, chan, fw, crashed, oddVars, ret>>

RxFree ==
    /\ rxpc = "free" /\ rxpc' = "forget"
    /\ heap' = heap \ {rxptr} /\ Uses(rxptr, "free")
    /\ UNCHANGED <<elem, wdev, mgmt_roc, on_chan, cfgVars, rxptr, offVars, busVars,
                   oddVars, toldVars>>

RxForget ==
    /\ rxpc = "forget" /\ rxpc' = "idle" /\ rxptr' = None
    /\ elem' = None
    /\ UNCHANGED <<heap, wdev, mgmt_roc, on_chan, cfgVars, offVars, busVars, oddVars,
                   toldVars, oops>>

-----------------------------------------------------------------------------
(* The firmware: one channel at a time, commands in order *)

Sends(ms) == ind' = ind \o ms

Answers(op) == chan # <<>> /\ Head(chan).op = op /\ chan' = Tail(chan)

FwUntouched ==
    UNCHANGED <<elemVars, cfgVars, rxVars, offVars, crashed, toldVars, oops>>

Msg(what) == [what |-> what]

StartCfm(b) == [what |-> "start_cfm", id |-> Head(chan).id, ok |-> b]

FwStart ==
    /\ Answers("start")
    /\ \/ /\ fw = None /\ Sends(<<StartCfm(TRUE)>>)
          /\ fw' = [id |-> Head(chan).id, vif |-> Head(chan).vif, on |-> FALSE]
       \/ Sends(<<StartCfm(FALSE)>>) /\ UNCHANGED fw
    /\ Usual /\ FwUntouched

(* What it carries out ends, with the indication before or after the answer. *)
FwCancel ==
    /\ Answers("cancel")
    /\ IF fw = None THEN Sends(<<Msg("cancel_cfm")>>)
       ELSE \/ Sends(<<Msg("cancel_cfm"), Msg("exp")>>)
            \/ Sends(<<Msg("exp"), Msg("cancel_cfm")>>)
    /\ fw' = None
    /\ Usual /\ FwUntouched

(* What it carries out for a removed interface ends, with an indication or not. *)
FwRemove ==
    /\ Answers("remove")
    /\ \/ Sends(<<Msg("remove_cfm")>>)
       \/ /\ fw # None /\ fw.vif = Head(chan).vif
          /\ Sends(<<Msg("exp"), Msg("remove_cfm")>>)
    /\ fw' = IF fw # None /\ fw.vif = Head(chan).vif THEN None ELSE fw
    /\ Usual /\ FwUntouched

FwSwitch ==
    /\ fw # None /\ ~fw.on
    /\ fw' = [fw EXCEPT !.on = TRUE]
    /\ Sends(<<Msg("switch")>>)
    /\ UNCHANGED chan /\ Usual /\ FwUntouched

(* The time is over: 200 ms after the answer, its sender has usually gone on. *)
FwExpire ==
    /\ fw # None /\ fw.on
    /\ IF cur = fw.id /\ pc \in {"wait", "done", "mark"} THEN Happens("slow") ELSE Usual
    /\ fw' = None
    /\ Sends(<<Msg("exp")>>)
    /\ UNCHANGED chan /\ FwUntouched

-----------------------------------------------------------------------------
CfgStep ==
    \/ Recheck \/ RocInit \/ RocNoMem \/ Publish \/ SendRoc \/ RocDone \/ RocFails
    \/ MgmtUse \/ MgmtMark \/ XmitCheck \/ XmitQueue \/ CloseLook \/ CloseClear

RxStep ==
    \/ RxStartCfm \/ RxCancelCfm \/ RxRemoveCfm \/ RxSwitch \/ RxExp \/ RxFree
    \/ RxForget

FwStep == FwStart \/ FwCancel \/ FwRemove \/ FwSwitch \/ FwExpire

Next ==
    /\ oops = "no"
    /\ \/ \E v \in Vifs : Request(v) \/ Cancel(v) \/ MgmtTx(v) \/ Close(v) \/ Open(v)
       \/ WaitEnds \/ AnswerLate
       \/ CfgStep \/ RxStep \/ FwStep \/ OffchanTask

Spec == Init /\ [][Next]_vars

(* Every thread goes on, the firmware answers and ends what it carries out; *)
(* nothing has to be asked, to time out, or to go wrong.                    *)
FairSpec ==
    /\ Spec
    /\ WF_vars(oops = "no" /\ CfgStep)
    /\ WF_vars(oops = "no" /\ RxStep) /\ WF_vars(oops = "no" /\ FwStep)

-----------------------------------------------------------------------------
(* Which odd events must have happened before memory is used that is not  *)
(* there.  mgmt_tx needs none: the element it found may expire under it.  *)
Excuses ==
    [switch |-> {"timeout", "early"}, exp |-> {}, mark |-> {"early", "slow"},
     fail |-> {"timeout", "early"}, free |-> {"timeout", "early"}, clear |-> {"close"}]

(* The element: what roc_elem points to exists until the receive thread is   *)
(* about to forget it, nothing is leaked while no interface is closed, and   *)
(* the unlocked uses of the threads meet no freed element but where Excuses  *)
(* says.                                                                     *)
ElemSound ==
    /\ oops \in {"no", "use"} \/ Excuses[oops] \cap past # {}
    /\ \/ elem \in heap \cup {None} \/ rxpc = "forget"
       \/ past \cap {"timeout", "early"} # {}
    /\ \/ "close" \in past
       \/ heap \subseteq {elem, rxptr} \cup (IF pc = "publish" THEN {cur} ELSE {})

(* The off-channel queue is active only for an element, open only while the  *)
(* firmware is on its channel, listed only while it is open, and holds       *)
(* frames only while it is active; so the reset of a new request finds it    *)
(* unlinked and empty, as rwnx_txq_init needs it, which neither unlinks nor  *)
(* flushes.                                                                  *)
OffchanSound ==
    /\ oidx => elem # None \/ pc = "publish" \/ "close" \in past
    /\ oidx /\ ~ostop =>
          elem \in on_chan \/ past \cap {"timeout", "early", "close"} # {}
    /\ "late" \notin past => (oframes > 0 => oidx) /\ (olisted => oidx /\ ~ostop)
    /\ pc = "init" /\ past \cap {"late", "close"} = {} => oframes = 0 /\ ~olisted

(* No element is used after it is freed, leaked, or left behind by a request *)
(* that failed (rwnx_cfg80211_remain_on_channel, rwnx_rx_chan_switch_ind,    *)
(* rwnx_rx_remain_on_channel_exp_ind, rwnx_close), and the off-channel queue *)
(* follows the element, up to the events they name.                          *)
RocInv == TypeOK /\ ElemSound /\ OffchanSound

(* No two requests that return to cfg80211 get the same cookie. *)
ReturnsDiffer ==
    past \cap {"early", "slow", "close"} = {} =>
        \A i, j \in Ids : i # j /\ ret[i] = ret[j] => ret[i] = 0

(* What was reported n-th: expired comes after ready, and neither comes twice, *)
(* for what cfg80211 has asked for, or is about to be told it has.             *)
ReportSound(n) ==
    /\ reports[n].what = "expired" =>
          \E k \in 1..(n - 1) : reports[k] = [reports[n] EXCEPT !.what = "ready"]
    /\ past \cap {"early", "close"} = {} =>
          \A k \in 1..(n - 1) : reports[k] # reports[n]
    /\ past \cap {"timeout", "early", "slow", "unmarked"} = {} =>
          \/ \E i \in Ids : ret[i] = reports[n].cookie
          \/ pc = "done" /\ ~mgmt /\ cookie = reports[n].cookie

(* The counter cfg80211 is given as a cookie when its request returns, and   *)
(* again with each indication, stands for one request: no two requests get   *)
(* the same one, ready and expired each come at most once for it, expired    *)
(* after ready, and what is reported was asked for by cfg80211               *)
(* (rwnx_rx_chan_switch_ind, rwnx_rx_remain_on_channel_exp_ind).             *)
CookiesMatch ==
    ReturnsDiffer /\ \A n \in DOMAIN reports : ReportSound(n)

(* Every element goes away, so that another request is not refused for ever: *)
(* it expires, is cancelled, fails, or its interface is closed.  A sender    *)
(* that went on before the answer may have left one the firmware refused.    *)
RocEnds == elem # None ~> elem = None \/ oops # "no" \/ "early" \in past

=============================================================================
