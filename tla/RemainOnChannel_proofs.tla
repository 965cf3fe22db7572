------------------------ MODULE RemainOnChannel_proofs ------------------------
(***************************************************************************)
(* Theorems about RemainOnChannel, for any interfaces, operations and odd  *)
(* events.  The first part holds whatever happens: who may point to an     *)
(* element and which operation it is of.  The second, Protocol, is how the *)
(* driver and the firmware answer each other while every command is        *)
(* answered in time, which is what keeps the indications from meeting an   *)
(* element that is gone, though no lock does.  The third, Cookies,         *)
(* counts what cfg80211 was told under one cookie against what is still to *)
(* come.                                                                   *)
(***************************************************************************)
EXTENDS RemainOnChannel, SequenceTheorems, TLAPS

-----------------------------------------------------------------------------
(* The inductive invariant *)

\* TypeOK in parts: the element and its holders, the operation, the
\* off-channel queue, the odd events, the bus, and what cfg80211 was told.
ElemOK ==
    /\ elem \in Ids \cup {None} /\ heap \subseteq Ids
    /\ wdev \in [Ids -> Vifs \cup {None}]
    /\ mgmt_roc \subseteq Ids /\ on_chan \subseteq Ids /\ cookie \in Nat \ {0}
    /\ rxpc \in {"idle", "free", "forget"} /\ rxptr \in Ids \cup {None}

OpOK ==
    /\ pc \in {"idle", "recheck", "init", "publish", "send", "wait", "done", "fail",
               "cancel", "use", "mark", "xmit", "queue", "remove", "look", "clear"}
    /\ cur \in Ids \cup {None} /\ vif \in Vifs \cup {None} /\ mgmt \in BOOLEAN
    /\ ptr \in Ids \cup {None} /\ up \subseteq Vifs /\ ops \in 0..MaxOps
    /\ ret \in [Ids -> Nat]

QueueOK ==
    /\ oidx \in BOOLEAN /\ ostop \in BOOLEAN /\ oframes \in 0..MaxOps
    /\ olisted \in BOOLEAN /\ crashed \in BOOLEAN

OddOK ==
    /\ odd \in 0..MaxOdd
    /\ past \subseteq OddEvents \cup {"unmarked", "late"}
    /\ oops \in {"no", "switch", "exp", "use", "mark", "fail", "free", "clear"}

BusOK ==
    /\ chan \in Seq(Commands) /\ ind \in Seq(Messages)
    /\ fw \in [id : Ids, vif : Vifs, on : BOOLEAN] \cup {None}

ToldOK == reports \in Seq([what : {"ready", "expired"}, cookie : Nat])

PlainOK == ElemOK /\ OpOK /\ QueueOK /\ OddOK

\* What the operation is at says what it has in hand.
Handy ==
    /\ pc \in {"publish", "send", "wait", "done", "fail", "mark"} => cur # None
    /\ pc # "idle" => vif # None
    /\ pc # "idle" /\ pc \notin {"remove", "look", "clear"} => ops > 0
    /\ pc \in {"init", "publish"} => elem = None
    /\ pc = "publish" => cur \in heap /\ cur # rxptr
    /\ pc \in {"publish", "send", "wait"} => wdev[cur] = vif
    /\ pc \in {"send", "wait", "done", "fail", "mark"} => elem \in {cur, None}
    /\ pc = "clear" => elem \in {ptr, None}
    /\ pc \in {"remove", "look", "clear"} => "close" \in past
    /\ pc \in {"wait", "done", "mark"} => ~crashed
    /\ crashed <=> "timeout" \in past

\* An operation has the number of its element to itself; and each adds at most
\* one frame.
Fresh ==
    /\ \A i \in heap \cup {elem, rxptr, cur} : i # None => i <= ops
    /\ pc \in {"recheck", "init"} =>
         \A i \in heap \cup {elem, rxptr, cur} : i # None => i < ops
    /\ oframes <= ops
    /\ pc \notin {"idle", "remove", "look", "clear"} => oframes < ops

\* The receive thread between the end of an element and its oblivion.
Freeing ==
    /\ rxpc = "idle" <=> rxptr = None
    /\ rxpc = "forget" => rxptr \notin heap
    /\ elem \in heap \cup {None} \/ rxpc = "forget"
    /\ "close" \notin past =>
         /\ rxpc = "free" => (elem = rxptr /\ ~oidx) \/ rxptr \notin heap
         /\ rxpc = "forget" => elem = rxptr /\ ~oidx

\* No command has timed out, and no sender has gone on before the answer.
Prompt == past \cap {"timeout", "early"} = {}

Confirms == {"start_cfm", "cancel_cfm", "remove_cfm"}
Indicates == {"switch", "exp"}
Quiet == \A i \in 1..Len(ind) : ind[i].what \notin Indicates
Live == elem \in heap /\ rxpc = "idle"

\* One command is under way, or its answer, and the operation waits for it.
Calls ==
    /\ Len(chan) <= 1
    /\ chan # <<>> =>
         /\ chan[1].op = "start" => pc = "wait" /\ chan[1].id = cur /\ chan[1].vif = vif
         /\ chan[1].op = "cancel" => pc = "cancel"
         /\ chan[1].op = "remove" => pc = "remove" /\ chan[1].vif = vif
         /\ \A i \in 1..Len(ind) : ind[i].what \notin Confirms
    /\ \A i, j \in 1..Len(ind) :
         ind[i].what \in Confirms /\ ind[j].what \in Confirms => i = j
    /\ \A i \in 1..Len(ind) :
         /\ ind[i].what = "start_cfm" => pc = "wait" /\ ind[i].id = cur
         /\ ind[i].what = "cancel_cfm" => pc = "cancel"
         /\ ind[i].what = "remove_cfm" => pc = "remove"

\* What the firmware carries out is the element, and so is what it indicates:
\* once that it is on the channel, then once that it is over.
Tokens ==
    /\ fw # None =>
         /\ Live /\ elem = fw.id /\ fw.vif = wdev[elem]
         /\ \A i \in 1..Len(ind) : ind[i].what # "exp"
         /\ ~fw.on => Quiet
    /\ Quiet \/ Live
    /\ \A i, j \in 1..Len(ind) :
         i < j /\ ind[i].what \in Indicates /\ ind[j].what \in Indicates =>
             ind[i].what = "switch" /\ ind[j].what = "exp"

\* The firmware knows nothing of the element the operation is about.
Refusable == elem = cur /\ Live /\ fw = None /\ Quiet

\* How far a request, its answer, and the end of an element have come.
Course ==
    /\ pc \in {"send", "fail"} \/ (pc = "wait" /\ chan # <<>>) => Refusable
    /\ \A i \in 1..Len(ind) : ind[i].what = "start_cfm" /\ ~ind[i].ok => Refusable
    /\ rxpc # "idle" => elem = rxptr
    /\ rxpc = "free" => rxptr \in heap
    /\ "slow" \notin past =>
         /\ pc \in {"done", "mark"} => fw # None /\ fw.id = cur
         /\ \A i \in 1..Len(ind) :
              ind[i].what = "start_cfm" /\ ind[i].ok => fw # None /\ fw.id = cur

\* The firmware has ended what it did for an interface that is removed.
Ours == elem # None /\ wdev[elem] = vif
Closing ==
    /\ pc \in {"look", "clear"} /\ Ours => fw = None /\ Quiet /\ rxpc = "idle"
    /\ \A k \in 1..Len(ind) : ind[k].what = "remove_cfm" /\ Ours =>
         fw = None /\ \A i \in (k + 1)..Len(ind) : ind[i].what \notin Indicates

Protocol == Calls /\ Tokens /\ Course /\ Closing

RInv ==
    /\ RocInv /\ Fresh
    /\ oops = "no" => Handy /\ Freeing /\ (Prompt => Protocol)

-----------------------------------------------------------------------------
(* Sequences *)

\* The receive thread takes a message, the firmware sends one, or two.
Shrinks ==
    /\ Len(ind) >= 1 /\ Len(ind') = Len(ind) - 1 /\ Head(ind) = ind[1]
    /\ \A i \in 1..Len(ind') : i + 1 \in 1..Len(ind) /\ ind'[i] = ind[i + 1]
Grows(m) ==
    /\ Len(ind') = Len(ind) + 1 /\ ind'[Len(ind) + 1] = m
    /\ \A i \in 1..Len(ind) : ind'[i] = ind[i]
GrowsTwo(m, n) ==
    /\ Len(ind') = Len(ind) + 2
    /\ ind'[Len(ind) + 1] = m /\ ind'[Len(ind) + 2] = n
    /\ \A i \in 1..Len(ind) : ind'[i] = ind[i]

LEMMA TailSeq ==
    ASSUME NEW S, NEW s \in Seq(S), s # <<>>
    PROVE  /\ Len(s) \in Nat /\ Len(s) >= 1 /\ Head(s) = s[1]
           /\ Tail(s) \in Seq(S) /\ Len(Tail(s)) = Len(s) - 1
           /\ \A i \in 1..Len(Tail(s)) : i + 1 \in 1..Len(s) /\ Tail(s)[i] = s[i + 1]
OBVIOUS

LEMMA OneMore ==
    ASSUME NEW S, NEW s \in Seq(S), NEW m
    PROVE  /\ Len(s \o <<m>>) = Len(s) + 1 /\ (s \o <<m>>)[Len(s) + 1] = m
           /\ \A i \in 1..Len(s) : (s \o <<m>>)[i] = s[i]
OBVIOUS

LEMMA TwoMore ==
    ASSUME NEW S, NEW s \in Seq(S), NEW m, NEW n
    PROVE  /\ Len(s \o <<m, n>>) = Len(s) + 2
           /\ (s \o <<m, n>>)[Len(s) + 1] = m /\ (s \o <<m, n>>)[Len(s) + 2] = n
           /\ \A i \in 1..Len(s) : (s \o <<m, n>>)[i] = s[i]
OBVIOUS

LEMMA AnyLength ==
    ASSUME NEW S, NEW s \in Seq(S)
    PROVE  /\ Len(s) \in Nat /\ (s # <<>> => Len(s) >= 1 /\ Head(s) = s[1])
           /\ Len(s) = 0 => s = <<>>
BY EmptySeq

LEMMA GivenType ==
    ASSUME NEW S, NEW s \in Seq(S)
    PROVE  \A c \in S : Append(s, c) \in Seq(S)
OBVIOUS

LEMMA SentType ==
    ASSUME NEW S, NEW s \in Seq(S)
    PROVE  /\ \A m \in S : s \o <<m>> \in Seq(S)
           /\ \A m, n \in S : s \o <<m, n>> \in Seq(S)
OBVIOUS

LEMMA GivenSome == ASSUME NEW S, NEW s \in Seq(S), NEW c PROVE Append(s, c) # <<>>
<1>1. Len(Append(s, c)) = Len(s) + 1 /\ Len(s) \in Nat
  OBVIOUS
<1> QED BY <1>1, EmptySeq

LEMMA FirstOne == \A c : Append(<<>>, c) = <<c>>
OBVIOUS

LEMMA IndShrinks ==
    ASSUME BusOK, ind # <<>>, ind' = Tail(ind)
    PROVE  Shrinks
<1>1. ind \in Seq(Messages)
  BY DEF BusOK
<1> QED BY <1>1, TailSeq DEF Shrinks

LEMMA IndGrows ==
    ASSUME BusOK, NEW m, ind' = ind \o <<m>>
    PROVE  Grows(m)
<1>1. ind \in Seq(Messages)
  BY DEF BusOK
<1> QED BY <1>1, OneMore DEF Grows

LEMMA IndGrowsTwo ==
    ASSUME BusOK, NEW m, NEW n, ind' = ind \o <<m, n>>
    PROVE  GrowsTwo(m, n)
<1>1. ind \in Seq(Messages)
  BY DEF BusOK
<1> QED BY <1>1, TwoMore DEF GrowsTwo

LEMMA Lengths ==
    ASSUME BusOK
    PROVE  /\ Len(ind) \in Nat /\ Len(chan) \in Nat /\ chan # <<>> => Len(chan) >= 1
           /\ ind # <<>> => 1 \in 1..Len(ind) /\ Head(ind) = ind[1]
<1>1. ind \in Seq(Messages) /\ chan \in Seq(Commands)
  BY DEF BusOK
<1> QED BY <1>1, AnyLength

\* The only command under way is taken, or the first one is given.
LEMMA ChanTaken ==
    ASSUME BusOK, chan # <<>>, chan' = Tail(chan), Len(chan) <= 1
    PROVE  Head(chan) = chan[1] /\ chan' = <<>> /\ Len(chan') = 0
<1>1. chan \in Seq(Commands)
  BY DEF BusOK
<1>2. /\ Len(chan) \in Nat /\ Len(chan) >= 1 /\ Head(chan) = chan[1]
      /\ Tail(chan) \in Seq(Commands) /\ Len(Tail(chan)) = Len(chan) - 1
  BY <1>1, TailSeq
<1>3. Len(Tail(chan)) = 0
  BY <1>2
<1> QED BY <1>2, <1>3, AnyLength

LEMMA ChanGiven ==
    ASSUME chan = <<>>, NEW c, chan' = Append(chan, c)
    PROVE  chan' # <<>> /\ Len(chan') = 1 /\ chan'[1] = c
BY FirstOne

-----------------------------------------------------------------------------
(* Whatever happens: types, elements and operations *)

\* NULL is no interface and no element.
LEMMA NoneApart ==
    /\ None \notin Vifs /\ None \notin Nat
    /\ MaxOps \in Nat /\ MaxOdd \in Nat /\ Odd \subseteq OddEvents
BY RocAssumption

LEMMA NoneHeap == ASSUME ElemOK PROVE None \notin heap
<1>1. None \notin Ids
  BY NoneApart DEF Ids
<1> QED BY <1>1 DEF ElemOK

LEMMA ElemTypes ==
    ASSUME ElemOK, OpOK, Handy, oops = "no", Next PROVE ElemOK'
<1> USE NoneApart DEF ElemOK, OpOK, Handy, Ids
<1>1. ASSUME NEW v \in Vifs, Request(v) PROVE ElemOK'
  BY <1>1 DEF Request, elemVars, rxVars, offVars, busVars, oddVars, toldVars
<1>2. ASSUME NEW v \in Vifs, Cancel(v) PROVE ElemOK'
  BY <1>2 DEF Cancel, Happens, Usual, elemVars, rxVars, offVars, oddVars, toldVars
<1>3. ASSUME NEW v \in Vifs, MgmtTx(v) PROVE ElemOK'
  BY <1>3 DEF MgmtTx, elemVars, rxVars, offVars, busVars, oddVars, toldVars
<1>4. ASSUME NEW v \in Vifs, Close(v) PROVE ElemOK'
  BY <1>4 DEF Close, Happens, elemVars, rxVars, offVars, toldVars
<1>5. ASSUME NEW v \in Vifs, Open(v) PROVE ElemOK'
  BY <1>5 DEF Open, elemVars, rxVars, offVars, busVars, oddVars, toldVars
<1>6. CASE Recheck
  BY <1>6 DEF Recheck, Goes, elemVars, opVars, rxVars, offVars, busVars, oddVars,
      toldVars
<1>7. CASE RocInit
  BY <1>7 DEF RocInit, rxVars, busVars, oddVars, toldVars
<1>8. CASE RocNoMem
  BY <1>8 DEF RocNoMem, Happens, Goes, elemVars, opVars, rxVars, offVars, busVars,
      toldVars
<1>9. CASE Publish
  BY <1>9 DEF Publish, Goes, opVars, rxVars, offVars, busVars, oddVars, toldVars
<1>10. CASE SendRoc
  BY <1>10 DEF SendRoc, Happens, Usual, Goes, elemVars, opVars, rxVars, offVars,
      oddVars, toldVars
<1>11. CASE RocDone
  BY <1>11 DEF RocDone, Goes, elemVars, opVars, rxVars, offVars, busVars, oddVars
<1>12. CASE RocFails
  BY <1>12 DEF RocFails, Uses, OffchanDeinit, Goes, opVars, rxVars, busVars, oddVars,
      toldVars
<1>13. CASE MgmtUse
  BY <1>13 DEF MgmtUse, Uses, Goes, elemVars, opVars, rxVars, offVars, busVars,
      oddVars, toldVars
<1>14. CASE MgmtMark
  BY <1>14 DEF MgmtMark, Uses, Goes, opVars, rxVars, offVars, busVars, oddVars,
      toldVars
<1>15. CASE XmitCheck
  BY <1>15 DEF XmitCheck, Goes, elemVars, opVars, rxVars, offVars, busVars, oddVars,
      toldVars
<1>16. CASE XmitQueue
  BY <1>16 DEF XmitQueue, Goes, elemVars, opVars, rxVars, busVars, toldVars
<1>17. CASE CloseLook
  BY <1>17 DEF CloseLook, elemVars, rxVars, offVars, busVars, oddVars, toldVars
<1>18. CASE CloseClear
  BY <1>18 DEF CloseClear, Uses, Goes, opVars, rxVars, offVars, busVars, oddVars,
      toldVars
<1>19. CASE WaitEnds
  BY <1>19 DEF WaitEnds, Happens, Goes, elemVars, opVars, rxVars, offVars, toldVars
<1>20. CASE AnswerLate
  BY <1>20 DEF AnswerLate, Happens, Goes, elemVars, opVars, rxVars, offVars, toldVars
<1>21. CASE RxStartCfm
  BY <1>21 DEF RxStartCfm, Goes, Receives, elemVars, opVars, cfgVars, rxVars, offVars,
      oddVars, toldVars
<1>22. CASE RxCancelCfm
  BY <1>22 DEF RxCancelCfm, Goes, Receives, elemVars, opVars, cfgVars, rxVars, offVars,
      oddVars, toldVars
<1>23. CASE RxRemoveCfm
  BY <1>23 DEF RxRemoveCfm, Goes, Receives, elemVars, opVars, cfgVars, rxVars, offVars,
      oddVars, toldVars
<1>24. CASE RxSwitch
  BY <1>24 DEF RxSwitch, Uses, OffchanStart, Receives, Tells, opVars, cfgVars, rxVars
<1>25. CASE RxExp
  <2>1. cookie + 1 \in Nat \ {0}
    OBVIOUS
  <2>2. cookie' \in {cookie, cookie + 1} /\ rxptr' \in {rxptr, elem}
        /\ rxpc' \in {rxpc, "free"}
    BY <1>25 DEF RxExp, NextCookie, rxVars
  <2>3. UNCHANGED <<elem, heap, wdev, mgmt_roc, on_chan>>
    BY <1>25 DEF RxExp, elemVars
  <2> QED BY <2>1, <2>2, <2>3
<1>26. CASE RxFree
  BY <1>26 DEF RxFree, Uses, opVars, cfgVars, offVars, busVars, oddVars, toldVars
<1>27. CASE RxForget
  BY <1>27 DEF RxForget, opVars, cfgVars, offVars, busVars, oddVars, toldVars
<1>28. CASE FwStart
  BY <1>28 DEF FwStart, Usual, Sends, Answers, FwUntouched, StartCfm, elemVars, opVars,
      cfgVars, rxVars, offVars, oddVars, toldVars
<1>29. CASE FwCancel
  BY <1>29 DEF FwCancel, Usual, Sends, Answers, FwUntouched, Msg, elemVars, opVars,
      cfgVars, rxVars, offVars, oddVars, toldVars
<1>30. CASE FwRemove
  BY <1>30 DEF FwRemove, Usual, Sends, Answers, FwUntouched, Msg, elemVars, opVars,
      cfgVars, rxVars, offVars, oddVars, toldVars
<1>31. CASE FwSwitch
  BY <1>31 DEF FwSwitch, Usual, Sends, FwUntouched, Msg, elemVars, opVars, cfgVars,
      rxVars, offVars, oddVars, toldVars
<1>32. CASE FwExpire
  BY <1>32 DEF FwExpire, Happens, Usual, Sends, FwUntouched, Msg, elemVars, opVars,
      cfgVars, rxVars, offVars, oddVars, toldVars
<1>33. CASE OffchanTask
  BY <1>33 DEF OffchanTask, elemVars, opVars, cfgVars, rxVars, busVars, oddVars,
      toldVars
<1> QED BY <1>1, <1>2, <1>3, <1>4, <1>5, <1>6, <1>7, <1>8, <1>9, <1>10, <1>11, <1>12,
        <1>13, <1>14, <1>15, <1>16, <1>17, <1>18, <1>19, <1>20, <1>21, <1>22, <1>23, <1>24,
        <1>25, <1>26, <1>27, <1>28, <1>29, <1>30, <1>31, <1>32, <1>33 DEF Next, CfgStep,
        RxStep, FwStep

LEMMA OpTypes ==
    ASSUME ElemOK, OpOK, Handy, oops = "no", Next PROVE OpOK'
<1> USE NoneApart DEF ElemOK, OpOK, Handy, Ids
<1>1. ASSUME NEW v \in Vifs, Request(v) PROVE OpOK'
  <2>1. ops + 1 \in 0..MaxOps
    BY <1>1 DEF Request
  <2>2. pc' \in {"init", "recheck"} /\ ops' = ops + 1 /\ vif' = v /\ mgmt' = FALSE
        /\ UNCHANGED <<cur, ptr, up, ret>>
    BY <1>1 DEF Request, toldVars
  <2> QED BY <2>1, <2>2
<1>2. ASSUME NEW v \in Vifs, Cancel(v) PROVE OpOK'
  BY <1>2 DEF Cancel, Happens, Usual, elemVars, rxVars, offVars, oddVars, toldVars
<1>3. ASSUME NEW v \in Vifs, MgmtTx(v) PROVE OpOK'
  BY <1>3 DEF MgmtTx, elemVars, rxVars, offVars, busVars, oddVars, toldVars
<1>4. ASSUME NEW v \in Vifs, Close(v) PROVE OpOK'
  BY <1>4 DEF Close, Happens, elemVars, rxVars, offVars, toldVars
<1>5. ASSUME NEW v \in Vifs, Open(v) PROVE OpOK'
  BY <1>5 DEF Open, elemVars, rxVars, offVars, busVars, oddVars, toldVars
<1>6. CASE Recheck
  BY <1>6 DEF Recheck, Goes, elemVars, opVars, rxVars, offVars, busVars, oddVars,
      toldVars
<1>7. CASE RocInit
  BY <1>7 DEF RocInit, rxVars, busVars, oddVars, toldVars
<1>8. CASE RocNoMem
  BY <1>8 DEF RocNoMem, Happens, Goes, elemVars, opVars, rxVars, offVars, busVars,
      toldVars
<1>9. CASE Publish
  BY <1>9 DEF Publish, Goes, opVars, rxVars, offVars, busVars, oddVars, toldVars
<1>10. CASE SendRoc
  BY <1>10 DEF SendRoc, Happens, Usual, Goes, elemVars, opVars, rxVars, offVars,
      oddVars, toldVars
<1>11. CASE RocDone
  BY <1>11 DEF RocDone, Goes, elemVars, opVars, rxVars, offVars, busVars, oddVars
<1>12. CASE RocFails
  BY <1>12 DEF RocFails, Uses, OffchanDeinit, Goes, opVars, rxVars, busVars, oddVars,
      toldVars
<1>13. CASE MgmtUse
  BY <1>13 DEF MgmtUse, Uses, Goes, elemVars, opVars, rxVars, offVars, busVars,
      oddVars, toldVars
<1>14. CASE MgmtMark
  BY <1>14 DEF MgmtMark, Uses, Goes, opVars, rxVars, offVars, busVars, oddVars,
      toldVars
<1>15. CASE XmitCheck
  BY <1>15 DEF XmitCheck, Goes, elemVars, opVars, rxVars, offVars, busVars, oddVars,
      toldVars
<1>16. CASE XmitQueue
  BY <1>16 DEF XmitQueue, Goes, elemVars, opVars, rxVars, busVars, toldVars
<1>17. CASE CloseLook
  BY <1>17 DEF CloseLook, elemVars, rxVars, offVars, busVars, oddVars, toldVars
<1>18. CASE CloseClear
  BY <1>18 DEF CloseClear, Uses, Goes, opVars, rxVars, offVars, busVars, oddVars,
      toldVars
<1>19. CASE WaitEnds
  BY <1>19 DEF WaitEnds, Happens, Goes, elemVars, opVars, rxVars, offVars, toldVars
<1>20. CASE AnswerLate
  BY <1>20 DEF AnswerLate, Happens, Goes, elemVars, opVars, rxVars, offVars, toldVars
<1>21. CASE RxStartCfm
  BY <1>21 DEF RxStartCfm, Goes, Receives, elemVars, opVars, cfgVars, rxVars, offVars,
      oddVars, toldVars
<1>22. CASE RxCancelCfm
  BY <1>22 DEF RxCancelCfm, Goes, Receives, elemVars, opVars, cfgVars, rxVars, offVars,
      oddVars, toldVars
<1>23. CASE RxRemoveCfm
  BY <1>23 DEF RxRemoveCfm, Goes, Receives, elemVars, opVars, cfgVars, rxVars, offVars,
      oddVars, toldVars
<1>24. CASE RxSwitch
  BY <1>24 DEF RxSwitch, Uses, OffchanStart, Receives, Tells, opVars, cfgVars, rxVars
<1>25. CASE RxExp
  BY <1>25 DEF RxExp, Uses, OffchanDeinit, Receives, Tells, NextCookie, elemVars,
      opVars, cfgVars, rxVars, offVars, oddVars
<1>26. CASE RxFree
  BY <1>26 DEF RxFree, Uses, opVars, cfgVars, offVars, busVars, oddVars, toldVars
<1>27. CASE RxForget
  BY <1>27 DEF RxForget, opVars, cfgVars, offVars, busVars, oddVars, toldVars
<1>28. CASE FwStart
  BY <1>28 DEF FwStart, Usual, Sends, Answers, FwUntouched, StartCfm, elemVars, opVars,
      cfgVars, rxVars, offVars, oddVars, toldVars
<1>29. CASE FwCancel
  BY <1>29 DEF FwCancel, Usual, Sends, Answers, FwUntouched, Msg, elemVars, opVars,
      cfgVars, rxVars, offVars, oddVars, toldVars
<1>30. CASE FwRemove
  BY <1>30 DEF FwRemove, Usual, Sends, Answers, FwUntouched, Msg, elemVars, opVars,
      cfgVars, rxVars, offVars, oddVars, toldVars
<1>31. CASE FwSwitch
  BY <1>31 DEF FwSwitch, Usual, Sends, FwUntouched, Msg, elemVars, opVars, cfgVars,
      rxVars, offVars, oddVars, toldVars
<1>32. CASE FwExpire
  BY <1>32 DEF FwExpire, Happens, Usual, Sends, FwUntouched, Msg, elemVars, opVars,
      cfgVars, rxVars, offVars, oddVars, toldVars
<1>33. CASE OffchanTask
  BY <1>33 DEF OffchanTask, elemVars, opVars, cfgVars, rxVars, busVars, oddVars,
      toldVars
<1> QED BY <1>1, <1>2, <1>3, <1>4, <1>5, <1>6, <1>7, <1>8, <1>9, <1>10, <1>11, <1>12,
        <1>13, <1>14, <1>15, <1>16, <1>17, <1>18, <1>19, <1>20, <1>21, <1>22, <1>23, <1>24,
        <1>25, <1>26, <1>27, <1>28, <1>29, <1>30, <1>31, <1>32, <1>33 DEF Next, CfgStep,
        RxStep, FwStep

LEMMA QueueTypes ==
    ASSUME QueueOK, OpOK, Fresh, oops = "no", Next PROVE QueueOK'
<1> USE NoneApart DEF QueueOK, OpOK, Fresh
<1>0. 0 \in 0..MaxOps
  OBVIOUS
<1>1. ASSUME NEW v \in Vifs, Request(v) PROVE QueueOK'
  BY <1>1 DEF Request, elemVars, rxVars, offVars, busVars, oddVars, toldVars
<1>2. ASSUME NEW v \in Vifs, Cancel(v) PROVE QueueOK'
  BY <1>2 DEF Cancel, Happens, Usual, elemVars, rxVars, offVars, oddVars, toldVars
<1>3. ASSUME NEW v \in Vifs, MgmtTx(v) PROVE QueueOK'
  BY <1>3 DEF MgmtTx, elemVars, rxVars, offVars, busVars, oddVars, toldVars
<1>4. ASSUME NEW v \in Vifs, Close(v) PROVE QueueOK'
  BY <1>4 DEF Close, Happens, elemVars, rxVars, offVars, toldVars
<1>5. ASSUME NEW v \in Vifs, Open(v) PROVE QueueOK'
  BY <1>5 DEF Open, elemVars, rxVars, offVars, busVars, oddVars, toldVars
<1>6. CASE Recheck
  BY <1>6 DEF Recheck, Goes, elemVars, opVars, rxVars, offVars, busVars, oddVars,
      toldVars
<1>7. CASE RocInit
  BY <1>7, <1>0 DEF RocInit, rxVars, busVars, oddVars, toldVars
<1>8. CASE RocNoMem
  BY <1>8 DEF RocNoMem, Happens, Goes, elemVars, opVars, rxVars, offVars, busVars,
      toldVars
<1>9. CASE Publish
  BY <1>9 DEF Publish, Goes, opVars, rxVars, offVars, busVars, oddVars, toldVars
<1>10. CASE SendRoc
  BY <1>10 DEF SendRoc, Happens, Usual, Goes, elemVars, opVars, rxVars, offVars,
      oddVars, toldVars
<1>11. CASE RocDone
  BY <1>11 DEF RocDone, Goes, elemVars, opVars, rxVars, offVars, busVars, oddVars
<1>12. CASE RocFails
  BY <1>12, <1>0 DEF RocFails, Uses, OffchanDeinit, Goes, opVars, rxVars, busVars,
      oddVars, toldVars
<1>13. CASE MgmtUse
  BY <1>13 DEF MgmtUse, Uses, Goes, elemVars, opVars, rxVars, offVars, busVars,
      oddVars, toldVars
<1>14. CASE MgmtMark
  BY <1>14 DEF MgmtMark, Uses, Goes, opVars, rxVars, offVars, busVars, oddVars,
      toldVars
<1>15. CASE XmitCheck
  BY <1>15 DEF XmitCheck, Goes, elemVars, opVars, rxVars, offVars, busVars, oddVars,
      toldVars
<1>16. CASE XmitQueue
  <2>1. oframes + 1 \in 0..MaxOps
    BY <1>16 DEF XmitQueue
  <2> QED BY <1>16, <1>0, <2>1 DEF XmitQueue, Goes, elemVars, opVars, rxVars, busVars, toldVars
<1>17. CASE CloseLook
  BY <1>17 DEF CloseLook, elemVars, rxVars, offVars, busVars, oddVars, toldVars
<1>18. CASE CloseClear
  BY <1>18 DEF CloseClear, Uses, Goes, opVars, rxVars, offVars, busVars, oddVars,
      toldVars
<1>19. CASE WaitEnds
  BY <1>19 DEF WaitEnds, Happens, Goes, elemVars, opVars, rxVars, offVars, toldVars
<1>20. CASE AnswerLate
  BY <1>20 DEF AnswerLate, Happens, Goes, elemVars, opVars, rxVars, offVars, toldVars
<1>21. CASE RxStartCfm
  BY <1>21 DEF RxStartCfm, Goes, Receives, elemVars, opVars, cfgVars, rxVars, offVars,
      oddVars, toldVars
<1>22. CASE RxCancelCfm
  BY <1>22 DEF RxCancelCfm, Goes, Receives, elemVars, opVars, cfgVars, rxVars, offVars,
      oddVars, toldVars
<1>23. CASE RxRemoveCfm
  BY <1>23 DEF RxRemoveCfm, Goes, Receives, elemVars, opVars, cfgVars, rxVars, offVars,
      oddVars, toldVars
<1>24. CASE RxSwitch
  BY <1>24 DEF RxSwitch, Uses, OffchanStart, Receives, Tells, opVars, cfgVars, rxVars
<1>25. CASE RxExp
  BY <1>25, <1>0 DEF RxExp, Uses, OffchanDeinit, Receives, Tells, NextCookie, elemVars,
      opVars, cfgVars, rxVars, offVars, oddVars
<1>26. CASE RxFree
  BY <1>26 DEF RxFree, Uses, opVars, cfgVars, offVars, busVars, oddVars, toldVars
<1>27. CASE RxForget
  BY <1>27 DEF RxForget, opVars, cfgVars, offVars, busVars, oddVars, toldVars
<1>28. CASE FwStart
  BY <1>28 DEF FwStart, Usual, Sends, Answers, FwUntouched, StartCfm, elemVars, opVars,
      cfgVars, rxVars, offVars, oddVars, toldVars
<1>29. CASE FwCancel
  BY <1>29 DEF FwCancel, Usual, Sends, Answers, FwUntouched, Msg, elemVars, opVars,
      cfgVars, rxVars, offVars, oddVars, toldVars
<1>30. CASE FwRemove
  BY <1>30 DEF FwRemove, Usual, Sends, Answers, FwUntouched, Msg, elemVars, opVars,
      cfgVars, rxVars, offVars, oddVars, toldVars
<1>31. CASE FwSwitch
  BY <1>31 DEF FwSwitch, Usual, Sends, FwUntouched, Msg, elemVars, opVars, cfgVars,
      rxVars, offVars, oddVars, toldVars
<1>32. CASE FwExpire
  BY <1>32 DEF FwExpire, Happens, Usual, Sends, FwUntouched, Msg, elemVars, opVars,
      cfgVars, rxVars, offVars, oddVars, toldVars
<1>33. CASE OffchanTask
  BY <1>33, <1>0 DEF OffchanTask, elemVars, opVars, cfgVars, rxVars, busVars, oddVars,
      toldVars
<1> QED BY <1>1, <1>2, <1>3, <1>4, <1>5, <1>6, <1>7, <1>8, <1>9, <1>10, <1>11, <1>12,
        <1>13, <1>14, <1>15, <1>16, <1>17, <1>18, <1>19, <1>20, <1>21, <1>22, <1>23, <1>24,
        <1>25, <1>26, <1>27, <1>28, <1>29, <1>30, <1>31, <1>32, <1>33 DEF Next, CfgStep,
        RxStep, FwStep

LEMMA OddTypes ==
    ASSUME OddOK, oops = "no", Next PROVE OddOK'
<1> USE NoneApart DEF OddOK
<1>1. ASSUME NEW v \in Vifs, Request(v) PROVE OddOK'
  BY <1>1 DEF Request, elemVars, rxVars, offVars, busVars, oddVars, toldVars
<1>2. ASSUME NEW v \in Vifs, Cancel(v) PROVE OddOK'
  BY <1>2 DEF Cancel, Happens, Usual, elemVars, rxVars, offVars, oddVars, toldVars
<1>3. ASSUME NEW v \in Vifs, MgmtTx(v) PROVE OddOK'
  BY <1>3 DEF MgmtTx, elemVars, rxVars, offVars, busVars, oddVars, toldVars
<1>4. ASSUME NEW v \in Vifs, Close(v) PROVE OddOK'
  BY <1>4 DEF Close, Happens, elemVars, rxVars, offVars, toldVars
<1>5. ASSUME NEW v \in Vifs, Open(v) PROVE OddOK'
  BY <1>5 DEF Open, elemVars, rxVars, offVars, busVars, oddVars, toldVars
<1>6. CASE Recheck
  BY <1>6 DEF Recheck, Goes, elemVars, opVars, rxVars, offVars, busVars, oddVars,
      toldVars
<1>7. CASE RocInit
  BY <1>7 DEF RocInit, rxVars, busVars, oddVars, toldVars
<1>8. CASE RocNoMem
  BY <1>8 DEF RocNoMem, Happens, Goes, elemVars, opVars, rxVars, offVars, busVars,
      toldVars
<1>9. CASE Publish
  BY <1>9 DEF Publish, Goes, opVars, rxVars, offVars, busVars, oddVars, toldVars
<1>10. CASE SendRoc
  BY <1>10 DEF SendRoc, Happens, Usual, Goes, elemVars, opVars, rxVars, offVars,
      oddVars, toldVars
<1>11. CASE RocDone
  BY <1>11 DEF RocDone, Goes, elemVars, opVars, rxVars, offVars, busVars, oddVars
<1>12. CASE RocFails
  BY <1>12 DEF RocFails, Uses, OffchanDeinit, Goes, opVars, rxVars, busVars, oddVars,
      toldVars
<1>13. CASE MgmtUse
  BY <1>13 DEF MgmtUse, Uses, Goes, elemVars, opVars, rxVars, offVars, busVars,
      oddVars, toldVars
<1>14. CASE MgmtMark
  BY <1>14 DEF MgmtMark, Uses, Goes, opVars, rxVars, offVars, busVars, oddVars,
      toldVars
<1>15. CASE XmitCheck
  BY <1>15 DEF XmitCheck, Goes, elemVars, opVars, rxVars, offVars, busVars, oddVars,
      toldVars
<1>16. CASE XmitQueue
  BY <1>16 DEF XmitQueue, Goes, elemVars, opVars, rxVars, busVars, toldVars
<1>17. CASE CloseLook
  BY <1>17 DEF CloseLook, elemVars, rxVars, offVars, busVars, oddVars, toldVars
<1>18. CASE CloseClear
  BY <1>18 DEF CloseClear, Uses, Goes, opVars, rxVars, offVars, busVars, oddVars,
      toldVars
<1>19. CASE WaitEnds
  BY <1>19 DEF WaitEnds, Happens, Goes, elemVars, opVars, rxVars, offVars, toldVars
<1>20. CASE AnswerLate
  BY <1>20 DEF AnswerLate, Happens, Goes, elemVars, opVars, rxVars, offVars, toldVars
<1>21. CASE RxStartCfm
  BY <1>21 DEF RxStartCfm, Goes, Receives, elemVars, opVars, cfgVars, rxVars, offVars,
      oddVars, toldVars
<1>22. CASE RxCancelCfm
  BY <1>22 DEF RxCancelCfm, Goes, Receives, elemVars, opVars, cfgVars, rxVars, offVars,
      oddVars, toldVars
<1>23. CASE RxRemoveCfm
  BY <1>23 DEF RxRemoveCfm, Goes, Receives, elemVars, opVars, cfgVars, rxVars, offVars,
      oddVars, toldVars
<1>24. CASE RxSwitch
  BY <1>24 DEF RxSwitch, Uses, OffchanStart, Receives, Tells, opVars, cfgVars, rxVars
<1>25. CASE RxExp
  BY <1>25 DEF RxExp, Uses, OffchanDeinit, Receives, Tells, NextCookie, elemVars,
      opVars, cfgVars, rxVars, offVars, oddVars
<1>26. CASE RxFree
  BY <1>26 DEF RxFree, Uses, opVars, cfgVars, offVars, busVars, oddVars, toldVars
<1>27. CASE RxForget
  BY <1>27 DEF RxForget, opVars, cfgVars, offVars, busVars, oddVars, toldVars
<1>28. CASE FwStart
  BY <1>28 DEF FwStart, Usual, Sends, Answers, FwUntouched, StartCfm, elemVars, opVars,
      cfgVars, rxVars, offVars, oddVars, toldVars
<1>29. CASE FwCancel
  BY <1>29 DEF FwCancel, Usual, Sends, Answers, FwUntouched, Msg, elemVars, opVars,
      cfgVars, rxVars, offVars, oddVars, toldVars
<1>30. CASE FwRemove
  BY <1>30 DEF FwRemove, Usual, Sends, Answers, FwUntouched, Msg, elemVars, opVars,
      cfgVars, rxVars, offVars, oddVars, toldVars
<1>31. CASE FwSwitch
  BY <1>31 DEF FwSwitch, Usual, Sends, FwUntouched, Msg, elemVars, opVars, cfgVars,
      rxVars, offVars, oddVars, toldVars
<1>32. CASE FwExpire
  BY <1>32 DEF FwExpire, Happens, Usual, Sends, FwUntouched, Msg, elemVars, opVars,
      cfgVars, rxVars, offVars, oddVars, toldVars
<1>33. CASE OffchanTask
  BY <1>33 DEF OffchanTask, elemVars, opVars, cfgVars, rxVars, busVars, oddVars,
      toldVars
<1> QED BY <1>1, <1>2, <1>3, <1>4, <1>5, <1>6, <1>7, <1>8, <1>9, <1>10, <1>11, <1>12,
        <1>13, <1>14, <1>15, <1>16, <1>17, <1>18, <1>19, <1>20, <1>21, <1>22, <1>23, <1>24,
        <1>25, <1>26, <1>27, <1>28, <1>29, <1>30, <1>31, <1>32, <1>33 DEF Next, CfgStep,
        RxStep, FwStep

LEMMA FreshStep ==
    ASSUME PlainOK, Fresh, oops = "no", Next PROVE Fresh'
<1> USE NoneApart DEF PlainOK, ElemOK, OpOK, QueueOK, Fresh, Ids
<1>1. ASSUME NEW v \in Vifs, Request(v) PROVE Fresh'
  BY <1>1 DEF Request, elemVars, rxVars, offVars, busVars, oddVars, toldVars
<1>2. ASSUME NEW v \in Vifs, Cancel(v) PROVE Fresh'
  BY <1>2 DEF Cancel, Happens, Usual, elemVars, rxVars, offVars, oddVars, toldVars
<1>3. ASSUME NEW v \in Vifs, MgmtTx(v) PROVE Fresh'
  BY <1>3 DEF MgmtTx, elemVars, rxVars, offVars, busVars, oddVars, toldVars
<1>4. ASSUME NEW v \in Vifs, Close(v) PROVE Fresh'
  BY <1>4 DEF Close, Happens, elemVars, rxVars, offVars, toldVars
<1>5. ASSUME NEW v \in Vifs, Open(v) PROVE Fresh'
  BY <1>5 DEF Open, elemVars, rxVars, offVars, busVars, oddVars, toldVars
<1>6. CASE Recheck
  BY <1>6 DEF Recheck, Goes, elemVars, opVars, rxVars, offVars, busVars, oddVars,
      toldVars
<1>7. CASE RocInit
  BY <1>7 DEF RocInit, rxVars, busVars, oddVars, toldVars
<1>8. CASE RocNoMem
  BY <1>8 DEF RocNoMem, Happens, Goes, elemVars, opVars, rxVars, offVars, busVars,
      toldVars
<1>9. CASE Publish
  BY <1>9 DEF Publish, Goes, opVars, rxVars, offVars, busVars, oddVars, toldVars
<1>10. CASE SendRoc
  BY <1>10 DEF SendRoc, Happens, Usual, Goes, elemVars, opVars, rxVars, offVars,
      oddVars, toldVars
<1>11. CASE RocDone
  BY <1>11 DEF RocDone, Goes, elemVars, opVars, rxVars, offVars, busVars, oddVars
<1>12. CASE RocFails
  BY <1>12 DEF RocFails, Uses, OffchanDeinit, Goes, opVars, rxVars, busVars, oddVars,
      toldVars
<1>13. CASE MgmtUse
  BY <1>13 DEF MgmtUse, Uses, Goes, elemVars, opVars, rxVars, offVars, busVars,
      oddVars, toldVars
<1>14. CASE MgmtMark
  BY <1>14 DEF MgmtMark, Uses, Goes, opVars, rxVars, offVars, busVars, oddVars,
      toldVars
<1>15. CASE XmitCheck
  BY <1>15 DEF XmitCheck, Goes, elemVars, opVars, rxVars, offVars, busVars, oddVars,
      toldVars
<1>16. CASE XmitQueue
  BY <1>16 DEF XmitQueue, Goes, elemVars, opVars, rxVars, busVars, toldVars
<1>17. CASE CloseLook
  BY <1>17 DEF CloseLook, elemVars, rxVars, offVars, busVars, oddVars, toldVars
<1>18. CASE CloseClear
  BY <1>18 DEF CloseClear, Uses, Goes, opVars, rxVars, offVars, busVars, oddVars,
      toldVars
<1>19. CASE WaitEnds
  BY <1>19 DEF WaitEnds, Happens, Goes, elemVars, opVars, rxVars, offVars, toldVars
<1>20. CASE AnswerLate
  BY <1>20 DEF AnswerLate, Happens, Goes, elemVars, opVars, rxVars, offVars, toldVars
<1>21. CASE RxStartCfm
  BY <1>21 DEF RxStartCfm, Goes, Receives, elemVars, opVars, cfgVars, rxVars, offVars,
      oddVars, toldVars
<1>22. CASE RxCancelCfm
  BY <1>22 DEF RxCancelCfm, Goes, Receives, elemVars, opVars, cfgVars, rxVars, offVars,
      oddVars, toldVars
<1>23. CASE RxRemoveCfm
  BY <1>23 DEF RxRemoveCfm, Goes, Receives, elemVars, opVars, cfgVars, rxVars, offVars,
      oddVars, toldVars
<1>24. CASE RxSwitch
  BY <1>24 DEF RxSwitch, Uses, OffchanStart, Receives, Tells, opVars, cfgVars, rxVars
<1>25. CASE RxExp
  BY <1>25 DEF RxExp, Uses, OffchanDeinit, Receives, Tells, NextCookie, elemVars,
      opVars, cfgVars, rxVars, offVars, oddVars
<1>26. CASE RxFree
  BY <1>26 DEF RxFree, Uses, opVars, cfgVars, offVars, busVars, oddVars, toldVars
<1>27. CASE RxForget
  BY <1>27 DEF RxForget, opVars, cfgVars, offVars, busVars, oddVars, toldVars
<1>28. CASE FwStart
  BY <1>28 DEF FwStart, Usual, Sends, Answers, FwUntouched, StartCfm, elemVars, opVars,
      cfgVars, rxVars, offVars, oddVars, toldVars
<1>29. CASE FwCancel
  BY <1>29 DEF FwCancel, Usual, Sends, Answers, FwUntouched, Msg, elemVars, opVars,
      cfgVars, rxVars, offVars, oddVars, toldVars
<1>30. CASE FwRemove
  BY <1>30 DEF FwRemove, Usual, Sends, Answers, FwUntouched, Msg, elemVars, opVars,
      cfgVars, rxVars, offVars, oddVars, toldVars
<1>31. CASE FwSwitch
  BY <1>31 DEF FwSwitch, Usual, Sends, FwUntouched, Msg, elemVars, opVars, cfgVars,
      rxVars, offVars, oddVars, toldVars
<1>32. CASE FwExpire
  BY <1>32 DEF FwExpire, Happens, Usual, Sends, FwUntouched, Msg, elemVars, opVars,
      cfgVars, rxVars, offVars, oddVars, toldVars
<1>33. CASE OffchanTask
  BY <1>33 DEF OffchanTask, elemVars, opVars, cfgVars, rxVars, busVars, oddVars,
      toldVars
<1> QED BY <1>1, <1>2, <1>3, <1>4, <1>5, <1>6, <1>7, <1>8, <1>9, <1>10, <1>11, <1>12,
        <1>13, <1>14, <1>15, <1>16, <1>17, <1>18, <1>19, <1>20, <1>21, <1>22, <1>23, <1>24,
        <1>25, <1>26, <1>27, <1>28, <1>29, <1>30, <1>31, <1>32, <1>33 DEF Next, CfgStep,
        RxStep, FwStep

LEMMA HandyStep ==
    ASSUME PlainOK, Fresh, Handy, oops = "no", Next PROVE Handy'
<1> USE NoneApart DEF PlainOK, ElemOK, OpOK, QueueOK, Fresh, Handy, Ids
<1>1. ASSUME NEW v \in Vifs, Request(v) PROVE Handy'
  BY <1>1 DEF Request, elemVars, rxVars, offVars, busVars, oddVars, toldVars
<1>2. ASSUME NEW v \in Vifs, Cancel(v) PROVE Handy'
  BY <1>2 DEF Cancel, Happens, Usual, elemVars, rxVars, offVars, oddVars, toldVars
<1>3. ASSUME NEW v \in Vifs, MgmtTx(v) PROVE Handy'
  BY <1>3 DEF MgmtTx, elemVars, rxVars, offVars, busVars, oddVars, toldVars
<1>4. ASSUME NEW v \in Vifs, Close(v) PROVE Handy'
  BY <1>4 DEF Close, Happens, elemVars, rxVars, offVars, toldVars
<1>5. ASSUME NEW v \in Vifs, Open(v) PROVE Handy'
  BY <1>5 DEF Open, elemVars, rxVars, offVars, busVars, oddVars, toldVars
<1>6. CASE Recheck
  BY <1>6 DEF Recheck, Goes, elemVars, opVars, rxVars, offVars, busVars, oddVars,
      toldVars
<1>7. CASE RocInit
  BY <1>7 DEF RocInit, rxVars, busVars, oddVars, toldVars
<1>8. CASE RocNoMem
  BY <1>8 DEF RocNoMem, Happens, Goes, elemVars, opVars, rxVars, offVars, busVars,
      toldVars
<1>9. CASE Publish
  BY <1>9 DEF Publish, Goes, opVars, rxVars, offVars, busVars, oddVars, toldVars
<1>10. CASE SendRoc
  BY <1>10 DEF SendRoc, Happens, Usual, Goes, elemVars, opVars, rxVars, offVars,
      oddVars, toldVars
<1>11. CASE RocDone
  BY <1>11 DEF RocDone, Goes, elemVars, opVars, rxVars, offVars, busVars, oddVars
<1>12. CASE RocFails
  BY <1>12 DEF RocFails, Uses, OffchanDeinit, Goes, opVars, rxVars, busVars, oddVars,
      toldVars
<1>13. CASE MgmtUse
  BY <1>13 DEF MgmtUse, Uses, Goes, elemVars, opVars, rxVars, offVars, busVars,
      oddVars, toldVars
<1>14. CASE MgmtMark
  BY <1>14 DEF MgmtMark, Uses, Goes, opVars, rxVars, offVars, busVars, oddVars,
      toldVars
<1>15. CASE XmitCheck
  BY <1>15 DEF XmitCheck, Goes, elemVars, opVars, rxVars, offVars, busVars, oddVars,
      toldVars
<1>16. CASE XmitQueue
  BY <1>16 DEF XmitQueue, Goes, elemVars, opVars, rxVars, busVars, toldVars
<1>17. CASE CloseLook
  BY <1>17 DEF CloseLook, elemVars, rxVars, offVars, busVars, oddVars, toldVars
<1>18. CASE CloseClear
  BY <1>18 DEF CloseClear, Uses, Goes, opVars, rxVars, offVars, busVars, oddVars,
      toldVars
<1>19. CASE WaitEnds
  BY <1>19 DEF WaitEnds, Happens, Goes, elemVars, opVars, rxVars, offVars, toldVars
<1>20. CASE AnswerLate
  BY <1>20 DEF AnswerLate, Happens, Goes, elemVars, opVars, rxVars, offVars, toldVars
<1>21. CASE RxStartCfm
  BY <1>21 DEF RxStartCfm, Goes, Receives, elemVars, opVars, cfgVars, rxVars, offVars,
      oddVars, toldVars
<1>22. CASE RxCancelCfm
  BY <1>22 DEF RxCancelCfm, Goes, Receives, elemVars, opVars, cfgVars, rxVars, offVars,
      oddVars, toldVars
<1>23. CASE RxRemoveCfm
  BY <1>23 DEF RxRemoveCfm, Goes, Receives, elemVars, opVars, cfgVars, rxVars, offVars,
      oddVars, toldVars
<1>24. CASE RxSwitch
  BY <1>24 DEF RxSwitch, Uses, OffchanStart, Receives, Tells, opVars, cfgVars, rxVars
<1>25. CASE RxExp
  BY <1>25 DEF RxExp, Uses, OffchanDeinit, Receives, Tells, NextCookie, elemVars,
      opVars, cfgVars, rxVars, offVars, oddVars
<1>26. CASE RxFree
  BY <1>26 DEF RxFree, Uses, opVars, cfgVars, offVars, busVars, oddVars, toldVars
<1>27. CASE RxForget
  BY <1>27 DEF RxForget, opVars, cfgVars, offVars, busVars, oddVars, toldVars
<1>28. CASE FwStart
  BY <1>28 DEF FwStart, Usual, Sends, Answers, FwUntouched, StartCfm, elemVars, opVars,
      cfgVars, rxVars, offVars, oddVars, toldVars
<1>29. CASE FwCancel
  BY <1>29 DEF FwCancel, Usual, Sends, Answers, FwUntouched, Msg, elemVars, opVars,
      cfgVars, rxVars, offVars, oddVars, toldVars
<1>30. CASE FwRemove
  BY <1>30 DEF FwRemove, Usual, Sends, Answers, FwUntouched, Msg, elemVars, opVars,
      cfgVars, rxVars, offVars, oddVars, toldVars
<1>31. CASE FwSwitch
  BY <1>31 DEF FwSwitch, Usual, Sends, FwUntouched, Msg, elemVars, opVars, cfgVars,
      rxVars, offVars, oddVars, toldVars
<1>32. CASE FwExpire
  BY <1>32 DEF FwExpire, Happens, Usual, Sends, FwUntouched, Msg, elemVars, opVars,
      cfgVars, rxVars, offVars, oddVars, toldVars
<1>33. CASE OffchanTask
  BY <1>33 DEF OffchanTask, elemVars, opVars, cfgVars, rxVars, busVars, oddVars,
      toldVars
<1> QED BY <1>1, <1>2, <1>3, <1>4, <1>5, <1>6, <1>7, <1>8, <1>9, <1>10, <1>11, <1>12,
        <1>13, <1>14, <1>15, <1>16, <1>17, <1>18, <1>19, <1>20, <1>21, <1>22, <1>23, <1>24,
        <1>25, <1>26, <1>27, <1>28, <1>29, <1>30, <1>31, <1>32, <1>33 DEF Next, CfgStep,
        RxStep, FwStep

LEMMA FreeingStep ==
    ASSUME PlainOK, Fresh, Handy, Freeing, oops = "no", oops' = "no", Next PROVE Freeing'
<1> USE NoneApart DEF PlainOK, ElemOK, OpOK, QueueOK, Fresh, Handy, Freeing, Ids
<1>1. ASSUME NEW v \in Vifs, Request(v) PROVE Freeing'
  BY <1>1 DEF Request, elemVars, rxVars, offVars, busVars, oddVars, toldVars
<1>2. ASSUME NEW v \in Vifs, Cancel(v) PROVE Freeing'
  BY <1>2 DEF Cancel, Happens, Usual, elemVars, rxVars, offVars, oddVars, toldVars
<1>3. ASSUME NEW v \in Vifs, MgmtTx(v) PROVE Freeing'
  BY <1>3 DEF MgmtTx, elemVars, rxVars, offVars, busVars, oddVars, toldVars
<1>4. ASSUME NEW v \in Vifs, Close(v) PROVE Freeing'
  BY <1>4 DEF Close, Happens, elemVars, rxVars, offVars, toldVars
<1>5. ASSUME NEW v \in Vifs, Open(v) PROVE Freeing'
  BY <1>5 DEF Open, elemVars, rxVars, offVars, busVars, oddVars, toldVars
<1>6. CASE Recheck
  BY <1>6 DEF Recheck, Goes, elemVars, opVars, rxVars, offVars, busVars, oddVars,
      toldVars
<1>7. CASE RocInit
  BY <1>7 DEF RocInit, rxVars, busVars, oddVars, toldVars
<1>8. CASE RocNoMem
  BY <1>8 DEF RocNoMem, Happens, Goes, elemVars, opVars, rxVars, offVars, busVars,
      toldVars
<1>9. CASE Publish
  BY <1>9 DEF Publish, Goes, opVars, rxVars, offVars, busVars, oddVars, toldVars
<1>10. CASE SendRoc
  BY <1>10 DEF SendRoc, Happens, Usual, Goes, elemVars, opVars, rxVars, offVars,
      oddVars, toldVars
<1>11. CASE RocDone
  BY <1>11 DEF RocDone, Goes, elemVars, opVars, rxVars, offVars, busVars, oddVars
<1>12. CASE RocFails
  BY <1>12 DEF RocFails, Uses, OffchanDeinit, Goes, opVars, rxVars, busVars, oddVars,
      toldVars
<1>13. CASE MgmtUse
  BY <1>13 DEF MgmtUse, Uses, Goes, elemVars, opVars, rxVars, offVars, busVars,
      oddVars, toldVars
<1>14. CASE MgmtMark
  BY <1>14 DEF MgmtMark, Uses, Goes, opVars, rxVars, offVars, busVars, oddVars,
      toldVars
<1>15. CASE XmitCheck
  BY <1>15 DEF XmitCheck, Goes, elemVars, opVars, rxVars, offVars, busVars, oddVars,
      toldVars
<1>16. CASE XmitQueue
  BY <1>16 DEF XmitQueue, Goes, elemVars, opVars, rxVars, busVars, toldVars
<1>17. CASE CloseLook
  BY <1>17 DEF CloseLook, elemVars, rxVars, offVars, busVars, oddVars, toldVars
<1>18. CASE CloseClear
  BY <1>18 DEF CloseClear, Uses, Goes, opVars, rxVars, offVars, busVars, oddVars,
      toldVars
<1>19. CASE WaitEnds
  BY <1>19 DEF WaitEnds, Happens, Goes, elemVars, opVars, rxVars, offVars, toldVars
<1>20. CASE AnswerLate
  BY <1>20 DEF AnswerLate, Happens, Goes, elemVars, opVars, rxVars, offVars, toldVars
<1>21. CASE RxStartCfm
  BY <1>21 DEF RxStartCfm, Goes, Receives, elemVars, opVars, cfgVars, rxVars, offVars,
      oddVars, toldVars
<1>22. CASE RxCancelCfm
  BY <1>22 DEF RxCancelCfm, Goes, Receives, elemVars, opVars, cfgVars, rxVars, offVars,
      oddVars, toldVars
<1>23. CASE RxRemoveCfm
  BY <1>23 DEF RxRemoveCfm, Goes, Receives, elemVars, opVars, cfgVars, rxVars, offVars,
      oddVars, toldVars
<1>24. CASE RxSwitch
  BY <1>24 DEF RxSwitch, Uses, OffchanStart, Receives, Tells, opVars, cfgVars, rxVars
<1>25. CASE RxExp
  BY <1>25 DEF RxExp, Uses, OffchanDeinit, Receives, Tells, NextCookie, elemVars,
      opVars, cfgVars, rxVars, offVars, oddVars
<1>26. CASE RxFree
  BY <1>26 DEF RxFree, Uses, opVars, cfgVars, offVars, busVars, oddVars, toldVars
<1>27. CASE RxForget
  BY <1>27 DEF RxForget, opVars, cfgVars, offVars, busVars, oddVars, toldVars
<1>28. CASE FwStart
  BY <1>28 DEF FwStart, Usual, Sends, Answers, FwUntouched, StartCfm, elemVars, opVars,
      cfgVars, rxVars, offVars, oddVars, toldVars
<1>29. CASE FwCancel
  BY <1>29 DEF FwCancel, Usual, Sends, Answers, FwUntouched, Msg, elemVars, opVars,
      cfgVars, rxVars, offVars, oddVars, toldVars
<1>30. CASE FwRemove
  BY <1>30 DEF FwRemove, Usual, Sends, Answers, FwUntouched, Msg, elemVars, opVars,
      cfgVars, rxVars, offVars, oddVars, toldVars
<1>31. CASE FwSwitch
  BY <1>31 DEF FwSwitch, Usual, Sends, FwUntouched, Msg, elemVars, opVars, cfgVars,
      rxVars, offVars, oddVars, toldVars
<1>32. CASE FwExpire
  BY <1>32 DEF FwExpire, Happens, Usual, Sends, FwUntouched, Msg, elemVars, opVars,
      cfgVars, rxVars, offVars, oddVars, toldVars
<1>33. CASE OffchanTask
  BY <1>33 DEF OffchanTask, elemVars, opVars, cfgVars, rxVars, busVars, oddVars,
      toldVars
<1> QED BY <1>1, <1>2, <1>3, <1>4, <1>5, <1>6, <1>7, <1>8, <1>9, <1>10, <1>11, <1>12,
        <1>13, <1>14, <1>15, <1>16, <1>17, <1>18, <1>19, <1>20, <1>21, <1>22, <1>23, <1>24,
        <1>25, <1>26, <1>27, <1>28, <1>29, <1>30, <1>31, <1>32, <1>33 DEF Next, CfgStep,
        RxStep, FwStep

-----------------------------------------------------------------------------
(* The messages and the commands have their types *)

LEMMA BusTypes ==
    ASSUME BusOK, PlainOK, Handy, oops = "no", Next PROVE BusOK'
<1>0. /\ chan # <<>> => Head(chan) \in Commands /\ Tail(chan) \in Seq(Commands)
      /\ ind # <<>> => Tail(ind) \in Seq(Messages)
  BY HeadTailProperties DEF BusOK
<1>a. /\ \A c \in Commands : Append(chan, c) \in Seq(Commands)
      /\ \A m \in Messages : ind \o <<m>> \in Seq(Messages)
      /\ \A m, n \in Messages : ind \o <<m, n>> \in Seq(Messages)
  <2>1. chan \in Seq(Commands) /\ ind \in Seq(Messages)
    BY DEF BusOK
  <2> QED BY <2>1, GivenType, SentType
<1>b. /\ [op |-> "cancel"] \in Commands
      /\ \A x \in {"cancel_cfm", "remove_cfm", "switch", "exp"} : Msg(x) \in Messages
      /\ \A i \in Ids, v \in Vifs : [op |-> "start", id |-> i, vif |-> v] \in Commands
      /\ \A v \in Vifs : [op |-> "remove", vif |-> v] \in Commands
      /\ \A i \in Ids, b \in BOOLEAN :
            [what |-> "start_cfm", id |-> i, ok |-> b] \in Messages
  BY DEF Commands, Messages, Msg
<1>c. /\ chan \in Seq(Commands) /\ ind \in Seq(Messages)
      /\ fw \in [id : Ids, vif : Vifs, on : BOOLEAN] \cup {None}
  BY DEF BusOK
<1> USE DEF BusOK
<1>1. ASSUME NEW v \in Vifs, Request(v) PROVE BusOK'
  BY <1>1, <1>0, <1>c DEF Request, elemVars, rxVars, offVars, busVars, oddVars,
      toldVars
<1>2. ASSUME NEW v \in Vifs, Cancel(v) PROVE BusOK'
  <2>1. UNCHANGED <<ind, fw>> /\ (chan' = chan \/ chan' = Append(chan, [op |-> "cancel"]))
    BY <1>2 DEF Cancel
  <2> QED BY <1>a, <1>b, <1>c, <2>1
<1>3. ASSUME NEW v \in Vifs, MgmtTx(v) PROVE BusOK'
  BY <1>3, <1>0, <1>c DEF MgmtTx, elemVars, rxVars, offVars, busVars, oddVars, toldVars
<1>4. ASSUME NEW v \in Vifs, Close(v) PROVE BusOK'
  <2>1. UNCHANGED <<ind, fw>>
        /\ (chan' = chan \/ chan' = Append(chan, [op |-> "remove", vif |-> v]))
    BY <1>4 DEF Close
  <2> QED BY <1>a, <1>b, <1>c, <2>1
<1>5. ASSUME NEW v \in Vifs, Open(v) PROVE BusOK'
  BY <1>5, <1>0, <1>c DEF Open, elemVars, rxVars, offVars, busVars, oddVars, toldVars
<1>6. CASE Recheck
  BY <1>6, <1>0, <1>c DEF Recheck, Goes, elemVars, opVars, rxVars, offVars, busVars,
      oddVars, toldVars
<1>7. CASE RocInit
  BY <1>7, <1>0, <1>c DEF RocInit, rxVars, busVars, oddVars, toldVars
<1>8. CASE RocNoMem
  BY <1>8, <1>0, <1>c DEF RocNoMem, Happens, Goes, elemVars, opVars, rxVars, offVars,
      busVars, toldVars
<1>9. CASE Publish
  BY <1>9, <1>0, <1>c DEF Publish, Goes, opVars, rxVars, offVars, busVars, oddVars,
      toldVars
<1>10. CASE SendRoc
  <2>1. /\ UNCHANGED <<ind, fw>>
        /\ chan' = chan \/ chan' = Append(chan, [op |-> "start", id |-> cur, vif |-> vif])
    BY <1>10 DEF SendRoc
  <2>2. cur \in Ids /\ vif \in Vifs
    BY <1>10 DEF SendRoc, Handy, PlainOK, OpOK
  <2>3. [op |-> "start", id |-> cur, vif |-> vif] \in Commands
    BY <1>b, <2>2
  <2> QED BY <1>a, <1>c, <2>1, <2>3
<1>11. CASE RocDone
  BY <1>11, <1>0, <1>c DEF RocDone, Goes, elemVars, opVars, rxVars, offVars, busVars,
      oddVars
<1>12. CASE RocFails
  BY <1>12, <1>0, <1>c DEF RocFails, Uses, OffchanDeinit, Goes, opVars, rxVars,
      busVars, oddVars, toldVars
<1>13. CASE MgmtUse
  BY <1>13, <1>0, <1>c DEF MgmtUse, Uses, Goes, elemVars, opVars, rxVars, offVars,
      busVars, oddVars, toldVars
<1>14. CASE MgmtMark
  BY <1>14, <1>0, <1>c DEF MgmtMark, Uses, Goes, opVars, rxVars, offVars, busVars,
      oddVars, toldVars
<1>15. CASE XmitCheck
  BY <1>15, <1>0, <1>c DEF XmitCheck, Goes, elemVars, opVars, rxVars, offVars, busVars,
      oddVars, toldVars
<1>16. CASE XmitQueue
  BY <1>16, <1>0, <1>c DEF XmitQueue, Goes, elemVars, opVars, rxVars, busVars, toldVars
<1>17. CASE CloseLook
  BY <1>17, <1>0, <1>c DEF CloseLook, elemVars, rxVars, offVars, busVars, oddVars,
      toldVars
<1>18. CASE CloseClear
  BY <1>18, <1>0, <1>c DEF CloseClear, Uses, Goes, opVars, rxVars, offVars, busVars,
      oddVars, toldVars
<1>19. CASE WaitEnds
  BY <1>19, <1>0, <1>c DEF WaitEnds, Happens, Goes, elemVars, opVars, rxVars, offVars,
      toldVars
<1>20. CASE AnswerLate
  BY <1>20, <1>0, <1>c DEF AnswerLate, Happens, Goes, elemVars, opVars, rxVars,
      offVars, toldVars
<1>21. CASE RxStartCfm
  BY <1>21, <1>0, <1>c DEF RxStartCfm, Goes, Receives, elemVars, opVars, cfgVars,
      rxVars, offVars, oddVars, toldVars
<1>22. CASE RxCancelCfm
  BY <1>22, <1>0, <1>c DEF RxCancelCfm, Goes, Receives, elemVars, opVars, cfgVars,
      rxVars, offVars, oddVars, toldVars
<1>23. CASE RxRemoveCfm
  BY <1>23, <1>0, <1>c DEF RxRemoveCfm, Goes, Receives, elemVars, opVars, cfgVars,
      rxVars, offVars, oddVars, toldVars
<1>24. CASE RxSwitch
  BY <1>24, <1>0, <1>c DEF RxSwitch, Uses, OffchanStart, Receives, Tells, opVars,
      cfgVars, rxVars
<1>25. CASE RxExp
  BY <1>25, <1>0, <1>c DEF RxExp, Uses, OffchanDeinit, Receives, Tells, NextCookie,
      elemVars, opVars, cfgVars, rxVars, offVars, oddVars
<1>26. CASE RxFree
  BY <1>26, <1>0, <1>c DEF RxFree, Uses, opVars, cfgVars, offVars, busVars, oddVars,
      toldVars
<1>27. CASE RxForget
  BY <1>27, <1>0, <1>c DEF RxForget, opVars, cfgVars, offVars, busVars, oddVars,
      toldVars
<1>28. CASE FwStart
  <2> DEFINE c == Head(chan)
  <2>1. c \in Commands /\ c.op = "start" /\ chan' = Tail(chan) /\ chan # <<>>
    BY <1>28, <1>0 DEF FwStart, Answers
  <2>2. c.id \in Ids /\ c.vif \in Vifs
    BY <2>1 DEF Commands
  <2>3. PICK b \in BOOLEAN : ind' = ind \o <<[what |-> "start_cfm", id |-> c.id, ok |-> b]>>
    BY <1>28 DEF FwStart, Sends, StartCfm
  <2>4. fw' = fw \/ fw' = [id |-> c.id, vif |-> c.vif, on |-> FALSE]
    BY <1>28 DEF FwStart
  <2> HIDE DEF c
  <2>5. ind' \in Seq(Messages)
    BY <1>a, <1>b, <2>2, <2>3
  <2>6. [id |-> c.id, vif |-> c.vif, on |-> FALSE] \in [id : Ids, vif : Vifs, on : BOOLEAN]
    BY <2>2
  <2>7. fw' \in [id : Ids, vif : Vifs, on : BOOLEAN] \cup {None}
    BY <1>c, <2>4, <2>6
  <2> QED BY <1>0, <2>1, <2>5, <2>7
<1>29. CASE FwCancel
  <2>1. chan' = Tail(chan) /\ chan # <<>> /\ fw' = None
    BY <1>29 DEF FwCancel, Answers
  <2>2. \/ ind' = ind \o <<Msg("cancel_cfm")>>
        \/ ind' = ind \o <<Msg("cancel_cfm"), Msg("exp")>>
        \/ ind' = ind \o <<Msg("exp"), Msg("cancel_cfm")>>
    BY <1>29 DEF FwCancel, Sends
  <2>3. Msg("cancel_cfm") \in Messages /\ Msg("exp") \in Messages
    BY <1>b
  <2>4. ind' \in Seq(Messages)
    BY <1>a, <2>2, <2>3
  <2> QED BY <1>0, <2>1, <2>4
<1>30. CASE FwRemove
  <2>1. chan' = Tail(chan) /\ chan # <<>> /\ fw' \in {None, fw}
    BY <1>30 DEF FwRemove, Answers
  <2>2. \/ ind' = ind \o <<Msg("remove_cfm")>>
        \/ ind' = ind \o <<Msg("exp"), Msg("remove_cfm")>>
    BY <1>30 DEF FwRemove, Sends
  <2>3. Msg("remove_cfm") \in Messages /\ Msg("exp") \in Messages
    BY <1>b
  <2>4. ind' \in Seq(Messages)
    BY <1>a, <2>2, <2>3
  <2> QED BY <1>0, <1>c, <2>1, <2>4
<1>31. CASE FwSwitch
  <2>1. chan' = chan /\ fw # None /\ fw' = [fw EXCEPT !.on = TRUE]
    BY <1>31 DEF FwSwitch
  <2>2. ind' = ind \o <<Msg("switch")>>
    BY <1>31 DEF FwSwitch, Sends
  <2>3. ind' \in Seq(Messages)
    BY <1>a, <1>b, <2>2
  <2>4. fw' \in [id : Ids, vif : Vifs, on : BOOLEAN]
    BY <1>c, <2>1
  <2> QED BY <1>c, <2>1, <2>3, <2>4
<1>32. CASE FwExpire
  <2>1. chan' = chan /\ fw' = None /\ ind' = ind \o <<Msg("exp")>>
    BY <1>32 DEF FwExpire, Sends
  <2>2. ind' \in Seq(Messages)
    BY <1>a, <1>b, <2>1
  <2> QED BY <1>c, <2>1, <2>2
<1>33. CASE OffchanTask
  BY <1>33, <1>0, <1>c DEF OffchanTask, elemVars, opVars, cfgVars, rxVars, busVars,
      oddVars, toldVars
<1> QED BY <1>1, <1>2, <1>3, <1>4, <1>5, <1>6, <1>7, <1>8, <1>9, <1>10, <1>11, <1>12,
        <1>13, <1>14, <1>15, <1>16, <1>17, <1>18, <1>19, <1>20, <1>21, <1>22, <1>23, <1>24,
        <1>25, <1>26, <1>27, <1>28, <1>29, <1>30, <1>31, <1>32, <1>33 DEF Next, CfgStep,
        RxStep, FwStep

\* cfg80211 is told by two handlers of the receive thread.
LEMMA OnlyTold ==
    ASSUME Next
    PROVE  (\E x \in {"ready", "expired"} : Tells(x)) \/ reports' = reports
<1> DEFINE Told == (\E x \in {"ready", "expired"} : Tells(x)) \/ reports' = reports
<1>1. ASSUME NEW v \in Vifs, Request(v) PROVE Told
  BY <1>1 DEF Request, elemVars, rxVars, offVars, busVars, oddVars, toldVars
<1>2. ASSUME NEW v \in Vifs, Cancel(v) PROVE Told
  BY <1>2 DEF Cancel, Happens, Usual, elemVars, rxVars, offVars, oddVars, toldVars
<1>3. ASSUME NEW v \in Vifs, MgmtTx(v) PROVE Told
  BY <1>3 DEF MgmtTx, elemVars, rxVars, offVars, busVars, oddVars, toldVars
<1>4. ASSUME NEW v \in Vifs, Close(v) PROVE Told
  BY <1>4 DEF Close, Happens, elemVars, rxVars, offVars, toldVars
<1>5. ASSUME NEW v \in Vifs, Open(v) PROVE Told
  BY <1>5 DEF Open, elemVars, rxVars, offVars, busVars, oddVars, toldVars
<1>6. CASE Recheck
  BY <1>6 DEF Recheck, Goes, elemVars, opVars, rxVars, offVars, busVars, oddVars,
      toldVars
<1>7. CASE RocInit
  BY <1>7 DEF RocInit, rxVars, busVars, oddVars, toldVars
<1>8. CASE RocNoMem
  BY <1>8 DEF RocNoMem, Happens, Goes, elemVars, opVars, rxVars, offVars, busVars,
      toldVars
<1>9. CASE Publish
  BY <1>9 DEF Publish, Goes, opVars, rxVars, offVars, busVars, oddVars, toldVars
<1>10. CASE SendRoc
  BY <1>10 DEF SendRoc, Happens, Usual, Goes, elemVars, opVars, rxVars, offVars,
      oddVars, toldVars
<1>11. CASE RocDone
  BY <1>11 DEF RocDone, Goes, elemVars, opVars, rxVars, offVars, busVars, oddVars
<1>12. CASE RocFails
  BY <1>12 DEF RocFails, Uses, OffchanDeinit, Goes, opVars, rxVars, busVars, oddVars,
      toldVars
<1>13. CASE MgmtUse
  BY <1>13 DEF MgmtUse, Uses, Goes, elemVars, opVars, rxVars, offVars, busVars,
      oddVars, toldVars
<1>14. CASE MgmtMark
  BY <1>14 DEF MgmtMark, Uses, Goes, opVars, rxVars, offVars, busVars, oddVars,
      toldVars
<1>15. CASE XmitCheck
  BY <1>15 DEF XmitCheck, Goes, elemVars, opVars, rxVars, offVars, busVars, oddVars,
      toldVars
<1>16. CASE XmitQueue
  BY <1>16 DEF XmitQueue, Goes, elemVars, opVars, rxVars, busVars, toldVars
<1>17. CASE CloseLook
  BY <1>17 DEF CloseLook, elemVars, rxVars, offVars, busVars, oddVars, toldVars
<1>18. CASE CloseClear
  BY <1>18 DEF CloseClear, Uses, Goes, opVars, rxVars, offVars, busVars, oddVars,
      toldVars
<1>19. CASE WaitEnds
  BY <1>19 DEF WaitEnds, Happens, Goes, elemVars, opVars, rxVars, offVars, toldVars
<1>20. CASE AnswerLate
  BY <1>20 DEF AnswerLate, Happens, Goes, elemVars, opVars, rxVars, offVars, toldVars
<1>21. CASE RxStartCfm
  BY <1>21 DEF RxStartCfm, Goes, Receives, elemVars, opVars, cfgVars, rxVars, offVars,
      oddVars, toldVars
<1>22. CASE RxCancelCfm
  BY <1>22 DEF RxCancelCfm, Goes, Receives, elemVars, opVars, cfgVars, rxVars, offVars,
      oddVars, toldVars
<1>23. CASE RxRemoveCfm
  BY <1>23 DEF RxRemoveCfm, Goes, Receives, elemVars, opVars, cfgVars, rxVars, offVars,
      oddVars, toldVars
<1>24. CASE RxSwitch
  BY <1>24 DEF RxSwitch
<1>25. CASE RxExp
  BY <1>25 DEF RxExp
<1>26. CASE RxFree
  BY <1>26 DEF RxFree, Uses, opVars, cfgVars, offVars, busVars, oddVars, toldVars
<1>27. CASE RxForget
  BY <1>27 DEF RxForget, opVars, cfgVars, offVars, busVars, oddVars, toldVars
<1>28. CASE FwStart
  BY <1>28 DEF FwStart, Usual, Sends, Answers, FwUntouched, StartCfm, elemVars, opVars,
      cfgVars, rxVars, offVars, oddVars, toldVars
<1>29. CASE FwCancel
  BY <1>29 DEF FwCancel, Usual, Sends, Answers, FwUntouched, Msg, elemVars, opVars,
      cfgVars, rxVars, offVars, oddVars, toldVars
<1>30. CASE FwRemove
  BY <1>30 DEF FwRemove, Usual, Sends, Answers, FwUntouched, Msg, elemVars, opVars,
      cfgVars, rxVars, offVars, oddVars, toldVars
<1>31. CASE FwSwitch
  BY <1>31 DEF FwSwitch, Usual, Sends, FwUntouched, Msg, elemVars, opVars, cfgVars,
      rxVars, offVars, oddVars, toldVars
<1>32. CASE FwExpire
  BY <1>32 DEF FwExpire, Happens, Usual, Sends, FwUntouched, Msg, elemVars, opVars,
      cfgVars, rxVars, offVars, oddVars, toldVars
<1>33. CASE OffchanTask
  BY <1>33 DEF OffchanTask, elemVars, opVars, cfgVars, rxVars, busVars, oddVars,
      toldVars
<1> QED BY <1>1, <1>2, <1>3, <1>4, <1>5, <1>6, <1>7, <1>8, <1>9, <1>10, <1>11, <1>12,
        <1>13, <1>14, <1>15, <1>16, <1>17, <1>18, <1>19, <1>20, <1>21, <1>22, <1>23, <1>24,
        <1>25, <1>26, <1>27, <1>28, <1>29, <1>30, <1>31, <1>32, <1>33 DEF Next, CfgStep,
        RxStep, FwStep

LEMMA ToldTypes ==
    ASSUME ToldOK, PlainOK, Next PROVE ToldOK'
<1>1. cookie \in Nat
  BY DEF PlainOK, ElemOK
<1>2. ASSUME NEW x \in {"ready", "expired"}, Tells(x) PROVE ToldOK'
  <2>1. [what |-> x, cookie |-> cookie] \in [what : {"ready", "expired"}, cookie : Nat]
    BY <1>1
  <2> QED BY <1>2, <2>1, GivenType DEF Tells, ToldOK
<1>3. CASE reports' = reports
  BY <1>3 DEF ToldOK
<1> QED BY <1>2, <1>3, OnlyTold

-----------------------------------------------------------------------------
(* What RocInv says of the element and of the off-channel queue *)

LEMMA SwitchOpens ==
    ASSUME ElemOK, OffchanSound, Prompt => elem \in heap, oops = "no", RxSwitch
    PROVE  OffchanSound'
<1>1. None \notin heap
  BY NoneHeap
<1>2. /\ UNCHANGED <<elem, pc, oidx, oframes>> /\ past \subseteq past'
      /\ past' \subseteq past \cup {"unmarked"}
      /\ ostop' = (ostop /\ ~oidx) /\ on_chan \subseteq on_chan'
      /\ elem # None => elem \in on_chan'
      /\ olisted' = (olisted \/ (oidx /\ ostop /\ oframes > 0))
  BY DEF RxSwitch, OffchanStart, cfgVars
<1>3. elem # None \/ past' \cap {"timeout", "early", "close"} # {}
  BY <1>1, <1>2 DEF Prompt
<1>4. (oidx => elem # None \/ pc = "publish" \/ "close" \in past)'
  BY <1>2 DEF OffchanSound
<1>5. (oidx /\ ~ostop => elem \in on_chan \/ past \cap {"timeout", "early", "close"} # {})'
  BY <1>2, <1>3
<1>6. ("late" \notin past => (oframes > 0 => oidx) /\ (olisted => oidx /\ ~ostop))'
  BY <1>2 DEF OffchanSound
<1>7. (pc = "init" /\ past \cap {"late", "close"} = {} => oframes = 0 /\ ~olisted)'
  <2>1. past' \cap {"late", "close"} = {} => past \cap {"late", "close"} = {}
    BY <1>2
  <2>2. pc = "init" /\ past \cap {"late", "close"} = {} => oframes = 0 /\ ~olisted
    BY DEF OffchanSound
  <2>3. oframes = 0 => ~(oframes > 0)
    OBVIOUS
  <2> QED BY <1>2, <2>1, <2>2, <2>3
<1> QED BY <1>4, <1>5, <1>6, <1>7 DEF OffchanSound

LEMMA SoundStep ==
    ASSUME PlainOK, BusOK, Fresh, Handy, Freeing, ElemSound, OffchanSound,
           Prompt => Protocol, oops = "no", Next
    PROVE  ElemSound' /\ OffchanSound'
<1>0. ind # <<>> => 1 \in 1..Len(ind) /\ Head(ind) = ind[1]
  BY Lengths
<1> USE NoneApart, <1>0
    DEF PlainOK, ElemOK, OpOK, QueueOK, OddOK, Fresh, Handy, Freeing, ElemSound,
        OffchanSound, Excuses, Prompt, Protocol, Tokens, Course, Live, Quiet,
        Indicates, Ids, Refusable
<1>1. ASSUME NEW v \in Vifs, Request(v) PROVE ElemSound' /\ OffchanSound'
  BY <1>1 DEF Request, elemVars, rxVars, offVars, busVars, oddVars, toldVars
<1>2. ASSUME NEW v \in Vifs, Cancel(v) PROVE ElemSound' /\ OffchanSound'
  BY <1>2 DEF Cancel, Happens, Usual, elemVars, rxVars, offVars, oddVars, toldVars
<1>3. ASSUME NEW v \in Vifs, MgmtTx(v) PROVE ElemSound' /\ OffchanSound'
  BY <1>3 DEF MgmtTx, elemVars, rxVars, offVars, busVars, oddVars, toldVars
<1>4. ASSUME NEW v \in Vifs, Close(v) PROVE ElemSound' /\ OffchanSound'
  BY <1>4 DEF Close, Happens, elemVars, rxVars, offVars, toldVars
<1>5. ASSUME NEW v \in Vifs, Open(v) PROVE ElemSound' /\ OffchanSound'
  BY <1>5 DEF Open, elemVars, rxVars, offVars, busVars, oddVars, toldVars
<1>6. CASE Recheck
  BY <1>6 DEF Recheck, Goes, elemVars, opVars, rxVars, offVars, busVars, oddVars,
      toldVars
<1>7. CASE RocInit
  BY <1>7 DEF RocInit, rxVars, busVars, oddVars, toldVars
<1>8. CASE RocNoMem
  BY <1>8 DEF RocNoMem, Happens, Goes, elemVars, opVars, rxVars, offVars, busVars,
      toldVars
<1>9. CASE Publish
  BY <1>9 DEF Publish, Goes, opVars, rxVars, offVars, busVars, oddVars, toldVars
<1>10. CASE SendRoc
  BY <1>10 DEF SendRoc, Happens, Usual, Goes, elemVars, opVars, rxVars, offVars,
      oddVars, toldVars
<1>11. CASE RocDone
  BY <1>11 DEF RocDone, Goes, elemVars, opVars, rxVars, offVars, busVars, oddVars
<1>12. CASE RocFails
  BY <1>12 DEF RocFails, Uses, OffchanDeinit, Goes, opVars, rxVars, busVars, oddVars,
      toldVars
<1>13. CASE MgmtUse
  BY <1>13 DEF MgmtUse, Uses, Goes, elemVars, opVars, rxVars, offVars, busVars,
      oddVars, toldVars
<1>14. CASE MgmtMark
  BY <1>14 DEF MgmtMark, Uses, Goes, opVars, rxVars, offVars, busVars, oddVars,
      toldVars
<1>15. CASE XmitCheck
  BY <1>15 DEF XmitCheck, Goes, elemVars, opVars, rxVars, offVars, busVars, oddVars,
      toldVars
<1>16. CASE XmitQueue
  BY <1>16 DEF XmitQueue, Goes, elemVars, opVars, rxVars, busVars, toldVars
<1>17. CASE CloseLook
  BY <1>17 DEF CloseLook, elemVars, rxVars, offVars, busVars, oddVars, toldVars
<1>18. CASE CloseClear
  BY <1>18 DEF CloseClear, Uses, Goes, opVars, rxVars, offVars, busVars, oddVars,
      toldVars
<1>19. CASE WaitEnds
  BY <1>19 DEF WaitEnds, Happens, Goes, elemVars, opVars, rxVars, offVars, toldVars
<1>20. CASE AnswerLate
  BY <1>20 DEF AnswerLate, Happens, Goes, elemVars, opVars, rxVars, offVars, toldVars
<1>21. CASE RxStartCfm
  BY <1>21 DEF RxStartCfm, Goes, Receives, elemVars, opVars, cfgVars, rxVars, offVars,
      oddVars, toldVars
<1>22. CASE RxCancelCfm
  BY <1>22 DEF RxCancelCfm, Goes, Receives, elemVars, opVars, cfgVars, rxVars, offVars,
      oddVars, toldVars
<1>23. CASE RxRemoveCfm
  BY <1>23 DEF RxRemoveCfm, Goes, Receives, elemVars, opVars, cfgVars, rxVars, offVars,
      oddVars, toldVars
<1>24. CASE RxSwitch
  <2>1. ElemSound'
    BY <1>24 DEF RxSwitch, Uses, OffchanStart, Receives, Tells, opVars, cfgVars, rxVars
  <2>2. Prompt => elem \in heap
    BY <1>24 DEF RxSwitch, Receives
  <2>3. OffchanSound'
    BY <1>24, <2>2, SwitchOpens
  <2> QED BY <2>1, <2>3
<1>25. CASE RxExp
  BY <1>25 DEF RxExp, Uses, OffchanDeinit, Receives, Tells, NextCookie, elemVars,
      opVars, cfgVars, rxVars, offVars, oddVars
<1>26. CASE RxFree
  BY <1>26 DEF RxFree, Uses, opVars, cfgVars, offVars, busVars, oddVars, toldVars
<1>27. CASE RxForget
  BY <1>27 DEF RxForget, opVars, cfgVars, offVars, busVars, oddVars, toldVars
<1>28. CASE FwStart
  BY <1>28 DEF FwStart, Usual, Sends, Answers, FwUntouched, StartCfm, elemVars, opVars,
      cfgVars, rxVars, offVars, oddVars, toldVars
<1>29. CASE FwCancel
  BY <1>29 DEF FwCancel, Usual, Sends, Answers, FwUntouched, Msg, elemVars, opVars,
      cfgVars, rxVars, offVars, oddVars, toldVars
<1>30. CASE FwRemove
  BY <1>30 DEF FwRemove, Usual, Sends, Answers, FwUntouched, Msg, elemVars, opVars,
      cfgVars, rxVars, offVars, oddVars, toldVars
<1>31. CASE FwSwitch
  BY <1>31 DEF FwSwitch, Usual, Sends, FwUntouched, Msg, elemVars, opVars, cfgVars,
      rxVars, offVars, oddVars, toldVars
<1>32. CASE FwExpire
  BY <1>32 DEF FwExpire, Happens, Usual, Sends, FwUntouched, Msg, elemVars, opVars,
      cfgVars, rxVars, offVars, oddVars, toldVars
<1>33. CASE OffchanTask
  BY <1>33 DEF OffchanTask, elemVars, opVars, cfgVars, rxVars, busVars, oddVars,
      toldVars
<1> QED BY <1>1, <1>2, <1>3, <1>4, <1>5, <1>6, <1>7, <1>8, <1>9, <1>10, <1>11, <1>12,
        <1>13, <1>14, <1>15, <1>16, <1>17, <1>18, <1>19, <1>20, <1>21, <1>22, <1>23, <1>24,
        <1>25, <1>26, <1>27, <1>28, <1>29, <1>30, <1>31, <1>32, <1>33 DEF Next, CfgStep,
        RxStep, FwStep

-----------------------------------------------------------------------------
(* Commands are answered in time: the steps of the operations and of the       *)
(* receive thread                                                              *)

LEMMA RxShrinks ==
    ASSUME BusOK, NEW w, Receives(w)
    PROVE  Shrinks /\ Len(ind) \in Nat
BY IndShrinks, Lengths DEF Receives

-----------------------------------------------------------------------------
(* Commands are answered in time: the steps of the firmware *)

Known == PlainOK /\ BusOK /\ Fresh /\ Handy /\ Freeing /\ Protocol

\* What no step of the firmware touches.
LEMMA Untouched ==
    ASSUME Known, FwStep
    PROVE  /\ UNCHANGED <<elem, heap, wdev, pc, cur, vif, rxpc, rxptr>>
           /\ past' = past \/ past' = past \cup {"slow"}
           /\ Len(ind) \in Nat
<1>1. Len(ind) \in Nat
  BY Lengths DEF Known
<1> QED BY <1>1 DEF FwStep, FwStart, FwCancel, FwRemove, FwSwitch, FwExpire, Usual, Happens,
     FwUntouched, elemVars, cfgVars, opVars, rxVars, oddVars

\* It takes the command that is under way.
LEMMA Taken ==
    ASSUME Known, NEW op, Answers(op)
    PROVE  /\ Head(chan) = chan[1] /\ chan[1].op = op /\ chan # <<>>
           /\ chan' = <<>> /\ Len(chan') = 0
           /\ \A i \in 1..Len(ind) : ind[i].what \notin Confirms
<1>1. chan # <<>> /\ chan' = Tail(chan) /\ Len(chan) <= 1 /\ Head(chan).op = op
  BY DEF Answers, Known, Protocol, Calls
<1>2. Head(chan) = chan[1] /\ chan' = <<>> /\ Len(chan') = 0
  BY <1>1, ChanTaken DEF Known
<1> QED BY <1>1, <1>2 DEF Known, Protocol, Calls

LEMMA FwStartKeeps ==
    ASSUME Known, FwStart
    PROVE  Protocol'
<1>1. /\ Head(chan) = chan[1] /\ chan[1].op = "start" /\ chan # <<>>
      /\ chan' = <<>> /\ Len(chan') = 0
      /\ \A i \in 1..Len(ind) : ind[i].what \notin Confirms
  BY Taken DEF FwStart
<1>2. /\ pc = "wait" /\ chan[1].id = cur /\ chan[1].vif = vif /\ wdev[cur] = vif
      /\ Refusable /\ cur # None
  BY <1>1 DEF Known, Protocol, Calls, Course, Handy
<1>3. UNCHANGED <<elem, heap, wdev, pc, cur, vif, rxpc, rxptr, past>> /\ Len(ind) \in Nat
  BY Lengths DEF FwStart, Usual, FwUntouched, elemVars, cfgVars, opVars, rxVars,
      oddVars,
     Known
<1>4. PICK b \in BOOLEAN :
        /\ ind' = ind \o <<[what |-> "start_cfm", id |-> cur, ok |-> b]>>
        /\ fw' = IF b THEN [id |-> cur, vif |-> vif, on |-> FALSE] ELSE None
  BY <1>1, <1>2 DEF FwStart, Sends, StartCfm, Refusable
<1>5. PICK m : m.what = "start_cfm" /\ m.id = cur /\ m.ok = b /\ Grows(m)
  <2> DEFINE m == [what |-> "start_cfm", id |-> cur, ok |-> b]
  <2>1. m.what = "start_cfm" /\ m.id = cur /\ m.ok = b
    OBVIOUS
  <2>2. Grows(m)
    BY <1>4, IndGrows DEF Known
  <2> QED BY <2>1, <2>2
<1>6. /\ b => fw' # None /\ fw'.id = cur /\ fw'.vif = vif /\ ~fw'.on
      /\ ~b => fw' = None
  <2>1. cur \in Ids /\ vif \in Vifs
    BY <1>2 DEF Known, PlainOK, OpOK, Handy
  <2>2. [id |-> cur, vif |-> vif, on |-> FALSE] \in [id : Ids, vif : Vifs, on : BOOLEAN]
    BY <2>1
  <2>3. [id |-> cur, vif |-> vif, on |-> FALSE] # None
    BY <2>2, RocAssumption
  <2> QED BY <1>4, <2>3
<1> HIDE DEF Grows
<1>7. Calls'
  BY <1>1, <1>2, <1>3, <1>5 DEF Calls, Grows, Confirms
<1>8. Tokens'
  BY <1>2, <1>3, <1>5, <1>6 DEF Tokens, Grows, Refusable, Live, Quiet, Indicates
<1>9. Course'
  BY <1>1, <1>2, <1>3, <1>5, <1>6
     DEF Known, Protocol, Course, Grows, Refusable, Live, Quiet, Indicates, Confirms
<1>10. Closing'
  BY <1>1, <1>2, <1>3, <1>5 DEF Closing, Grows, Ours, Confirms
<1> QED BY <1>7, <1>8, <1>9, <1>10 DEF Protocol

LEMMA MsgWhat == \A w : Msg(w).what = w
BY DEF Msg

LEMMA FwSwitchKeeps ==
    ASSUME Known, FwSwitch
    PROVE  Protocol'
<1>1. UNCHANGED <<elem, heap, wdev, pc, cur, vif, rxpc, rxptr>> /\ Len(ind) \in Nat
  BY Untouched DEF FwStep
<1>2. UNCHANGED <<chan, past>> /\ fw # None /\ ~fw.on /\ fw' = [fw EXCEPT !.on = TRUE]
      /\ ind' = ind \o <<Msg("switch")>>
  BY DEF FwSwitch, Sends, Usual, oddVars
<1>3. fw' # None /\ fw'.id = fw.id /\ fw'.vif = fw.vif /\ fw'.on
  <2>1. fw \in [id : Ids, vif : Vifs, on : BOOLEAN]
    BY <1>2 DEF Known, BusOK
  <2>2. [fw EXCEPT !.on = TRUE] \in [id : Ids, vif : Vifs, on : BOOLEAN]
    BY <2>1
  <2> QED BY <1>2, <2>1, <2>2, RocAssumption
<1>4. PICK m : m.what = "switch" /\ Grows(m)
  BY <1>2, IndGrows, MsgWhat DEF Known
<1>5. Live /\ Quiet /\ elem = fw.id /\ fw.vif = wdev[elem]
  BY <1>2 DEF Known, Protocol, Tokens
<1> HIDE DEF Grows
<1>6. Calls'
  BY <1>1, <1>2, <1>4 DEF Known, Protocol, Calls, Grows, Confirms
<1>7. Tokens'
  BY <1>1, <1>3, <1>4, <1>5 DEF Known, Protocol, Tokens, Grows, Live, Quiet, Indicates
<1>8. Course'
  BY <1>1, <1>2, <1>3, <1>4
     DEF Known, Protocol, Course, Grows, Refusable, Indicates
<1>9. Closing'
  BY <1>1, <1>2, <1>4, <1>5 DEF Known, Protocol, Closing, Grows, Ours, Quiet, Live,
      Indicates
<1> QED BY <1>6, <1>7, <1>8, <1>9 DEF Protocol

LEMMA FwExpireKeeps ==
    ASSUME Known, FwExpire
    PROVE  Protocol'
<1>1. UNCHANGED <<elem, heap, wdev, pc, cur, vif, rxpc, rxptr>> /\ Len(ind) \in Nat
      /\ (past' = past \/ past' = past \cup {"slow"})
  BY Untouched DEF FwStep
<1>2. UNCHANGED chan /\ fw # None /\ fw' = None /\ ind' = ind \o <<Msg("exp")>>
      /\ (cur = fw.id /\ pc \in {"wait", "done", "mark"} => "slow" \in past')
  BY DEF FwExpire, Sends, Happens
<1>3. PICK m : m.what = "exp" /\ Grows(m)
  BY <1>2, IndGrows, MsgWhat DEF Known
<1>4. Live /\ elem = fw.id /\ fw.vif = wdev[elem]
      /\ \A i \in 1..Len(ind) : ind[i].what # "exp"
  BY <1>2 DEF Known, Protocol, Tokens
<1> HIDE DEF Grows
<1>5. Calls'
  BY <1>1, <1>2, <1>3 DEF Known, Protocol, Calls, Grows, Confirms
<1>6. Tokens'
  BY <1>1, <1>2, <1>3, <1>4 DEF Known, Protocol, Tokens, Grows, Live, Quiet, Indicates
<1>7. Course'
  BY <1>1, <1>2, <1>3, <1>4
     DEF Known, Protocol, Calls, Course, Grows, Refusable, Indicates
<1>8. Closing'
  BY <1>1, <1>2, <1>3, <1>4 DEF Known, Protocol, Closing, Grows, Ours, Quiet, Live,
      Indicates
<1> QED BY <1>5, <1>6, <1>7, <1>8 DEF Protocol


LEMMA FwCancelKeeps ==
    ASSUME Known, FwCancel
    PROVE  Protocol'
<1>1. UNCHANGED <<elem, heap, wdev, pc, cur, vif, rxpc, rxptr>> /\ Len(ind) \in Nat
      /\ (past' = past \/ past' = past \cup {"slow"})
  BY Untouched DEF FwStep
<1>2. /\ chan' = <<>> /\ Len(chan') = 0 /\ pc = "cancel"
      /\ \A i \in 1..Len(ind) : ind[i].what \notin Confirms
  BY Taken DEF FwCancel, Known, Protocol, Calls
<1>3. /\ fw' = None
      /\ \/ fw = None /\ ind' = ind \o <<Msg("cancel_cfm")>>
         \/ fw # None /\ ind' = ind \o <<Msg("cancel_cfm"), Msg("exp")>>
         \/ fw # None /\ ind' = ind \o <<Msg("exp"), Msg("cancel_cfm")>>
  BY DEF FwCancel, Sends
<1>4. PICK m, n :
        /\ m.what = "cancel_cfm" /\ n.what = "exp"
        /\ \/ fw = None /\ Grows(m)
           \/ fw # None /\ (GrowsTwo(m, n) \/ GrowsTwo(n, m))
  <2>1. BusOK
    BY DEF Known
  <2> QED BY <1>3, <2>1, IndGrows, IndGrowsTwo, MsgWhat
<1>f. fw' = None
  BY <1>3
<1>t. Tokens /\ Course
  BY DEF Known, Protocol
<1>5. fw # None => Live /\ \A i \in 1..Len(ind) : ind[i].what # "exp"
  BY DEF Known, Protocol, Tokens
<1> HIDE DEF Grows, GrowsTwo
<1>6. PICK k : \A i \in 1..Len(ind') :
        ind'[i].what \in Confirms => i = k /\ ind'[i].what = "cancel_cfm"
  <2> DEFINE One(k) == \A i \in 1..Len(ind') :
        ind'[i].what \in Confirms => i = k /\ ind'[i].what = "cancel_cfm"
  <2> SUFFICES \E k : One(k)
    OBVIOUS
  <2>1. CASE Grows(m)
    <3>1. One(Len(ind) + 1)
      BY <1>1, <1>2, <1>4, <2>1 DEF Grows
    <3> HIDE DEF One
    <3> QED BY <3>1
  <2>2. CASE GrowsTwo(m, n)
    <3>1. One(Len(ind) + 1)
      BY <1>1, <1>2, <1>4, <2>2 DEF GrowsTwo, Confirms
    <3> HIDE DEF One
    <3> QED BY <3>1
  <2>3. CASE GrowsTwo(n, m)
    <3>1. One(Len(ind) + 2)
      BY <1>1, <1>2, <1>4, <2>3 DEF GrowsTwo, Confirms
    <3> HIDE DEF One
    <3> QED BY <3>1
  <2> QED BY <1>4, <2>1, <2>2, <2>3
<1>7. Tokens'
  <2>1. CASE Grows(m)
    BY <1>t, <1>1, <1>f, <1>4, <2>1 DEF Tokens, Grows, Live, Quiet, Indicates
  <2>2. CASE fw # None /\ GrowsTwo(m, n)
    BY <1>t, <1>1, <1>f, <1>4, <1>5, <2>2
       DEF Tokens, GrowsTwo, Live, Quiet, Indicates
  <2>3. CASE fw # None /\ GrowsTwo(n, m)
    BY <1>t, <1>1, <1>f, <1>4, <1>5, <2>3
       DEF Tokens, GrowsTwo, Live, Quiet, Indicates
  <2> QED BY <1>4, <2>1, <2>2, <2>3
<1>8. Calls'
  BY <1>1, <1>2, <1>6 DEF Calls, Confirms
<1>9. Course'
  BY <1>t, <1>1, <1>2, <1>6 DEF Course, Confirms
<1>10. Closing'
  BY <1>1, <1>2, <1>6 DEF Closing, Confirms
<1> QED BY <1>7, <1>8, <1>9, <1>10 DEF Protocol

LEMMA FwRemoveKeeps ==
    ASSUME Known, FwRemove
    PROVE  Protocol'
<1>1. UNCHANGED <<elem, heap, wdev, pc, cur, vif, rxpc, rxptr>> /\ Len(ind) \in Nat
      /\ (past' = past \/ past' = past \cup {"slow"})
  BY Untouched DEF FwStep
<1>2. /\ chan' = <<>> /\ Len(chan') = 0 /\ pc = "remove" /\ Head(chan).vif = vif
      /\ \A i \in 1..Len(ind) : ind[i].what \notin Confirms
  BY Taken DEF FwRemove, Known, Protocol, Calls
<1>3. /\ fw' = IF fw # None /\ fw.vif = vif THEN None ELSE fw
      /\ \/ ind' = ind \o <<Msg("remove_cfm")>>
         \/ fw # None /\ fw.vif = vif /\ ind' = ind \o <<Msg("exp"), Msg("remove_cfm")>>
  BY <1>2 DEF FwRemove, Sends
<1>4. PICK m, n :
        /\ m.what = "remove_cfm" /\ n.what = "exp"
        /\ Grows(m) \/ (fw # None /\ fw.vif = vif /\ GrowsTwo(n, m))
  <2>1. BusOK
    BY DEF Known
  <2> QED BY <1>3, <2>1, IndGrows, IndGrowsTwo, MsgWhat
<1>f. fw' = IF fw # None /\ fw.vif = vif THEN None ELSE fw
  BY <1>3
<1>t. Tokens /\ Course
  BY DEF Known, Protocol
<1>5. /\ fw # None => /\ Live /\ elem = fw.id /\ fw.vif = wdev[elem]
                      /\ \A i \in 1..Len(ind) : ind[i].what # "exp"
      /\ Ours => fw' = None
  BY <1>3 DEF Known, Protocol, Tokens, Ours
<1>a. CASE Grows(m)
  <2>1. Calls'
    BY <1>1, <1>2, <1>4, <1>a DEF Calls, Grows, Confirms
  <2>2. Tokens'
    BY <1>t, <1>1, <1>f, <1>4, <1>a DEF Tokens, Grows, Live, Quiet, Indicates
  <2>3. Course'
    BY <1>t, <1>1, <1>2, <1>4, <1>a DEF Course, Grows, Confirms
  <2>4. Closing'
    BY <1>1, <1>2, <1>4, <1>5, <1>a DEF Closing, Grows, Confirms, Ours
  <2> QED BY <2>1, <2>2, <2>3, <2>4 DEF Protocol
<1>b. CASE fw # None /\ fw.vif = vif /\ GrowsTwo(n, m)
  <2>0. fw' = None /\ Live /\ \A i \in 1..Len(ind) : ind[i].what # "exp"
    BY <1>5, <1>f, <1>b
  <2>1. Calls'
    BY <1>1, <1>2, <1>4, <1>b DEF Calls, GrowsTwo, Confirms
  <2>2. Tokens'
    BY <1>t, <1>1, <1>4, <1>b, <2>0
       DEF Tokens, GrowsTwo, Live, Quiet, Indicates
  <2>3. Course'
    BY <1>t, <1>1, <1>2, <1>4, <1>b DEF Course, GrowsTwo, Confirms
  <2>4. Closing'
    BY <1>1, <1>2, <1>4, <1>5, <1>b DEF Closing, GrowsTwo, Confirms, Ours
  <2> QED BY <2>1, <2>2, <2>3, <2>4 DEF Protocol
<1> QED BY <1>4, <1>a, <1>b

LEMMA FwKeeps ==
    ASSUME Known, FwStep
    PROVE  Protocol'
BY FwStartKeeps, FwCancelKeeps, FwRemoveKeeps, FwSwitchKeeps, FwExpireKeeps DEF FwStep

-----------------------------------------------------------------------------
(* Commands are answered in time: all the steps *)

LEMMA CallsStep ==
    ASSUME Known, oops = "no", oops' = "no", Prompt', Next
    PROVE  Calls'
<1>0. Len(ind) \in Nat /\ (ind # <<>> /\ ind' = Tail(ind) => Shrinks)
  BY Lengths, IndShrinks DEF Known
<1>c. Calls /\ OpOK
  BY DEF Known, Protocol, PlainOK
<1>p. "timeout" \notin past' /\ "early" \notin past'
  BY DEF Prompt
<1>k. chan # <<>> => chan[1].op \in {"start", "cancel", "remove"}
  <2>1. chan \in Seq(Commands)
    BY DEF Known, BusOK
  <2>2. chan # <<>> => chan[1] \in Commands
    BY <2>1
  <2> QED BY <2>2 DEF Commands
<1>f. FwStep => Calls'
  BY FwKeeps DEF Protocol
<1> USE DEF Calls, Shrinks, Confirms
<1>1. ASSUME NEW v \in Vifs, Request(v) PROVE Calls'
  BY <1>1, <1>0, <1>c, <1>p DEF Request, elemVars, rxVars, offVars, busVars, oddVars,
      toldVars
<1>2. ASSUME NEW v \in Vifs, Cancel(v) PROVE Calls'
  <2>1. chan = <<>> /\ (\A i \in 1..Len(ind) : ind[i].what \notin Confirms) /\ ind' = ind
    BY <1>2, <1>c, <1>k DEF Cancel
  <2>2. CASE UNCHANGED <<pc, chan>>
    BY <2>1, <2>2
  <2>3. CASE pc' = "cancel" /\ chan' = Append(chan, [op |-> "cancel"])
    <3>1. chan' # <<>> /\ Len(chan') = 1 /\ chan'[1] = [op |-> "cancel"]
      BY <2>1, <2>3, ChanGiven
    <3> QED BY <2>1, <2>3, <3>1
  <2> QED BY <1>2, <2>2, <2>3 DEF Cancel
<1>3. ASSUME NEW v \in Vifs, MgmtTx(v) PROVE Calls'
  BY <1>3, <1>0, <1>c, <1>p DEF MgmtTx, elemVars, rxVars, offVars, busVars, oddVars,
      toldVars
<1>4. ASSUME NEW v \in Vifs, Close(v) PROVE Calls'
  <2>1. chan = <<>> /\ (\A i \in 1..Len(ind) : ind[i].what \notin Confirms) /\ ind' = ind
    BY <1>4, <1>c, <1>k DEF Close
  <2>2. CASE chan' = chan
    BY <2>1, <2>2
  <2>3. CASE pc' = "remove" /\ chan' = Append(chan, [op |-> "remove", vif |-> v])
    <3>1. chan' # <<>> /\ Len(chan') = 1 /\ chan'[1] = [op |-> "remove", vif |-> v]
      BY <2>1, <2>3, ChanGiven
    <3>2. vif' = v
      BY <1>4 DEF Close
    <3> QED BY <2>1, <2>3, <3>1, <3>2
  <2> QED BY <1>4, <2>2, <2>3 DEF Close
<1>5. ASSUME NEW v \in Vifs, Open(v) PROVE Calls'
  BY <1>5, <1>0, <1>c, <1>p DEF Open, elemVars, rxVars, offVars, busVars, oddVars,
      toldVars
<1>6. CASE Recheck
  BY <1>6, <1>0, <1>c, <1>p DEF Recheck, Goes, elemVars, opVars, rxVars, offVars,
      busVars, oddVars, toldVars
<1>7. CASE RocInit
  BY <1>7, <1>0, <1>c, <1>p DEF RocInit, rxVars, busVars, oddVars, toldVars
<1>8. CASE RocNoMem
  BY <1>8, <1>0, <1>c, <1>p DEF RocNoMem, Happens, Goes, elemVars, opVars, rxVars,
      offVars, busVars, toldVars
<1>9. CASE Publish
  BY <1>9, <1>0, <1>c, <1>p DEF Publish, Goes, opVars, rxVars, offVars, busVars,
      oddVars, toldVars
<1>10. CASE SendRoc
  <2>1. chan = <<>> /\ \A i \in 1..Len(ind) : ind[i].what \notin Confirms
    BY <1>10, <1>c, <1>k DEF SendRoc
  <2>2. ind' = ind
    BY <1>10 DEF SendRoc
  <2>3. CASE chan' = chan
    BY <2>1, <2>2, <2>3
  <2>4. CASE pc' = "wait" /\ chan' = Append(chan, [op |-> "start", id |-> cur, vif |-> vif])
    <3>1. chan' # <<>> /\ Len(chan') = 1
          /\ chan'[1] = [op |-> "start", id |-> cur, vif |-> vif]
      BY <2>1, <2>4, ChanGiven
    <3>2. cur' = cur /\ vif' = vif
      BY <1>10 DEF SendRoc, Goes, opVars
    <3> QED BY <2>1, <2>2, <2>4, <3>1, <3>2
  <2> QED BY <1>10, <2>3, <2>4 DEF SendRoc, Goes
<1>11. CASE RocDone
  BY <1>11, <1>0, <1>c, <1>p DEF RocDone, Goes, elemVars, opVars, rxVars, offVars,
      busVars, oddVars
<1>12. CASE RocFails
  BY <1>12, <1>0, <1>c, <1>p DEF RocFails, Uses, OffchanDeinit, Goes, opVars, rxVars,
      busVars, oddVars, toldVars
<1>13. CASE MgmtUse
  BY <1>13, <1>0, <1>c, <1>p DEF MgmtUse, Uses, Goes, elemVars, opVars, rxVars,
      offVars, busVars, oddVars, toldVars
<1>14. CASE MgmtMark
  BY <1>14, <1>0, <1>c, <1>p DEF MgmtMark, Uses, Goes, opVars, rxVars, offVars,
      busVars, oddVars, toldVars
<1>15. CASE XmitCheck
  BY <1>15, <1>0, <1>c, <1>p DEF XmitCheck, Goes, elemVars, opVars, rxVars, offVars,
      busVars, oddVars, toldVars
<1>16. CASE XmitQueue
  BY <1>16, <1>0, <1>c, <1>p DEF XmitQueue, Goes, elemVars, opVars, rxVars, busVars,
      toldVars
<1>17. CASE CloseLook
  BY <1>17, <1>0, <1>c, <1>p DEF CloseLook, elemVars, rxVars, offVars, busVars,
      oddVars, toldVars
<1>18. CASE CloseClear
  BY <1>18, <1>0, <1>c, <1>p DEF CloseClear, Uses, Goes, opVars, rxVars, offVars,
      busVars, oddVars, toldVars
<1>19. CASE WaitEnds
  BY <1>19, <1>0, <1>c, <1>p DEF WaitEnds, Happens, Goes, elemVars, opVars, rxVars,
      offVars, toldVars
<1>20. CASE AnswerLate
  BY <1>20, <1>0, <1>c, <1>p DEF AnswerLate, Happens, Goes, elemVars, opVars, rxVars,
      offVars, toldVars
<1>21. CASE RxStartCfm
  BY <1>21, <1>0, <1>c, <1>p DEF RxStartCfm, Goes, Receives, elemVars, opVars, cfgVars,
      rxVars, offVars, oddVars, toldVars
<1>22. CASE RxCancelCfm
  BY <1>22, <1>0, <1>c, <1>p DEF RxCancelCfm, Goes, Receives, elemVars, opVars,
      cfgVars, rxVars, offVars, oddVars, toldVars
<1>23. CASE RxRemoveCfm
  BY <1>23, <1>0, <1>c, <1>p DEF RxRemoveCfm, Goes, Receives, elemVars, opVars,
      cfgVars, rxVars, offVars, oddVars, toldVars
<1>24. CASE RxSwitch
  BY <1>24, <1>0, <1>c, <1>p DEF RxSwitch, Uses, OffchanStart, Receives, Tells, opVars,
      cfgVars, rxVars
<1>25. CASE RxExp
  BY <1>25, <1>0, <1>c, <1>p DEF RxExp, Uses, OffchanDeinit, Receives, Tells,
      NextCookie, elemVars, opVars, cfgVars, rxVars, offVars, oddVars
<1>26. CASE RxFree
  BY <1>26, <1>0, <1>c, <1>p DEF RxFree, Uses, opVars, cfgVars, offVars, busVars,
      oddVars, toldVars
<1>27. CASE RxForget
  BY <1>27, <1>0, <1>c, <1>p DEF RxForget, opVars, cfgVars, offVars, busVars, oddVars,
      toldVars
<1>28. CASE FwStart
  BY <1>28, <1>f DEF FwStep
<1>29. CASE FwCancel
  BY <1>29, <1>f DEF FwStep
<1>30. CASE FwRemove
  BY <1>30, <1>f DEF FwStep
<1>31. CASE FwSwitch
  BY <1>31, <1>f DEF FwStep
<1>32. CASE FwExpire
  BY <1>32, <1>f DEF FwStep
<1>33. CASE OffchanTask
  BY <1>33, <1>0, <1>c, <1>p DEF OffchanTask, elemVars, opVars, cfgVars, rxVars,
      busVars, oddVars, toldVars
<1> QED BY <1>1, <1>2, <1>3, <1>4, <1>5, <1>6, <1>7, <1>8, <1>9, <1>10, <1>11, <1>12,
        <1>13, <1>14, <1>15, <1>16, <1>17, <1>18, <1>19, <1>20, <1>21, <1>22, <1>23, <1>24,
        <1>25, <1>26, <1>27, <1>28, <1>29, <1>30, <1>31, <1>32, <1>33 DEF Next, CfgStep,
        RxStep, FwStep

LEMMA TokensStep ==
    ASSUME Known, oops = "no", oops' = "no", Prompt', Next
    PROVE  Tokens'
<1>0. Len(ind) \in Nat /\ (ind # <<>> /\ ind' = Tail(ind) => Shrinks)
  BY Lengths, IndShrinks DEF Known
<1>c. Tokens /\ Course /\ Handy /\ Freeing
  BY DEF Known, Protocol
<1>p. "timeout" \notin past' /\ "early" \notin past'
  BY DEF Prompt
<1>k. /\ None \notin heap
      /\ pc = "clear" /\ elem # None /\ wdev[elem] = vif =>
           fw = None /\ Quiet /\ rxpc = "idle"
  <2>1. None \notin heap
    BY NoneHeap DEF Known, PlainOK
  <2>2. Closing
    BY DEF Known, Protocol
  <2> QED BY <2>1, <2>2 DEF Closing, Ours
<1>f. FwStep => Tokens'
  BY FwKeeps DEF Protocol
<1> USE DEF Tokens, Course, Handy, Freeing, Shrinks, Live, Quiet, Indicates, Refusable
<1>1. ASSUME NEW v \in Vifs, Request(v) PROVE Tokens'
  BY <1>1, <1>0, <1>c, <1>p DEF Request, elemVars, rxVars, offVars, busVars, oddVars,
      toldVars
<1>2. ASSUME NEW v \in Vifs, Cancel(v) PROVE Tokens'
  BY <1>2, <1>0, <1>c, <1>p DEF Cancel, Happens, Usual, elemVars, rxVars, offVars,
      oddVars, toldVars
<1>3. ASSUME NEW v \in Vifs, MgmtTx(v) PROVE Tokens'
  BY <1>3, <1>0, <1>c, <1>p DEF MgmtTx, elemVars, rxVars, offVars, busVars, oddVars,
      toldVars
<1>4. ASSUME NEW v \in Vifs, Close(v) PROVE Tokens'
  BY <1>4, <1>0, <1>c, <1>p DEF Close, Happens, elemVars, rxVars, offVars, toldVars
<1>5. ASSUME NEW v \in Vifs, Open(v) PROVE Tokens'
  BY <1>5, <1>0, <1>c, <1>p DEF Open, elemVars, rxVars, offVars, busVars, oddVars,
      toldVars
<1>6. CASE Recheck
  BY <1>6, <1>0, <1>c, <1>p DEF Recheck, Goes, elemVars, opVars, rxVars, offVars,
      busVars, oddVars, toldVars
<1>7. CASE RocInit
  BY <1>7, <1>0, <1>c, <1>p, <1>k DEF RocInit, rxVars, busVars, oddVars, toldVars
<1>8. CASE RocNoMem
  BY <1>8, <1>0, <1>c, <1>p DEF RocNoMem, Happens, Goes, elemVars, opVars, rxVars,
      offVars, busVars, toldVars
<1>9. CASE Publish
  BY <1>9, <1>0, <1>c, <1>p, <1>k DEF Publish, Goes, opVars, rxVars, offVars, busVars,
      oddVars, toldVars
<1>10. CASE SendRoc
  BY <1>10, <1>0, <1>c, <1>p DEF SendRoc, Happens, Usual, Goes, elemVars, opVars,
      rxVars, offVars, oddVars, toldVars
<1>11. CASE RocDone
  BY <1>11, <1>0, <1>c, <1>p DEF RocDone, Goes, elemVars, opVars, rxVars, offVars,
      busVars, oddVars
<1>12. CASE RocFails
  BY <1>12, <1>0, <1>c, <1>p DEF RocFails, Uses, OffchanDeinit, Goes, opVars, rxVars,
      busVars, oddVars, toldVars
<1>13. CASE MgmtUse
  BY <1>13, <1>0, <1>c, <1>p DEF MgmtUse, Uses, Goes, elemVars, opVars, rxVars,
      offVars, busVars, oddVars, toldVars
<1>14. CASE MgmtMark
  BY <1>14, <1>0, <1>c, <1>p DEF MgmtMark, Uses, Goes, opVars, rxVars, offVars,
      busVars, oddVars, toldVars
<1>15. CASE XmitCheck
  BY <1>15, <1>0, <1>c, <1>p DEF XmitCheck, Goes, elemVars, opVars, rxVars, offVars,
      busVars, oddVars, toldVars
<1>16. CASE XmitQueue
  BY <1>16, <1>0, <1>c, <1>p DEF XmitQueue, Goes, elemVars, opVars, rxVars, busVars,
      toldVars
<1>17. CASE CloseLook
  BY <1>17, <1>0, <1>c, <1>p DEF CloseLook, elemVars, rxVars, offVars, busVars,
      oddVars, toldVars
<1>18. CASE CloseClear
  BY <1>18, <1>0, <1>c, <1>p, <1>k DEF CloseClear, Uses, Goes, opVars, rxVars, offVars,
      busVars, oddVars, toldVars
<1>19. CASE WaitEnds
  BY <1>19, <1>0, <1>c, <1>p DEF WaitEnds, Happens, Goes, elemVars, opVars, rxVars,
      offVars, toldVars
<1>20. CASE AnswerLate
  BY <1>20, <1>0, <1>c, <1>p DEF AnswerLate, Happens, Goes, elemVars, opVars, rxVars,
      offVars, toldVars
<1>21. CASE RxStartCfm
  BY <1>21, <1>0, <1>c, <1>p DEF RxStartCfm, Goes, Receives, elemVars, opVars, cfgVars,
      rxVars, offVars, oddVars, toldVars
<1>22. CASE RxCancelCfm
  BY <1>22, <1>0, <1>c, <1>p DEF RxCancelCfm, Goes, Receives, elemVars, opVars,
      cfgVars, rxVars, offVars, oddVars, toldVars
<1>23. CASE RxRemoveCfm
  BY <1>23, <1>0, <1>c, <1>p DEF RxRemoveCfm, Goes, Receives, elemVars, opVars,
      cfgVars, rxVars, offVars, oddVars, toldVars
<1>24. CASE RxSwitch
  BY <1>24, <1>0, <1>c, <1>p DEF RxSwitch, Uses, OffchanStart, Receives, Tells, opVars,
      cfgVars, rxVars
<1>25. CASE RxExp
  BY <1>25, <1>0, <1>c, <1>p DEF RxExp, Uses, OffchanDeinit, Receives, Tells,
      NextCookie, elemVars, opVars, cfgVars, rxVars, offVars, oddVars
<1>26. CASE RxFree
  BY <1>26, <1>0, <1>c, <1>p DEF RxFree, Uses, opVars, cfgVars, offVars, busVars,
      oddVars, toldVars
<1>27. CASE RxForget
  BY <1>27, <1>0, <1>c, <1>p DEF RxForget, opVars, cfgVars, offVars, busVars, oddVars,
      toldVars
<1>28. CASE FwStart
  BY <1>28, <1>f DEF FwStep
<1>29. CASE FwCancel
  BY <1>29, <1>f DEF FwStep
<1>30. CASE FwRemove
  BY <1>30, <1>f DEF FwStep
<1>31. CASE FwSwitch
  BY <1>31, <1>f DEF FwStep
<1>32. CASE FwExpire
  BY <1>32, <1>f DEF FwStep
<1>33. CASE OffchanTask
  BY <1>33, <1>0, <1>c, <1>p DEF OffchanTask, elemVars, opVars, cfgVars, rxVars,
      busVars, oddVars, toldVars
<1> QED BY <1>1, <1>2, <1>3, <1>4, <1>5, <1>6, <1>7, <1>8, <1>9, <1>10, <1>11, <1>12,
        <1>13, <1>14, <1>15, <1>16, <1>17, <1>18, <1>19, <1>20, <1>21, <1>22, <1>23, <1>24,
        <1>25, <1>26, <1>27, <1>28, <1>29, <1>30, <1>31, <1>32, <1>33 DEF Next, CfgStep,
        RxStep, FwStep

LEMMA CourseStep ==
    ASSUME Known, oops = "no", oops' = "no", Prompt', Next
    PROVE  Course'
<1>0. Len(ind) \in Nat /\ (ind # <<>> /\ ind' = Tail(ind) => Shrinks)
  BY Lengths, IndShrinks DEF Known
<1>c. Course /\ Tokens /\ Calls /\ Handy /\ Freeing
  BY DEF Known, Protocol
<1>p. "timeout" \notin past' /\ "early" \notin past'
  BY DEF Prompt
<1>k. /\ None \notin heap
      /\ pc = "clear" /\ elem # None /\ wdev[elem] = vif =>
           fw = None /\ Quiet /\ rxpc = "idle"
  <2>1. None \notin heap
    BY NoneHeap DEF Known, PlainOK
  <2>2. Closing
    BY DEF Known, Protocol
  <2> QED BY <2>1, <2>2 DEF Closing, Ours
<1>f. FwStep => Course'
  BY FwKeeps DEF Protocol
<1> USE DEF Course, Tokens, Calls, Handy, Freeing, Shrinks, Live, Quiet, Indicates,
        Refusable, Confirms
<1>1. ASSUME NEW v \in Vifs, Request(v) PROVE Course'
  BY <1>1, <1>0, <1>c, <1>p DEF Request, elemVars, rxVars, offVars, busVars, oddVars,
      toldVars
<1>2. ASSUME NEW v \in Vifs, Cancel(v) PROVE Course'
  BY <1>2, <1>0, <1>c, <1>p DEF Cancel, Happens, Usual, elemVars, rxVars, offVars,
      oddVars, toldVars
<1>3. ASSUME NEW v \in Vifs, MgmtTx(v) PROVE Course'
  BY <1>3, <1>0, <1>c, <1>p DEF MgmtTx, elemVars, rxVars, offVars, busVars, oddVars,
      toldVars
<1>4. ASSUME NEW v \in Vifs, Close(v) PROVE Course'
  BY <1>4, <1>0, <1>c, <1>p DEF Close, Happens, elemVars, rxVars, offVars, toldVars
<1>5. ASSUME NEW v \in Vifs, Open(v) PROVE Course'
  BY <1>5, <1>0, <1>c, <1>p DEF Open, elemVars, rxVars, offVars, busVars, oddVars,
      toldVars
<1>6. CASE Recheck
  BY <1>6, <1>0, <1>c, <1>p DEF Recheck, Goes, elemVars, opVars, rxVars, offVars,
      busVars, oddVars, toldVars
<1>7. CASE RocInit
  BY <1>7, <1>0, <1>c, <1>p DEF RocInit, rxVars, busVars, oddVars, toldVars
<1>8. CASE RocNoMem
  BY <1>8, <1>0, <1>c, <1>p DEF RocNoMem, Happens, Goes, elemVars, opVars, rxVars,
      offVars, busVars, toldVars
<1>9. CASE Publish
  BY <1>9, <1>0, <1>c, <1>p, <1>k DEF Publish, Goes, opVars, rxVars, offVars, busVars,
      oddVars, toldVars
<1>10. CASE SendRoc
  BY <1>10, <1>0, <1>c, <1>p DEF SendRoc, Happens, Usual, Goes, elemVars, opVars,
      rxVars, offVars, oddVars, toldVars
<1>11. CASE RocDone
  BY <1>11, <1>0, <1>c, <1>p DEF RocDone, Goes, elemVars, opVars, rxVars, offVars,
      busVars, oddVars
<1>12. CASE RocFails
  BY <1>12, <1>0, <1>c, <1>p DEF RocFails, Uses, OffchanDeinit, Goes, opVars, rxVars,
      busVars, oddVars, toldVars
<1>13. CASE MgmtUse
  BY <1>13, <1>0, <1>c, <1>p DEF MgmtUse, Uses, Goes, elemVars, opVars, rxVars,
      offVars, busVars, oddVars, toldVars
<1>14. CASE MgmtMark
  BY <1>14, <1>0, <1>c, <1>p DEF MgmtMark, Uses, Goes, opVars, rxVars, offVars,
      busVars, oddVars, toldVars
<1>15. CASE XmitCheck
  BY <1>15, <1>0, <1>c, <1>p DEF XmitCheck, Goes, elemVars, opVars, rxVars, offVars,
      busVars, oddVars, toldVars
<1>16. CASE XmitQueue
  BY <1>16, <1>0, <1>c, <1>p DEF XmitQueue, Goes, elemVars, opVars, rxVars, busVars,
      toldVars
<1>17. CASE CloseLook
  BY <1>17, <1>0, <1>c, <1>p DEF CloseLook, elemVars, rxVars, offVars, busVars,
      oddVars, toldVars
<1>18. CASE CloseClear
  BY <1>18, <1>0, <1>c, <1>p, <1>k DEF CloseClear, Uses, Goes, opVars, rxVars, offVars,
      busVars, oddVars, toldVars
<1>19. CASE WaitEnds
  BY <1>19, <1>0, <1>c, <1>p DEF WaitEnds, Happens, Goes, elemVars, opVars, rxVars,
      offVars, toldVars
<1>20. CASE AnswerLate
  BY <1>20, <1>0, <1>c, <1>p DEF AnswerLate, Happens, Goes, elemVars, opVars, rxVars,
      offVars, toldVars
<1>21. CASE RxStartCfm
  BY <1>21, <1>0, <1>c, <1>p DEF RxStartCfm, Goes, Receives, elemVars, opVars, cfgVars,
      rxVars, offVars, oddVars, toldVars
<1>22. CASE RxCancelCfm
  BY <1>22, <1>0, <1>c, <1>p DEF RxCancelCfm, Goes, Receives, elemVars, opVars,
      cfgVars, rxVars, offVars, oddVars, toldVars
<1>23. CASE RxRemoveCfm
  BY <1>23, <1>0, <1>c, <1>p DEF RxRemoveCfm, Goes, Receives, elemVars, opVars,
      cfgVars, rxVars, offVars, oddVars, toldVars
<1>24. CASE RxSwitch
  BY <1>24, <1>0, <1>c, <1>p DEF RxSwitch, Uses, OffchanStart, Receives, Tells, opVars,
      cfgVars, rxVars
<1>25. CASE RxExp
  BY <1>25, <1>0, <1>c, <1>p DEF RxExp, Uses, OffchanDeinit, Receives, Tells,
      NextCookie, elemVars, opVars, cfgVars, rxVars, offVars, oddVars
<1>26. CASE RxFree
  BY <1>26, <1>0, <1>c, <1>p DEF RxFree, Uses, opVars, cfgVars, offVars, busVars,
      oddVars, toldVars
<1>27. CASE RxForget
  BY <1>27, <1>0, <1>c, <1>p DEF RxForget, opVars, cfgVars, offVars, busVars, oddVars,
      toldVars
<1>28. CASE FwStart
  BY <1>28, <1>f DEF FwStep
<1>29. CASE FwCancel
  BY <1>29, <1>f DEF FwStep
<1>30. CASE FwRemove
  BY <1>30, <1>f DEF FwStep
<1>31. CASE FwSwitch
  BY <1>31, <1>f DEF FwStep
<1>32. CASE FwExpire
  BY <1>32, <1>f DEF FwStep
<1>33. CASE OffchanTask
  BY <1>33, <1>0, <1>c, <1>p DEF OffchanTask, elemVars, opVars, cfgVars, rxVars,
      busVars, oddVars, toldVars
<1> QED BY <1>1, <1>2, <1>3, <1>4, <1>5, <1>6, <1>7, <1>8, <1>9, <1>10, <1>11, <1>12,
        <1>13, <1>14, <1>15, <1>16, <1>17, <1>18, <1>19, <1>20, <1>21, <1>22, <1>23, <1>24,
        <1>25, <1>26, <1>27, <1>28, <1>29, <1>30, <1>31, <1>32, <1>33 DEF Next, CfgStep,
        RxStep, FwStep

LEMMA ClosingStep ==
    ASSUME Known, oops = "no", oops' = "no", Prompt', Next
    PROVE  Closing'
<1>0. Len(ind) \in Nat /\ (ind # <<>> /\ ind' = Tail(ind) => Shrinks)
  BY Lengths, IndShrinks DEF Known
<1>c. Course /\ Tokens /\ Calls /\ Closing /\ Handy /\ Freeing
  BY DEF Known, Protocol
<1>p. "timeout" \notin past' /\ "early" \notin past'
  BY DEF Prompt
<1>f. FwStep => Closing'
  BY FwKeeps DEF Protocol
<1> USE DEF Closing, Course, Tokens, Calls, Handy, Freeing, Shrinks, Live, Quiet,
        Indicates, Refusable, Confirms, Ours
<1>1. ASSUME NEW v \in Vifs, Request(v) PROVE Closing'
  BY <1>1, <1>0, <1>c, <1>p DEF Request, elemVars, rxVars, offVars, busVars, oddVars,
      toldVars
<1>2. ASSUME NEW v \in Vifs, Cancel(v) PROVE Closing'
  BY <1>2, <1>0, <1>c, <1>p DEF Cancel, Happens, Usual, elemVars, rxVars, offVars,
      oddVars, toldVars
<1>3. ASSUME NEW v \in Vifs, MgmtTx(v) PROVE Closing'
  BY <1>3, <1>0, <1>c, <1>p DEF MgmtTx, elemVars, rxVars, offVars, busVars, oddVars,
      toldVars
<1>4. ASSUME NEW v \in Vifs, Close(v) PROVE Closing'
  BY <1>4, <1>0, <1>c, <1>p DEF Close, Happens, elemVars, rxVars, offVars, toldVars
<1>5. ASSUME NEW v \in Vifs, Open(v) PROVE Closing'
  BY <1>5, <1>0, <1>c, <1>p DEF Open, elemVars, rxVars, offVars, busVars, oddVars,
      toldVars
<1>6. CASE Recheck
  BY <1>6, <1>0, <1>c, <1>p DEF Recheck, Goes, elemVars, opVars, rxVars, offVars,
      busVars, oddVars, toldVars
<1>7. CASE RocInit
  BY <1>7, <1>0, <1>c, <1>p DEF RocInit, rxVars, busVars, oddVars, toldVars
<1>8. CASE RocNoMem
  BY <1>8, <1>0, <1>c, <1>p DEF RocNoMem, Happens, Goes, elemVars, opVars, rxVars,
      offVars, busVars, toldVars
<1>9. CASE Publish
  BY <1>9, <1>0, <1>c, <1>p DEF Publish, Goes, opVars, rxVars, offVars, busVars,
      oddVars, toldVars
<1>10. CASE SendRoc
  BY <1>10, <1>0, <1>c, <1>p DEF SendRoc, Happens, Usual, Goes, elemVars, opVars,
      rxVars, offVars, oddVars, toldVars
<1>11. CASE RocDone
  BY <1>11, <1>0, <1>c, <1>p DEF RocDone, Goes, elemVars, opVars, rxVars, offVars,
      busVars, oddVars
<1>12. CASE RocFails
  BY <1>12, <1>0, <1>c, <1>p DEF RocFails, Uses, OffchanDeinit, Goes, opVars, rxVars,
      busVars, oddVars, toldVars
<1>13. CASE MgmtUse
  BY <1>13, <1>0, <1>c, <1>p DEF MgmtUse, Uses, Goes, elemVars, opVars, rxVars,
      offVars, busVars, oddVars, toldVars
<1>14. CASE MgmtMark
  BY <1>14, <1>0, <1>c, <1>p DEF MgmtMark, Uses, Goes, opVars, rxVars, offVars,
      busVars, oddVars, toldVars
<1>15. CASE XmitCheck
  BY <1>15, <1>0, <1>c, <1>p DEF XmitCheck, Goes, elemVars, opVars, rxVars, offVars,
      busVars, oddVars, toldVars
<1>16. CASE XmitQueue
  BY <1>16, <1>0, <1>c, <1>p DEF XmitQueue, Goes, elemVars, opVars, rxVars, busVars,
      toldVars
<1>17. CASE CloseLook
  BY <1>17, <1>0, <1>c, <1>p DEF CloseLook, elemVars, rxVars, offVars, busVars,
      oddVars, toldVars
<1>18. CASE CloseClear
  BY <1>18, <1>0, <1>c, <1>p DEF CloseClear, Uses, Goes, opVars, rxVars, offVars,
      busVars, oddVars, toldVars
<1>19. CASE WaitEnds
  BY <1>19, <1>0, <1>c, <1>p DEF WaitEnds, Happens, Goes, elemVars, opVars, rxVars,
      offVars, toldVars
<1>20. CASE AnswerLate
  BY <1>20, <1>0, <1>c, <1>p DEF AnswerLate, Happens, Goes, elemVars, opVars, rxVars,
      offVars, toldVars
<1>21. CASE RxStartCfm
  BY <1>21, <1>0, <1>c, <1>p DEF RxStartCfm, Goes, Receives, elemVars, opVars, cfgVars,
      rxVars, offVars, oddVars, toldVars
<1>22. CASE RxCancelCfm
  BY <1>22, <1>0, <1>c, <1>p DEF RxCancelCfm, Goes, Receives, elemVars, opVars,
      cfgVars, rxVars, offVars, oddVars, toldVars
<1>23. CASE RxRemoveCfm
  BY <1>23, <1>0, <1>c, <1>p DEF RxRemoveCfm, Goes, Receives, elemVars, opVars,
      cfgVars, rxVars, offVars, oddVars, toldVars
<1>24. CASE RxSwitch
  BY <1>24, <1>0, <1>c, <1>p DEF RxSwitch, Uses, OffchanStart, Receives, Tells, opVars,
      cfgVars, rxVars
<1>25. CASE RxExp
  BY <1>25, <1>0, <1>c, <1>p DEF RxExp, Uses, OffchanDeinit, Receives, Tells,
      NextCookie, elemVars, opVars, cfgVars, rxVars, offVars, oddVars
<1>26. CASE RxFree
  BY <1>26, <1>0, <1>c, <1>p DEF RxFree, Uses, opVars, cfgVars, offVars, busVars,
      oddVars, toldVars
<1>27. CASE RxForget
  BY <1>27, <1>0, <1>c, <1>p DEF RxForget, opVars, cfgVars, offVars, busVars, oddVars,
      toldVars
<1>28. CASE FwStart
  BY <1>28, <1>f DEF FwStep
<1>29. CASE FwCancel
  BY <1>29, <1>f DEF FwStep
<1>30. CASE FwRemove
  BY <1>30, <1>f DEF FwStep
<1>31. CASE FwSwitch
  BY <1>31, <1>f DEF FwStep
<1>32. CASE FwExpire
  BY <1>32, <1>f DEF FwStep
<1>33. CASE OffchanTask
  BY <1>33, <1>0, <1>c, <1>p DEF OffchanTask, elemVars, opVars, cfgVars, rxVars,
      busVars, oddVars, toldVars
<1> QED BY <1>1, <1>2, <1>3, <1>4, <1>5, <1>6, <1>7, <1>8, <1>9, <1>10, <1>11, <1>12,
        <1>13, <1>14, <1>15, <1>16, <1>17, <1>18, <1>19, <1>20, <1>21, <1>22, <1>23, <1>24,
        <1>25, <1>26, <1>27, <1>28, <1>29, <1>30, <1>31, <1>32, <1>33 DEF Next, CfgStep,
        RxStep, FwStep

LEMMA ProtocolStep ==
    ASSUME Known, oops = "no", oops' = "no", Prompt', Next
    PROVE  Protocol'
BY CallsStep, TokensStep, CourseStep, ClosingStep DEF Protocol

LEMMA PastGrows == Next => past \subseteq past'
<1> SUFFICES ASSUME Next PROVE past \subseteq past'
  OBVIOUS
<1>1. ASSUME NEW v \in Vifs, Request(v) PROVE past \subseteq past'
  BY <1>1 DEF Request, elemVars, rxVars, offVars, busVars, oddVars, toldVars
<1>2. ASSUME NEW v \in Vifs, Cancel(v) PROVE past \subseteq past'
  BY <1>2 DEF Cancel, Happens, Usual, elemVars, rxVars, offVars, oddVars, toldVars
<1>3. ASSUME NEW v \in Vifs, MgmtTx(v) PROVE past \subseteq past'
  BY <1>3 DEF MgmtTx, elemVars, rxVars, offVars, busVars, oddVars, toldVars
<1>4. ASSUME NEW v \in Vifs, Close(v) PROVE past \subseteq past'
  BY <1>4 DEF Close, Happens, elemVars, rxVars, offVars, toldVars
<1>5. ASSUME NEW v \in Vifs, Open(v) PROVE past \subseteq past'
  BY <1>5 DEF Open, elemVars, rxVars, offVars, busVars, oddVars, toldVars
<1>6. CASE Recheck
  BY <1>6 DEF Recheck, Goes, elemVars, opVars, rxVars, offVars, busVars, oddVars,
      toldVars
<1>7. CASE RocInit
  BY <1>7 DEF RocInit, rxVars, busVars, oddVars, toldVars
<1>8. CASE RocNoMem
  BY <1>8 DEF RocNoMem, Happens, Goes, elemVars, opVars, rxVars, offVars, busVars,
      toldVars
<1>9. CASE Publish
  BY <1>9 DEF Publish, Goes, opVars, rxVars, offVars, busVars, oddVars, toldVars
<1>10. CASE SendRoc
  BY <1>10 DEF SendRoc, Happens, Usual, Goes, elemVars, opVars, rxVars, offVars,
      oddVars, toldVars
<1>11. CASE RocDone
  BY <1>11 DEF RocDone, Goes, elemVars, opVars, rxVars, offVars, busVars, oddVars
<1>12. CASE RocFails
  BY <1>12 DEF RocFails, Uses, OffchanDeinit, Goes, opVars, rxVars, busVars, oddVars,
      toldVars
<1>13. CASE MgmtUse
  BY <1>13 DEF MgmtUse, Uses, Goes, elemVars, opVars, rxVars, offVars, busVars,
      oddVars, toldVars
<1>14. CASE MgmtMark
  BY <1>14 DEF MgmtMark, Uses, Goes, opVars, rxVars, offVars, busVars, oddVars,
      toldVars
<1>15. CASE XmitCheck
  BY <1>15 DEF XmitCheck, Goes, elemVars, opVars, rxVars, offVars, busVars, oddVars,
      toldVars
<1>16. CASE XmitQueue
  BY <1>16 DEF XmitQueue, Goes, elemVars, opVars, rxVars, busVars, toldVars
<1>17. CASE CloseLook
  BY <1>17 DEF CloseLook, elemVars, rxVars, offVars, busVars, oddVars, toldVars
<1>18. CASE CloseClear
  BY <1>18 DEF CloseClear, Uses, Goes, opVars, rxVars, offVars, busVars, oddVars,
      toldVars
<1>19. CASE WaitEnds
  BY <1>19 DEF WaitEnds, Happens, Goes, elemVars, opVars, rxVars, offVars, toldVars
<1>20. CASE AnswerLate
  BY <1>20 DEF AnswerLate, Happens, Goes, elemVars, opVars, rxVars, offVars, toldVars
<1>21. CASE RxStartCfm
  BY <1>21 DEF RxStartCfm, Goes, Receives, elemVars, opVars, cfgVars, rxVars, offVars,
      oddVars, toldVars
<1>22. CASE RxCancelCfm
  BY <1>22 DEF RxCancelCfm, Goes, Receives, elemVars, opVars, cfgVars, rxVars, offVars,
      oddVars, toldVars
<1>23. CASE RxRemoveCfm
  BY <1>23 DEF RxRemoveCfm, Goes, Receives, elemVars, opVars, cfgVars, rxVars, offVars,
      oddVars, toldVars
<1>24. CASE RxSwitch
  BY <1>24 DEF RxSwitch, Uses, OffchanStart, Receives, Tells, opVars, cfgVars, rxVars
<1>25. CASE RxExp
  BY <1>25 DEF RxExp, Uses, OffchanDeinit, Receives, Tells, NextCookie, elemVars,
      opVars, cfgVars, rxVars, offVars, oddVars
<1>26. CASE RxFree
  BY <1>26 DEF RxFree, Uses, opVars, cfgVars, offVars, busVars, oddVars, toldVars
<1>27. CASE RxForget
  BY <1>27 DEF RxForget, opVars, cfgVars, offVars, busVars, oddVars, toldVars
<1>28. CASE FwStart
  BY <1>28 DEF FwStart, Usual, Sends, Answers, FwUntouched, StartCfm, elemVars, opVars,
      cfgVars, rxVars, offVars, oddVars, toldVars
<1>29. CASE FwCancel
  BY <1>29 DEF FwCancel, Usual, Sends, Answers, FwUntouched, Msg, elemVars, opVars,
      cfgVars, rxVars, offVars, oddVars, toldVars
<1>30. CASE FwRemove
  BY <1>30 DEF FwRemove, Usual, Sends, Answers, FwUntouched, Msg, elemVars, opVars,
      cfgVars, rxVars, offVars, oddVars, toldVars
<1>31. CASE FwSwitch
  BY <1>31 DEF FwSwitch, Usual, Sends, FwUntouched, Msg, elemVars, opVars, cfgVars,
      rxVars, offVars, oddVars, toldVars
<1>32. CASE FwExpire
  BY <1>32 DEF FwExpire, Happens, Usual, Sends, FwUntouched, Msg, elemVars, opVars,
      cfgVars, rxVars, offVars, oddVars, toldVars
<1>33. CASE OffchanTask
  BY <1>33 DEF OffchanTask, elemVars, opVars, cfgVars, rxVars, busVars, oddVars,
      toldVars
<1> QED BY <1>1, <1>2, <1>3, <1>4, <1>5, <1>6, <1>7, <1>8, <1>9, <1>10, <1>11, <1>12,
        <1>13, <1>14, <1>15, <1>16, <1>17, <1>18, <1>19, <1>20, <1>21, <1>22, <1>23, <1>24,
        <1>25, <1>26, <1>27, <1>28, <1>29, <1>30, <1>31, <1>32, <1>33 DEF Next, CfgStep,
        RxStep, FwStep

-----------------------------------------------------------------------------
(* Cookies *)

Reports == [what : {"ready", "expired"}, cookie : Nat]

\* cfg80211 was told, under the current cookie, that it is on the channel.
Ready == \E k \in DOMAIN reports : reports[k].what = "ready" /\ reports[k].cookie = cookie
Starting == chan # <<>> /\ chan[1].op = "start"
NoSwitch == \A i \in 1..Len(ind) : ind[i].what # "switch"

\* An operation's element has not been returned, or been on the channel, before.
Ages ==
    /\ \A i \in Ids : ret[i] # 0 \/ i \in on_chan =>
          i <= ops /\ (pc \in {"recheck", "init"} => i < ops)
    /\ pc \in {"publish", "send", "wait", "done", "fail"} => ret[cur] = 0
    /\ pc = "publish" => cur \notin on_chan

\* No cookie is from the future, and that of an expired element is over.
Dated ==
    /\ \A i \in Ids : ret[i] <= cookie
    /\ \A n \in DOMAIN reports :
          /\ reports[n].cookie >= 1 /\ reports[n].cookie <= cookie
          /\ reports[n].what = "expired" => reports[n].cookie < cookie

Announced == elem \in on_chan \ mgmt_roc /\ rxpc = "idle" => Ready

\* The current cookie was returned for the current element only.
OneReturn ==
    Prompt /\ past \cap {"slow", "close"} = {} =>
        \A i \in Ids : ret[i] = cookie => i = elem /\ rxpc = "idle"

\* Nothing is ready under the current cookie before the element is on the
\* channel, nor if the firmware refuses it.
NotYet ==
    Prompt /\ "close" \notin past =>
        /\ Ready => elem \in on_chan /\ rxpc = "idle"
        /\ pc \in {"send", "fail"} \/ (pc = "wait" /\ chan # <<>>) => elem \notin on_chan
        /\ \A i \in 1..Len(ind) :
              ind[i].what = "start_cfm" /\ ~ind[i].ok => elem \notin on_chan

\* There is at most one indication to come that it is on the channel, from a
\* command, the firmware or a message, and none once it is ready.
OneSwitch ==
    past \cap {"early", "close"} = {} =>
        /\ Len(chan) <= 1
        /\ Starting => fw = None /\ NoSwitch
        /\ fw # None /\ ~fw.on => NoSwitch
        /\ \A i, j \in 1..Len(ind) :
              ind[i].what = "switch" /\ ind[j].what = "switch" => i = j
        /\ Ready => ~Starting /\ (fw # None => fw.on) /\ NoSwitch

\* The element is one cfg80211 knows the cookie of, or mgmt_tx's, or its
\* operation is under way.
Asked ==
    Prompt /\ "slow" \notin past /\ elem # None /\ rxpc = "idle" =>
        \/ ret[elem] = cookie \/ elem \in mgmt_roc
        \/ /\ cur = elem /\ pc \in {"send", "wait", "done", "fail", "mark"}
           /\ pc = "mark" => mgmt

\* The answer to a request comes before what is indicated of it.
AnswerFirst ==
    Prompt /\ pc = "wait" /\ chan = <<>> =>
        \E k \in 1..Len(ind) :
            /\ ind[k].what = "start_cfm"
            /\ \A i \in 1..(k - 1) : ind[i].what \notin Indicates

Cookies ==
    /\ Ages /\ Dated /\ Announced /\ OneReturn
    /\ NotYet /\ OneSwitch /\ Asked /\ AnswerFirst

\* What is known before a step.
Before ==
    /\ PlainOK /\ BusOK /\ ToldOK /\ Fresh /\ Handy /\ Freeing
    /\ (Prompt => Protocol) /\ Cookies

\* Who changes what the cookies are about.
Frame ==
    /\ ret' = ret \/ RocDone
    /\ cookie' = cookie \/ RxExp
    /\ reports' = reports \/ RxSwitch \/ RxExp
    /\ on_chan' = on_chan \/ RxSwitch
    /\ mgmt_roc' = mgmt_roc \/ MgmtMark
    /\ pc = "done" => RocDone \/ (pc' = pc /\ mgmt' = mgmt)

LEMMA CookieFrame == ASSUME Next PROVE Frame
<1> USE DEF Frame
<1>1. ASSUME NEW v \in Vifs, Request(v) PROVE Frame
  BY <1>1 DEF Request, elemVars, rxVars, offVars, busVars, oddVars, toldVars
<1>2. ASSUME NEW v \in Vifs, Cancel(v) PROVE Frame
  BY <1>2 DEF Cancel, Happens, Usual, elemVars, rxVars, offVars, oddVars, toldVars
<1>3. ASSUME NEW v \in Vifs, MgmtTx(v) PROVE Frame
  BY <1>3 DEF MgmtTx, elemVars, rxVars, offVars, busVars, oddVars, toldVars
<1>4. ASSUME NEW v \in Vifs, Close(v) PROVE Frame
  BY <1>4 DEF Close, Happens, elemVars, rxVars, offVars, toldVars
<1>5. ASSUME NEW v \in Vifs, Open(v) PROVE Frame
  BY <1>5 DEF Open, elemVars, rxVars, offVars, busVars, oddVars, toldVars
<1>6. CASE Recheck
  BY <1>6 DEF Recheck, Goes, elemVars, opVars, rxVars, offVars, busVars, oddVars,
      toldVars
<1>7. CASE RocInit
  BY <1>7 DEF RocInit, rxVars, busVars, oddVars, toldVars
<1>8. CASE RocNoMem
  BY <1>8 DEF RocNoMem, Happens, Goes, elemVars, opVars, rxVars, offVars, busVars,
      toldVars
<1>9. CASE Publish
  BY <1>9 DEF Publish, Goes, opVars, rxVars, offVars, busVars, oddVars, toldVars
<1>10. CASE SendRoc
  BY <1>10 DEF SendRoc, Happens, Usual, Goes, elemVars, opVars, rxVars, offVars,
      oddVars, toldVars
<1>11. CASE RocDone
  BY <1>11 DEF RocDone, Goes, elemVars, opVars, rxVars, offVars, busVars, oddVars
<1>12. CASE RocFails
  BY <1>12 DEF RocFails, Uses, OffchanDeinit, Goes, opVars, rxVars, busVars, oddVars,
      toldVars
<1>13. CASE MgmtUse
  BY <1>13 DEF MgmtUse, Uses, Goes, elemVars, opVars, rxVars, offVars, busVars,
      oddVars, toldVars
<1>14. CASE MgmtMark
  BY <1>14 DEF MgmtMark, Uses, Goes, opVars, rxVars, offVars, busVars, oddVars,
      toldVars
<1>15. CASE XmitCheck
  BY <1>15 DEF XmitCheck, Goes, elemVars, opVars, rxVars, offVars, busVars, oddVars,
      toldVars
<1>16. CASE XmitQueue
  BY <1>16 DEF XmitQueue, Goes, elemVars, opVars, rxVars, busVars, toldVars
<1>17. CASE CloseLook
  BY <1>17 DEF CloseLook, elemVars, rxVars, offVars, busVars, oddVars, toldVars
<1>18. CASE CloseClear
  BY <1>18 DEF CloseClear, Uses, Goes, opVars, rxVars, offVars, busVars, oddVars,
      toldVars
<1>19. CASE WaitEnds
  BY <1>19 DEF WaitEnds, Happens, Goes, elemVars, opVars, rxVars, offVars, toldVars
<1>20. CASE AnswerLate
  BY <1>20 DEF AnswerLate, Happens, Goes, elemVars, opVars, rxVars, offVars, toldVars
<1>21. CASE RxStartCfm
  BY <1>21 DEF RxStartCfm, Goes, Receives, elemVars, opVars, cfgVars, rxVars, offVars,
      oddVars, toldVars
<1>22. CASE RxCancelCfm
  BY <1>22 DEF RxCancelCfm, Goes, Receives, elemVars, opVars, cfgVars, rxVars, offVars,
      oddVars, toldVars
<1>23. CASE RxRemoveCfm
  BY <1>23 DEF RxRemoveCfm, Goes, Receives, elemVars, opVars, cfgVars, rxVars, offVars,
      oddVars, toldVars
<1>24. CASE RxSwitch
  BY <1>24 DEF RxSwitch, Uses, OffchanStart, Receives, Tells, opVars, cfgVars, rxVars
<1>25. CASE RxExp
  BY <1>25 DEF RxExp, Uses, OffchanDeinit, Receives, Tells, NextCookie, elemVars,
      opVars, cfgVars, rxVars, offVars, oddVars
<1>26. CASE RxFree
  BY <1>26 DEF RxFree, Uses, opVars, cfgVars, offVars, busVars, oddVars, toldVars
<1>27. CASE RxForget
  BY <1>27 DEF RxForget, opVars, cfgVars, offVars, busVars, oddVars, toldVars
<1>28. CASE FwStart
  BY <1>28 DEF FwStart, Usual, Sends, Answers, FwUntouched, StartCfm, elemVars, opVars,
      cfgVars, rxVars, offVars, oddVars, toldVars
<1>29. CASE FwCancel
  BY <1>29 DEF FwCancel, Usual, Sends, Answers, FwUntouched, Msg, elemVars, opVars,
      cfgVars, rxVars, offVars, oddVars, toldVars
<1>30. CASE FwRemove
  BY <1>30 DEF FwRemove, Usual, Sends, Answers, FwUntouched, Msg, elemVars, opVars,
      cfgVars, rxVars, offVars, oddVars, toldVars
<1>31. CASE FwSwitch
  BY <1>31 DEF FwSwitch, Usual, Sends, FwUntouched, Msg, elemVars, opVars, cfgVars,
      rxVars, offVars, oddVars, toldVars
<1>32. CASE FwExpire
  BY <1>32 DEF FwExpire, Happens, Usual, Sends, FwUntouched, Msg, elemVars, opVars,
      cfgVars, rxVars, offVars, oddVars, toldVars
<1>33. CASE OffchanTask
  BY <1>33 DEF OffchanTask, elemVars, opVars, cfgVars, rxVars, busVars, oddVars,
      toldVars
<1> QED BY <1>1, <1>2, <1>3, <1>4, <1>5, <1>6, <1>7, <1>8, <1>9, <1>10, <1>11, <1>12,
        <1>13, <1>14, <1>15, <1>16, <1>17, <1>18, <1>19, <1>20, <1>21, <1>22, <1>23, <1>24,
        <1>25, <1>26, <1>27, <1>28, <1>29, <1>30, <1>31, <1>32, <1>33 DEF Next, CfgStep,
        RxStep, FwStep

More(x) ==
    /\ Len(reports) \in Nat /\ DOMAIN reports = 1..Len(reports)
    /\ DOMAIN reports' = 1..(Len(reports) + 1)
    /\ \A n \in 1..Len(reports) : reports'[n] = reports[n]
    /\ reports'[Len(reports) + 1] = [what |-> x, cookie |-> cookie]

LEMMA ReportsGrow == ASSUME ToldOK, NEW x, Tells(x) PROVE More(x)
<1>1. reports \in Seq(Reports)
  BY DEF ToldOK, Reports
<1> QED BY <1>1 DEF Tells, More

LEMMA ReportTypes ==
    ASSUME ToldOK
    PROVE  /\ Len(reports) \in Nat /\ DOMAIN reports = 1..Len(reports)
           /\ \A n \in DOMAIN reports : reports[n] \in Reports /\ reports[n].cookie \in Nat
<1>1. reports \in Seq(Reports)
  BY DEF ToldOK, Reports
<1>2. \A n \in DOMAIN reports : reports[n] \in Reports
  BY <1>1
<1> QED BY <1>1, <1>2 DEF Reports

LEMMA SameReport ==
    ASSUME NEW r \in Reports, NEW s \in Reports
    PROVE  r.what = "ready" /\ r.cookie = s.cookie => r = [s EXCEPT !.what = "ready"]
BY DEF Reports

LEMMA ReadyStays == reports' = reports /\ cookie' = cookie => (Ready' <=> Ready)
BY DEF Ready

LEMMA ReadyTold == ASSUME ToldOK, Tells("ready"), cookie' = cookie PROVE Ready'
<1>1. More("ready")
  BY ReportsGrow
<1>2. /\ Len(reports) + 1 \in DOMAIN reports'
      /\ reports'[Len(reports) + 1].what = "ready"
      /\ reports'[Len(reports) + 1].cookie = cookie'
  BY <1>1 DEF More
<1> QED BY <1>2 DEF Ready

LEMMA AgesStep ==
    ASSUME PlainOK, Fresh, Handy, Ages, oops = "no", Next PROVE Ages'
<1> USE NoneApart DEF PlainOK, ElemOK, OpOK, Fresh, Handy, Ages, Ids
<1>1. ASSUME NEW v \in Vifs, Request(v) PROVE Ages'
  BY <1>1 DEF Request, elemVars, rxVars, offVars, busVars, oddVars, toldVars
<1>2. ASSUME NEW v \in Vifs, Cancel(v) PROVE Ages'
  BY <1>2 DEF Cancel, Happens, Usual, elemVars, rxVars, offVars, oddVars, toldVars
<1>3. ASSUME NEW v \in Vifs, MgmtTx(v) PROVE Ages'
  BY <1>3 DEF MgmtTx, elemVars, rxVars, offVars, busVars, oddVars, toldVars
<1>4. ASSUME NEW v \in Vifs, Close(v) PROVE Ages'
  BY <1>4 DEF Close, Happens, elemVars, rxVars, offVars, toldVars
<1>5. ASSUME NEW v \in Vifs, Open(v) PROVE Ages'
  BY <1>5 DEF Open, elemVars, rxVars, offVars, busVars, oddVars, toldVars
<1>6. CASE Recheck
  BY <1>6 DEF Recheck, Goes, elemVars, opVars, rxVars, offVars, busVars, oddVars,
      toldVars
<1>7. CASE RocInit
  BY <1>7 DEF RocInit, rxVars, busVars, oddVars, toldVars
<1>8. CASE RocNoMem
  BY <1>8 DEF RocNoMem, Happens, Goes, elemVars, opVars, rxVars, offVars, busVars,
      toldVars
<1>9. CASE Publish
  BY <1>9 DEF Publish, Goes, opVars, rxVars, offVars, busVars, oddVars, toldVars
<1>10. CASE SendRoc
  BY <1>10 DEF SendRoc, Happens, Usual, Goes, elemVars, opVars, rxVars, offVars,
      oddVars, toldVars
<1>11. CASE RocDone
  BY <1>11 DEF RocDone, Goes, elemVars, opVars, rxVars, offVars, busVars, oddVars
<1>12. CASE RocFails
  BY <1>12 DEF RocFails, Uses, OffchanDeinit, Goes, opVars, rxVars, busVars, oddVars,
      toldVars
<1>13. CASE MgmtUse
  BY <1>13 DEF MgmtUse, Uses, Goes, elemVars, opVars, rxVars, offVars, busVars,
      oddVars, toldVars
<1>14. CASE MgmtMark
  BY <1>14 DEF MgmtMark, Uses, Goes, opVars, rxVars, offVars, busVars, oddVars,
      toldVars
<1>15. CASE XmitCheck
  BY <1>15 DEF XmitCheck, Goes, elemVars, opVars, rxVars, offVars, busVars, oddVars,
      toldVars
<1>16. CASE XmitQueue
  BY <1>16 DEF XmitQueue, Goes, elemVars, opVars, rxVars, busVars, toldVars
<1>17. CASE CloseLook
  BY <1>17 DEF CloseLook, elemVars, rxVars, offVars, busVars, oddVars, toldVars
<1>18. CASE CloseClear
  BY <1>18 DEF CloseClear, Uses, Goes, opVars, rxVars, offVars, busVars, oddVars,
      toldVars
<1>19. CASE WaitEnds
  BY <1>19 DEF WaitEnds, Happens, Goes, elemVars, opVars, rxVars, offVars, toldVars
<1>20. CASE AnswerLate
  BY <1>20 DEF AnswerLate, Happens, Goes, elemVars, opVars, rxVars, offVars, toldVars
<1>21. CASE RxStartCfm
  BY <1>21 DEF RxStartCfm, Goes, Receives, elemVars, opVars, cfgVars, rxVars, offVars,
      oddVars, toldVars
<1>22. CASE RxCancelCfm
  BY <1>22 DEF RxCancelCfm, Goes, Receives, elemVars, opVars, cfgVars, rxVars, offVars,
      oddVars, toldVars
<1>23. CASE RxRemoveCfm
  BY <1>23 DEF RxRemoveCfm, Goes, Receives, elemVars, opVars, cfgVars, rxVars, offVars,
      oddVars, toldVars
<1>24. CASE RxSwitch
  BY <1>24 DEF RxSwitch, Uses, OffchanStart, Receives, Tells, opVars, cfgVars, rxVars
<1>25. CASE RxExp
  BY <1>25 DEF RxExp, Uses, OffchanDeinit, Receives, Tells, NextCookie, elemVars,
      opVars, cfgVars, rxVars, offVars, oddVars
<1>26. CASE RxFree
  BY <1>26 DEF RxFree, Uses, opVars, cfgVars, offVars, busVars, oddVars, toldVars
<1>27. CASE RxForget
  BY <1>27 DEF RxForget, opVars, cfgVars, offVars, busVars, oddVars, toldVars
<1>28. CASE FwStart
  BY <1>28 DEF FwStart, Usual, Sends, Answers, FwUntouched, StartCfm, elemVars, opVars,
      cfgVars, rxVars, offVars, oddVars, toldVars
<1>29. CASE FwCancel
  BY <1>29 DEF FwCancel, Usual, Sends, Answers, FwUntouched, Msg, elemVars, opVars,
      cfgVars, rxVars, offVars, oddVars, toldVars
<1>30. CASE FwRemove
  BY <1>30 DEF FwRemove, Usual, Sends, Answers, FwUntouched, Msg, elemVars, opVars,
      cfgVars, rxVars, offVars, oddVars, toldVars
<1>31. CASE FwSwitch
  BY <1>31 DEF FwSwitch, Usual, Sends, FwUntouched, Msg, elemVars, opVars, cfgVars,
      rxVars, offVars, oddVars, toldVars
<1>32. CASE FwExpire
  BY <1>32 DEF FwExpire, Happens, Usual, Sends, FwUntouched, Msg, elemVars, opVars,
      cfgVars, rxVars, offVars, oddVars, toldVars
<1>33. CASE OffchanTask
  BY <1>33 DEF OffchanTask, elemVars, opVars, cfgVars, rxVars, busVars, oddVars,
      toldVars
<1> QED BY <1>1, <1>2, <1>3, <1>4, <1>5, <1>6, <1>7, <1>8, <1>9, <1>10, <1>11, <1>12,
        <1>13, <1>14, <1>15, <1>16, <1>17, <1>18, <1>19, <1>20, <1>21, <1>22, <1>23, <1>24,
        <1>25, <1>26, <1>27, <1>28, <1>29, <1>30, <1>31, <1>32, <1>33 DEF Next, CfgStep,
        RxStep, FwStep

LEMMA DatedStep ==
    ASSUME PlainOK, ToldOK, Dated, Next PROVE Dated'
<1>0. /\ cookie \in Nat /\ cookie >= 1 /\ ret \in [Ids -> Nat]
      /\ \A n \in DOMAIN reports : reports[n].cookie \in Nat
  BY ReportTypes DEF PlainOK, ElemOK, OpOK
<1>1. CASE RocDone
  <2>1. UNCHANGED <<cookie, reports>> /\ ret' \in {ret, [ret EXCEPT ![cur] = cookie]}
    BY <1>1 DEF RocDone
  <2> QED BY <1>0, <2>1 DEF Dated
<1>2. CASE RxSwitch
  <2>1. UNCHANGED <<cookie, ret>> /\ (reports' = reports \/ Tells("ready"))
    BY <1>2 DEF RxSwitch
  <2>2. CASE reports' = reports
    BY <2>1, <2>2 DEF Dated
  <2>3. CASE Tells("ready")
    <3>1. More("ready")
      BY <2>3, ReportsGrow
    <3> QED BY <1>0, <2>1, <3>1 DEF Dated, More
  <2> QED BY <2>1, <2>2, <2>3
<1>3. CASE RxExp
  <2>1. /\ ret' = ret
        /\ \/ UNCHANGED <<cookie, reports>>
           \/ cookie' = cookie + 1 /\ (reports' = reports \/ Tells("expired"))
    BY <1>3 DEF RxExp, NextCookie
  <2>2. CASE UNCHANGED <<cookie, reports>>
    BY <2>1, <2>2 DEF Dated
  <2>3. CASE cookie' = cookie + 1 /\ reports' = reports
    BY <1>0, <2>1, <2>3 DEF Dated
  <2>4. CASE cookie' = cookie + 1 /\ Tells("expired")
    <3>1. More("expired")
      BY <2>4, ReportsGrow
    <3> QED BY <1>0, <2>1, <2>4, <3>1 DEF Dated, More
  <2> QED BY <2>1, <2>2, <2>3, <2>4
<1>4. CASE UNCHANGED <<ret, cookie, reports>>
  BY <1>4 DEF Dated
<1> QED BY <1>1, <1>2, <1>3, <1>4, CookieFrame DEF Frame

LEMMA AnnouncedStep ==
    ASSUME PlainOK, ToldOK, Fresh, Handy, Freeing, Ages, Announced, oops = "no", Next
    PROVE  Announced'
<1>0. None \notin heap /\ None \notin on_chan
  <2>1. None \notin Ids
    BY NoneApart DEF Ids
  <2> QED BY <2>1 DEF PlainOK, ElemOK
<1>r. reports' = reports /\ cookie' = cookie => (Ready' <=> Ready)
  BY ReadyStays
<1>s. RxSwitch /\ elem # None /\ elem \notin mgmt_roc => Ready'
  BY ReadyTold DEF RxSwitch
<1>n. None \notin on_chan'
  <2>1. on_chan' = on_chan \/ (elem # None /\ on_chan' = on_chan \cup {elem})
    BY CookieFrame DEF Frame, RxSwitch
  <2> QED BY <1>0, <2>1
<1> USE DEF Announced, Ages, Handy
<1>1. ASSUME NEW v \in Vifs, Request(v) PROVE Announced'
  BY <1>1, <1>0, <1>n, <1>r DEF Request, elemVars, rxVars, offVars, busVars, oddVars,
      toldVars
<1>2. ASSUME NEW v \in Vifs, Cancel(v) PROVE Announced'
  BY <1>2, <1>0, <1>n, <1>r DEF Cancel, Happens, Usual, elemVars, rxVars, offVars,
      oddVars, toldVars
<1>3. ASSUME NEW v \in Vifs, MgmtTx(v) PROVE Announced'
  BY <1>3, <1>0, <1>n, <1>r DEF MgmtTx, elemVars, rxVars, offVars, busVars, oddVars,
      toldVars
<1>4. ASSUME NEW v \in Vifs, Close(v) PROVE Announced'
  BY <1>4, <1>0, <1>n, <1>r DEF Close, Happens, elemVars, rxVars, offVars, toldVars
<1>5. ASSUME NEW v \in Vifs, Open(v) PROVE Announced'
  BY <1>5, <1>0, <1>n, <1>r DEF Open, elemVars, rxVars, offVars, busVars, oddVars,
      toldVars
<1>6. CASE Recheck
  BY <1>6, <1>0, <1>n, <1>r DEF Recheck, Goes, elemVars, opVars, rxVars, offVars,
      busVars, oddVars, toldVars
<1>7. CASE RocInit
  BY <1>7, <1>0, <1>n, <1>r DEF RocInit, rxVars, busVars, oddVars, toldVars
<1>8. CASE RocNoMem
  BY <1>8, <1>0, <1>n, <1>r DEF RocNoMem, Happens, Goes, elemVars, opVars, rxVars,
      offVars, busVars, toldVars
<1>9. CASE Publish
  BY <1>9, <1>0, <1>n, <1>r DEF Publish, Goes, opVars, rxVars, offVars, busVars,
      oddVars, toldVars
<1>10. CASE SendRoc
  BY <1>10, <1>0, <1>n, <1>r DEF SendRoc, Happens, Usual, Goes, elemVars, opVars,
      rxVars, offVars, oddVars, toldVars
<1>11. CASE RocDone
  BY <1>11, <1>0, <1>n, <1>r DEF RocDone, Goes, elemVars, opVars, rxVars, offVars,
      busVars, oddVars
<1>12. CASE RocFails
  BY <1>12, <1>0, <1>n, <1>r DEF RocFails, Uses, OffchanDeinit, Goes, opVars, rxVars,
      busVars, oddVars, toldVars
<1>13. CASE MgmtUse
  BY <1>13, <1>0, <1>n, <1>r DEF MgmtUse, Uses, Goes, elemVars, opVars, rxVars,
      offVars, busVars, oddVars, toldVars
<1>14. CASE MgmtMark
  BY <1>14, <1>0, <1>n, <1>r DEF MgmtMark, Uses, Goes, opVars, rxVars, offVars,
      busVars, oddVars, toldVars
<1>15. CASE XmitCheck
  BY <1>15, <1>0, <1>n, <1>r DEF XmitCheck, Goes, elemVars, opVars, rxVars, offVars,
      busVars, oddVars, toldVars
<1>16. CASE XmitQueue
  BY <1>16, <1>0, <1>n, <1>r DEF XmitQueue, Goes, elemVars, opVars, rxVars, busVars,
      toldVars
<1>17. CASE CloseLook
  BY <1>17, <1>0, <1>n, <1>r DEF CloseLook, elemVars, rxVars, offVars, busVars,
      oddVars, toldVars
<1>18. CASE CloseClear
  BY <1>18, <1>0, <1>n, <1>r DEF CloseClear, Uses, Goes, opVars, rxVars, offVars,
      busVars, oddVars, toldVars
<1>19. CASE WaitEnds
  BY <1>19, <1>0, <1>n, <1>r DEF WaitEnds, Happens, Goes, elemVars, opVars, rxVars,
      offVars, toldVars
<1>20. CASE AnswerLate
  BY <1>20, <1>0, <1>n, <1>r DEF AnswerLate, Happens, Goes, elemVars, opVars, rxVars,
      offVars, toldVars
<1>21. CASE RxStartCfm
  BY <1>21, <1>0, <1>n, <1>r DEF RxStartCfm, Goes, Receives, elemVars, opVars, cfgVars,
      rxVars, offVars, oddVars, toldVars
<1>22. CASE RxCancelCfm
  BY <1>22, <1>0, <1>n, <1>r DEF RxCancelCfm, Goes, Receives, elemVars, opVars,
      cfgVars, rxVars, offVars, oddVars, toldVars
<1>23. CASE RxRemoveCfm
  BY <1>23, <1>0, <1>n, <1>r DEF RxRemoveCfm, Goes, Receives, elemVars, opVars,
      cfgVars, rxVars, offVars, oddVars, toldVars
<1>24. CASE RxSwitch
  BY <1>24, <1>0, <1>n, <1>r, <1>s DEF RxSwitch, Uses, OffchanStart, Receives, Tells,
      opVars, cfgVars, rxVars
<1>25. CASE RxExp
  BY <1>25, <1>0, <1>n, <1>r DEF RxExp, Uses, OffchanDeinit, Receives, Tells,
      NextCookie, elemVars, opVars, cfgVars, rxVars, offVars, oddVars
<1>26. CASE RxFree
  BY <1>26, <1>0, <1>n, <1>r DEF RxFree, Uses, opVars, cfgVars, offVars, busVars,
      oddVars, toldVars
<1>27. CASE RxForget
  BY <1>27, <1>0, <1>n, <1>r DEF RxForget, opVars, cfgVars, offVars, busVars, oddVars,
      toldVars
<1>28. CASE FwStart
  BY <1>28, <1>0, <1>n, <1>r DEF FwStart, Usual, Sends, Answers, FwUntouched, StartCfm,
      elemVars, opVars, cfgVars, rxVars, offVars, oddVars, toldVars
<1>29. CASE FwCancel
  BY <1>29, <1>0, <1>n, <1>r DEF FwCancel, Usual, Sends, Answers, FwUntouched, Msg,
      elemVars, opVars, cfgVars, rxVars, offVars, oddVars, toldVars
<1>30. CASE FwRemove
  BY <1>30, <1>0, <1>n, <1>r DEF FwRemove, Usual, Sends, Answers, FwUntouched, Msg,
      elemVars, opVars, cfgVars, rxVars, offVars, oddVars, toldVars
<1>31. CASE FwSwitch
  BY <1>31, <1>0, <1>n, <1>r DEF FwSwitch, Usual, Sends, FwUntouched, Msg, elemVars,
      opVars, cfgVars, rxVars, offVars, oddVars, toldVars
<1>32. CASE FwExpire
  BY <1>32, <1>0, <1>n, <1>r DEF FwExpire, Happens, Usual, Sends, FwUntouched, Msg,
      elemVars, opVars, cfgVars, rxVars, offVars, oddVars, toldVars
<1>33. CASE OffchanTask
  BY <1>33, <1>0, <1>n, <1>r DEF OffchanTask, elemVars, opVars, cfgVars, rxVars,
      busVars, oddVars, toldVars
<1> QED BY <1>1, <1>2, <1>3, <1>4, <1>5, <1>6, <1>7, <1>8, <1>9, <1>10, <1>11, <1>12,
        <1>13, <1>14, <1>15, <1>16, <1>17, <1>18, <1>19, <1>20, <1>21, <1>22, <1>23, <1>24,
        <1>25, <1>26, <1>27, <1>28, <1>29, <1>30, <1>31, <1>32, <1>33 DEF Next, CfgStep,
        RxStep, FwStep

\* What the protocol says of the end of an operation.
LEMMA Ending ==
    ASSUME Before, Prompt
    PROVE  /\ pc = "fail" => elem = cur
           /\ "slow" \notin past /\ pc = "done" =>
                /\ elem = cur /\ rxpc = "idle"
                /\ \A i \in 1..Len(ind) : ind[i].what # "exp"
BY DEF Before, Protocol, Course, Tokens, Refusable, Live

LEMMA OneReturnStep ==
    ASSUME Before, oops = "no", Next
    PROVE  OneReturn'
<1>0. /\ OneReturn /\ cookie \in Nat /\ cookie >= 1 /\ cookie + 1 > cookie
      /\ ret \in [Ids -> Nat] /\ \A i \in Ids : ret[i] <= cookie
      /\ pc \in {"publish", "send", "wait", "done", "fail"} => ret[cur] = 0
      /\ pc = "publish" => elem = None
      /\ None \notin Ids
  BY NoneApart DEF Before, Cookies, PlainOK, ElemOK, OpOK, Dated, Ages, Handy, Ids
<1>p. past \subseteq past'
  BY PastGrows
<1>e. Prompt =>
        /\ pc = "fail" => elem = cur
        /\ "slow" \notin past /\ pc = "done" => elem = cur /\ rxpc = "idle"
  BY Ending
<1>c. pc = "clear" => "close" \in past
  BY DEF Before, Handy
<1> USE DEF OneReturn, Prompt
<1>1. ASSUME NEW v \in Vifs, Request(v) PROVE OneReturn'
  BY <1>1, <1>0, <1>p, <1>e, <1>c DEF Request, elemVars, rxVars, offVars, busVars,
      oddVars, toldVars
<1>2. ASSUME NEW v \in Vifs, Cancel(v) PROVE OneReturn'
  BY <1>2, <1>0, <1>p, <1>e, <1>c DEF Cancel, Happens, Usual, elemVars, rxVars,
      offVars, oddVars, toldVars
<1>3. ASSUME NEW v \in Vifs, MgmtTx(v) PROVE OneReturn'
  BY <1>3, <1>0, <1>p, <1>e, <1>c DEF MgmtTx, elemVars, rxVars, offVars, busVars,
      oddVars, toldVars
<1>4. ASSUME NEW v \in Vifs, Close(v) PROVE OneReturn'
  BY <1>4, <1>0, <1>p, <1>e, <1>c DEF Close, Happens, elemVars, rxVars, offVars,
      toldVars
<1>5. ASSUME NEW v \in Vifs, Open(v) PROVE OneReturn'
  BY <1>5, <1>0, <1>p, <1>e, <1>c DEF Open, elemVars, rxVars, offVars, busVars,
      oddVars, toldVars
<1>6. CASE Recheck
  BY <1>6, <1>0, <1>p, <1>e, <1>c DEF Recheck, Goes, elemVars, opVars, rxVars, offVars,
      busVars, oddVars, toldVars
<1>7. CASE RocInit
  BY <1>7, <1>0, <1>p, <1>e, <1>c DEF RocInit, rxVars, busVars, oddVars, toldVars
<1>8. CASE RocNoMem
  BY <1>8, <1>0, <1>p, <1>e, <1>c DEF RocNoMem, Happens, Goes, elemVars, opVars,
      rxVars, offVars, busVars, toldVars
<1>9. CASE Publish
  BY <1>9, <1>0, <1>p, <1>e, <1>c DEF Publish, Goes, opVars, rxVars, offVars, busVars,
      oddVars, toldVars
<1>10. CASE SendRoc
  BY <1>10, <1>0, <1>p, <1>e, <1>c DEF SendRoc, Happens, Usual, Goes, elemVars, opVars,
      rxVars, offVars, oddVars, toldVars
<1>11. CASE RocDone
  <2>1. /\ ret' \in {ret, [ret EXCEPT ![cur] = cookie]} /\ pc = "done"
        /\ UNCHANGED <<cookie, elem, rxpc, past>>
    BY <1>11 DEF RocDone, elemVars, rxVars, oddVars
  <2>2. ASSUME Prompt', past' \cap {"slow", "close"} = {}
        PROVE  elem = cur /\ rxpc = "idle" /\ \A i \in Ids : ret[i] = cookie => i = elem
    <3>1. Prompt /\ "slow" \notin past
      BY <2>1, <2>2
    <3> QED BY <1>0, <1>e, <2>1, <2>2, <3>1
  <2> QED BY <1>0, <2>1, <2>2
<1>12. CASE RocFails
  <2>1. UNCHANGED <<ret, cookie, past>> /\ pc = "fail"
    BY <1>12 DEF RocFails, toldVars, oddVars
  <2>2. ASSUME Prompt', past' \cap {"slow", "close"} = {}, NEW i \in Ids
        PROVE  ret'[i] # cookie'
    <3>1. elem = cur /\ ret[cur] = 0
      BY <1>0, <1>e, <2>1, <2>2
    <3> QED BY <1>0, <2>1, <2>2, <3>1
  <2> QED BY <2>2
<1>13. CASE MgmtUse
  BY <1>13, <1>0, <1>p, <1>e, <1>c DEF MgmtUse, Uses, Goes, elemVars, opVars, rxVars,
      offVars, busVars, oddVars, toldVars
<1>14. CASE MgmtMark
  BY <1>14, <1>0, <1>p, <1>e, <1>c DEF MgmtMark, Uses, Goes, opVars, rxVars, offVars,
      busVars, oddVars, toldVars
<1>15. CASE XmitCheck
  BY <1>15, <1>0, <1>p, <1>e, <1>c DEF XmitCheck, Goes, elemVars, opVars, rxVars,
      offVars, busVars, oddVars, toldVars
<1>16. CASE XmitQueue
  BY <1>16, <1>0, <1>p, <1>e, <1>c DEF XmitQueue, Goes, elemVars, opVars, rxVars,
      busVars, toldVars
<1>17. CASE CloseLook
  BY <1>17, <1>0, <1>p, <1>e, <1>c DEF CloseLook, elemVars, rxVars, offVars, busVars,
      oddVars, toldVars
<1>18. CASE CloseClear
  BY <1>18, <1>0, <1>p, <1>e, <1>c DEF CloseClear, Uses, Goes, opVars, rxVars, offVars,
      busVars, oddVars, toldVars
<1>19. CASE WaitEnds
  BY <1>19, <1>0, <1>p, <1>e, <1>c DEF WaitEnds, Happens, Goes, elemVars, opVars,
      rxVars, offVars, toldVars
<1>20. CASE AnswerLate
  BY <1>20, <1>0, <1>p, <1>e, <1>c DEF AnswerLate, Happens, Goes, elemVars, opVars,
      rxVars, offVars, toldVars
<1>21. CASE RxStartCfm
  BY <1>21, <1>0, <1>p, <1>e, <1>c DEF RxStartCfm, Goes, Receives, elemVars, opVars,
      cfgVars, rxVars, offVars, oddVars, toldVars
<1>22. CASE RxCancelCfm
  BY <1>22, <1>0, <1>p, <1>e, <1>c DEF RxCancelCfm, Goes, Receives, elemVars, opVars,
      cfgVars, rxVars, offVars, oddVars, toldVars
<1>23. CASE RxRemoveCfm
  BY <1>23, <1>0, <1>p, <1>e, <1>c DEF RxRemoveCfm, Goes, Receives, elemVars, opVars,
      cfgVars, rxVars, offVars, oddVars, toldVars
<1>24. CASE RxSwitch
  BY <1>24, <1>0, <1>p, <1>e, <1>c DEF RxSwitch, Uses, OffchanStart, Receives, Tells,
      opVars, cfgVars, rxVars
<1>25. CASE RxExp
  BY <1>25, <1>0, <1>p, <1>e, <1>c DEF RxExp, Uses, OffchanDeinit, Receives, Tells,
      NextCookie, elemVars, opVars, cfgVars, rxVars, offVars, oddVars
<1>26. CASE RxFree
  BY <1>26, <1>0, <1>p, <1>e, <1>c DEF RxFree, Uses, opVars, cfgVars, offVars, busVars,
      oddVars, toldVars
<1>27. CASE RxForget
  BY <1>27, <1>0, <1>p, <1>e, <1>c DEF RxForget, opVars, cfgVars, offVars, busVars,
      oddVars, toldVars
<1>28. CASE FwStart
  BY <1>28, <1>0, <1>p, <1>e, <1>c DEF FwStart, Usual, Sends, Answers, FwUntouched,
      StartCfm, elemVars, opVars, cfgVars, rxVars, offVars, oddVars, toldVars
<1>29. CASE FwCancel
  BY <1>29, <1>0, <1>p, <1>e, <1>c DEF FwCancel, Usual, Sends, Answers, FwUntouched,
      Msg, elemVars, opVars, cfgVars, rxVars, offVars, oddVars, toldVars
<1>30. CASE FwRemove
  BY <1>30, <1>0, <1>p, <1>e, <1>c DEF FwRemove, Usual, Sends, Answers, FwUntouched,
      Msg, elemVars, opVars, cfgVars, rxVars, offVars, oddVars, toldVars
<1>31. CASE FwSwitch
  BY <1>31, <1>0, <1>p, <1>e, <1>c DEF FwSwitch, Usual, Sends, FwUntouched, Msg,
      elemVars, opVars, cfgVars, rxVars, offVars, oddVars, toldVars
<1>32. CASE FwExpire
  BY <1>32, <1>0, <1>p, <1>e, <1>c DEF FwExpire, Happens, Usual, Sends, FwUntouched,
      Msg, elemVars, opVars, cfgVars, rxVars, offVars, oddVars, toldVars
<1>33. CASE OffchanTask
  BY <1>33, <1>0, <1>p, <1>e, <1>c DEF OffchanTask, elemVars, opVars, cfgVars, rxVars,
      busVars, oddVars, toldVars
<1> QED BY <1>1, <1>2, <1>3, <1>4, <1>5, <1>6, <1>7, <1>8, <1>9, <1>10, <1>11, <1>12,
        <1>13, <1>14, <1>15, <1>16, <1>17, <1>18, <1>19, <1>20, <1>21, <1>22, <1>23, <1>24,
        <1>25, <1>26, <1>27, <1>28, <1>29, <1>30, <1>31, <1>32, <1>33 DEF Next, CfgStep,
        RxStep, FwStep

LEMMA ReturnsStep ==
    ASSUME Before, ReturnsDiffer, oops = "no", Next
    PROVE  ReturnsDiffer'
<1>1. past \subseteq past'
  BY PastGrows
<1>2. CASE ret' = ret
  BY <1>1, <1>2 DEF ReturnsDiffer
<1>3. CASE RocDone
  <2>1. /\ ret' \in {ret, [ret EXCEPT ![cur] = cookie]} /\ past' = past
        /\ ret \in [Ids -> Nat] /\ pc = "done" /\ ~crashed
    BY <1>3 DEF RocDone, oddVars, Before, PlainOK, OpOK, Handy
  <2>2. "timeout" \notin past
    BY <2>1 DEF Before, Handy
  <2>3. ASSUME past \cap {"early", "slow", "close"} = {}
        PROVE  \A i \in Ids : ret[i] = cookie => i = cur
    <3>1. Prompt
      BY <2>2, <2>3 DEF Prompt
    <3>2. elem = cur
      BY <2>1, <2>3, <3>1, Ending
    <3> QED BY <2>3, <3>1, <3>2 DEF Before, Cookies, OneReturn
  <2> QED BY <2>1, <2>3 DEF ReturnsDiffer
<1> QED BY <1>2, <1>3, CookieFrame DEF Frame

\* A switch is announced by FwSwitch, a request answered by FwStart.
LEMMA OldMessages ==
    ASSUME BusOK, FwStep
    PROVE  /\ Len(ind) \in Nat
           /\ ~FwSwitch => \A i \in 1..Len(ind') :
                ind'[i].what = "switch" => i \in 1..Len(ind) /\ ind'[i] = ind[i]
           /\ ~FwStart => \A i \in 1..Len(ind') :
                ind'[i].what = "start_cfm" => i \in 1..Len(ind) /\ ind'[i] = ind[i]
<1> DEFINE Old(w) == \A i \in 1..Len(ind') :
             ind'[i].what = w => i \in 1..Len(ind) /\ ind'[i] = ind[i]
<1>0. Len(ind) \in Nat
  BY Lengths
<1>1. ASSUME NEW m, Grows(m), NEW w, m.what # w PROVE Old(w)
  BY <1>0, <1>1 DEF Grows
<1>2. ASSUME NEW m, NEW n, GrowsTwo(m, n), NEW w, m.what # w, n.what # w PROVE Old(w)
  BY <1>0, <1>2 DEF GrowsTwo
<1> HIDE DEF Old
<1>3. CASE FwStart
  <2>1. PICK m : m.what = "start_cfm" /\ ind' = ind \o <<m>>
    BY <1>3 DEF FwStart, Sends, StartCfm
  <2>2. Old("switch")
    BY <1>1, <2>1, IndGrows
  <2> QED BY <1>0, <1>3, <2>2 DEF Old
<1>4. CASE FwCancel
  <2>1. PICK m, n :
          /\ m.what = "cancel_cfm" /\ n.what = "exp"
          /\ ind' \in {ind \o <<m>>, ind \o <<m, n>>, ind \o <<n, m>>}
    <3>1. \/ ind' = ind \o <<Msg("cancel_cfm")>>
          \/ ind' = ind \o <<Msg("cancel_cfm"), Msg("exp")>>
          \/ ind' = ind \o <<Msg("exp"), Msg("cancel_cfm")>>
      BY <1>4 DEF FwCancel, Sends
    <3> DEFINE m == Msg("cancel_cfm")
    <3> DEFINE n == Msg("exp")
    <3>2. m.what = "cancel_cfm" /\ n.what = "exp"
      BY MsgWhat
    <3>3. ind' \in {ind \o <<m>>, ind \o <<m, n>>, ind \o <<n, m>>}
      BY <3>1
    <3> HIDE DEF m, n
    <3> QED BY <3>2, <3>3
  <2>2. Grows(m) \/ GrowsTwo(m, n) \/ GrowsTwo(n, m)
    BY <2>1, IndGrows, IndGrowsTwo
  <2> HIDE DEF Grows, GrowsTwo
  <2>3. ASSUME NEW w \in {"switch", "start_cfm"} PROVE Old(w)
    BY <1>1, <1>2, <2>1, <2>2
  <2> QED BY <1>0, <2>3 DEF Old
<1>5. CASE FwRemove
  <2>1. PICK m, n :
          /\ m.what = "remove_cfm" /\ n.what = "exp"
          /\ ind' \in {ind \o <<m>>, ind \o <<n, m>>}
    BY <1>5, MsgWhat DEF FwRemove, Sends
  <2>2. Grows(m) \/ GrowsTwo(n, m)
    BY <2>1, IndGrows, IndGrowsTwo
  <2> HIDE DEF Grows, GrowsTwo
  <2>3. ASSUME NEW w \in {"switch", "start_cfm"} PROVE Old(w)
    BY <1>1, <1>2, <2>1, <2>2
  <2> QED BY <1>0, <2>3 DEF Old
<1>6. CASE FwSwitch
  <2>1. ind' = ind \o <<Msg("switch")>>
    BY <1>6 DEF FwSwitch, Sends
  <2>2. Old("start_cfm")
    BY <1>1, <2>1, IndGrows, MsgWhat
  <2> QED BY <1>0, <1>6, <2>2 DEF Old
<1>7. CASE FwExpire
  <2>1. ind' = ind \o <<Msg("exp")>>
    BY <1>7 DEF FwExpire, Sends
  <2>2. Old("switch") /\ Old("start_cfm")
    BY <1>1, <2>1, IndGrows, MsgWhat
  <2> QED BY <1>0, <2>2 DEF Old
<1> QED BY <1>3, <1>4, <1>5, <1>6, <1>7 DEF FwStep

LEMMA ReadyEnds ==
    ASSUME PlainOK, ToldOK, Dated, RxExp, elem # None
    PROVE  ~Ready'
<1>1. /\ cookie \in Nat /\ cookie' = cookie + 1
      /\ reports' = reports \/ Tells("expired")
      /\ \A n \in DOMAIN reports : reports[n].cookie \in Nat /\ reports[n].cookie <= cookie
  BY ReportTypes DEF PlainOK, ElemOK, Dated, RxExp, NextCookie
<1>2. CASE reports' = reports
  BY <1>1, <1>2 DEF Ready
<1>3. CASE Tells("expired")
  <2>1. More("expired")
    BY <1>3, ReportsGrow
  <2> QED BY <1>1, <2>1 DEF Ready, More
<1> QED BY <1>1, <1>2, <1>3

LEMMA NotYetStep ==
    ASSUME Before, oops = "no", Next
    PROVE  NotYet'
<1> SUFFICES ASSUME Prompt', "close" \notin past' PROVE NotYet'
  BY DEF NotYet
<1>p. Prompt /\ "close" \notin past /\ "timeout" \notin past' /\ "early" \notin past'
  BY PastGrows DEF Prompt
<1>0. Len(ind) \in Nat /\ (ind # <<>> /\ ind' = Tail(ind) => Shrinks)
  BY Lengths, IndShrinks DEF Before
<1>n. NotYet /\ Tokens /\ Course /\ Handy /\ (pc = "publish" => cur \notin on_chan)
  BY <1>p DEF Before, Protocol, Cookies, Ages
<1>i. None \notin on_chan /\ None \notin heap
  <2>1. None \notin Ids
    BY NoneApart DEF Ids
  <2> QED BY <2>1 DEF Before, PlainOK, ElemOK
<1>r. reports' = reports /\ cookie' = cookie => (Ready' <=> Ready)
  BY ReadyStays
<1>x. RxExp /\ elem # None => ~Ready'
  BY ReadyEnds DEF Before, Cookies
<1>f. FwStep => NotYet'
  <2> SUFFICES ASSUME FwStep PROVE NotYet'
    OBVIOUS
  <2>1. UNCHANGED <<elem, on_chan, rxpc, pc, reports, cookie>>
    BY DEF FwStep, FwStart, FwCancel, FwRemove, FwSwitch, FwExpire, FwUntouched,
       elemVars, cfgVars, rxVars, toldVars
  <2>2. Ready' <=> Ready
    BY <1>r, <2>1
  <2>3. Known
    BY <1>p DEF Before, Known
  <2>4. CASE FwStart
    <3>1. chan # <<>> /\ chan' = <<>> /\ chan[1].op = "start"
      BY <2>3, <2>4, Taken DEF FwStart
    <3>2. pc = "wait"
      BY <2>3, <3>1 DEF Known, Protocol, Calls
    <3> QED BY <1>n, <1>p, <2>1, <2>2, <3>1, <3>2 DEF NotYet
  <2>5. CASE ~FwStart
    <3>1. \A i \in 1..Len(ind') :
            ind'[i].what = "start_cfm" => i \in 1..Len(ind) /\ ind'[i] = ind[i]
      BY <2>5, OldMessages DEF Before
    <3>2. chan' = chan \/ chan' = <<>>
      BY <2>3, <2>5, Taken DEF FwStep, FwCancel, FwRemove, FwSwitch, FwExpire
    <3> QED BY <1>n, <1>p, <2>1, <2>2, <3>1, <3>2 DEF NotYet
  <2> QED BY <2>4, <2>5
<1> USE DEF NotYet, Tokens, Course, Handy, Shrinks, Live, Quiet, Indicates, Refusable
<1>1. ASSUME NEW v \in Vifs, Request(v) PROVE NotYet'
  BY <1>1, <1>0, <1>p, <1>n, <1>i, <1>r, <1>x DEF Request, elemVars, rxVars, offVars,
      busVars, oddVars, toldVars
<1>2. ASSUME NEW v \in Vifs, Cancel(v) PROVE NotYet'
  BY <1>2, <1>0, <1>p, <1>n, <1>i, <1>r, <1>x DEF Cancel, Happens, Usual, elemVars,
      rxVars, offVars, oddVars, toldVars
<1>3. ASSUME NEW v \in Vifs, MgmtTx(v) PROVE NotYet'
  BY <1>3, <1>0, <1>p, <1>n, <1>i, <1>r, <1>x DEF MgmtTx, elemVars, rxVars, offVars,
      busVars, oddVars, toldVars
<1>4. ASSUME NEW v \in Vifs, Close(v) PROVE NotYet'
  BY <1>4, <1>0, <1>p, <1>n, <1>i, <1>r, <1>x DEF Close, Happens, elemVars, rxVars,
      offVars, toldVars
<1>5. ASSUME NEW v \in Vifs, Open(v) PROVE NotYet'
  BY <1>5, <1>0, <1>p, <1>n, <1>i, <1>r, <1>x DEF Open, elemVars, rxVars, offVars,
      busVars, oddVars, toldVars
<1>6. CASE Recheck
  BY <1>6, <1>0, <1>p, <1>n, <1>i, <1>r, <1>x DEF Recheck, Goes, elemVars, opVars,
      rxVars, offVars, busVars, oddVars, toldVars
<1>7. CASE RocInit
  BY <1>7, <1>0, <1>p, <1>n, <1>i, <1>r, <1>x DEF RocInit, rxVars, busVars, oddVars,
      toldVars
<1>8. CASE RocNoMem
  BY <1>8, <1>0, <1>p, <1>n, <1>i, <1>r, <1>x DEF RocNoMem, Happens, Goes, elemVars,
      opVars, rxVars, offVars, busVars, toldVars
<1>9. CASE Publish
  BY <1>9, <1>0, <1>p, <1>n, <1>i, <1>r, <1>x DEF Publish, Goes, opVars, rxVars,
      offVars, busVars, oddVars, toldVars
<1>10. CASE SendRoc
  BY <1>10, <1>0, <1>p, <1>n, <1>i, <1>r, <1>x DEF SendRoc, Happens, Usual, Goes,
      elemVars, opVars, rxVars, offVars, oddVars, toldVars
<1>11. CASE RocDone
  BY <1>11, <1>0, <1>p, <1>n, <1>i, <1>r, <1>x DEF RocDone, Goes, elemVars, opVars,
      rxVars, offVars, busVars, oddVars
<1>12. CASE RocFails
  BY <1>12, <1>0, <1>p, <1>n, <1>i, <1>r, <1>x DEF RocFails, Uses, OffchanDeinit, Goes,
      opVars, rxVars, busVars, oddVars, toldVars
<1>13. CASE MgmtUse
  BY <1>13, <1>0, <1>p, <1>n, <1>i, <1>r, <1>x DEF MgmtUse, Uses, Goes, elemVars,
      opVars, rxVars, offVars, busVars, oddVars, toldVars
<1>14. CASE MgmtMark
  BY <1>14, <1>0, <1>p, <1>n, <1>i, <1>r, <1>x DEF MgmtMark, Uses, Goes, opVars,
      rxVars, offVars, busVars, oddVars, toldVars
<1>15. CASE XmitCheck
  BY <1>15, <1>0, <1>p, <1>n, <1>i, <1>r, <1>x DEF XmitCheck, Goes, elemVars, opVars,
      rxVars, offVars, busVars, oddVars, toldVars
<1>16. CASE XmitQueue
  BY <1>16, <1>0, <1>p, <1>n, <1>i, <1>r, <1>x DEF XmitQueue, Goes, elemVars, opVars,
      rxVars, busVars, toldVars
<1>17. CASE CloseLook
  BY <1>17, <1>0, <1>p, <1>n, <1>i, <1>r, <1>x DEF CloseLook, elemVars, rxVars,
      offVars, busVars, oddVars, toldVars
<1>18. CASE CloseClear
  BY <1>18, <1>0, <1>p, <1>n, <1>i, <1>r, <1>x DEF CloseClear, Uses, Goes, opVars,
      rxVars, offVars, busVars, oddVars, toldVars
<1>19. CASE WaitEnds
  BY <1>19, <1>0, <1>p, <1>n, <1>i, <1>r, <1>x DEF WaitEnds, Happens, Goes, elemVars,
      opVars, rxVars, offVars, toldVars
<1>20. CASE AnswerLate
  BY <1>20, <1>0, <1>p, <1>n, <1>i, <1>r, <1>x DEF AnswerLate, Happens, Goes, elemVars,
      opVars, rxVars, offVars, toldVars
<1>21. CASE RxStartCfm
  BY <1>21, <1>0, <1>p, <1>n, <1>i, <1>r, <1>x DEF RxStartCfm, Goes, Receives,
      elemVars, opVars, cfgVars, rxVars, offVars, oddVars, toldVars
<1>22. CASE RxCancelCfm
  BY <1>22, <1>0, <1>p, <1>n, <1>i, <1>r, <1>x DEF RxCancelCfm, Goes, Receives,
      elemVars, opVars, cfgVars, rxVars, offVars, oddVars, toldVars
<1>23. CASE RxRemoveCfm
  BY <1>23, <1>0, <1>p, <1>n, <1>i, <1>r, <1>x DEF RxRemoveCfm, Goes, Receives,
      elemVars, opVars, cfgVars, rxVars, offVars, oddVars, toldVars
<1>24. CASE RxSwitch
  BY <1>24, <1>0, <1>p, <1>n, <1>i, <1>r, <1>x DEF RxSwitch, Uses, OffchanStart,
      Receives, Tells, opVars, cfgVars, rxVars
<1>25. CASE RxExp
  BY <1>25, <1>0, <1>p, <1>n, <1>i, <1>r, <1>x DEF RxExp, Uses, OffchanDeinit,
      Receives, Tells, NextCookie, elemVars, opVars, cfgVars, rxVars, offVars, oddVars
<1>26. CASE RxFree
  BY <1>26, <1>0, <1>p, <1>n, <1>i, <1>r, <1>x DEF RxFree, Uses, opVars, cfgVars,
      offVars, busVars, oddVars, toldVars
<1>27. CASE RxForget
  BY <1>27, <1>0, <1>p, <1>n, <1>i, <1>r, <1>x DEF RxForget, opVars, cfgVars, offVars,
      busVars, oddVars, toldVars
<1>28. CASE FwStart
  BY <1>28, <1>f DEF FwStep
<1>29. CASE FwCancel
  BY <1>29, <1>f DEF FwStep
<1>30. CASE FwRemove
  BY <1>30, <1>f DEF FwStep
<1>31. CASE FwSwitch
  BY <1>31, <1>f DEF FwStep
<1>32. CASE FwExpire
  BY <1>32, <1>f DEF FwStep
<1>33. CASE OffchanTask
  BY <1>33, <1>0, <1>p, <1>n, <1>i, <1>r, <1>x DEF OffchanTask, elemVars, opVars,
      cfgVars, rxVars, busVars, oddVars, toldVars
<1> QED BY <1>1, <1>2, <1>3, <1>4, <1>5, <1>6, <1>7, <1>8, <1>9, <1>10, <1>11, <1>12,
        <1>13, <1>14, <1>15, <1>16, <1>17, <1>18, <1>19, <1>20, <1>21, <1>22, <1>23, <1>24,
        <1>25, <1>26, <1>27, <1>28, <1>29, <1>30, <1>31, <1>32, <1>33 DEF Next, CfgStep,
        RxStep, FwStep

LEMMA OneSwitchStep ==
    ASSUME Before, oops = "no", Next
    PROVE  OneSwitch'
<1> SUFFICES ASSUME past' \cap {"early", "close"} = {} PROVE OneSwitch'
  BY DEF OneSwitch
<1>p. past \cap {"early", "close"} = {}
  BY PastGrows
<1>0. Len(ind) \in Nat /\ (ind # <<>> /\ ind' = Tail(ind) => Shrinks)
  BY Lengths, IndShrinks DEF Before
<1>o. /\ Len(chan) <= 1
      /\ Starting => fw = None /\ NoSwitch
      /\ fw # None /\ ~fw.on => NoSwitch
      /\ \A i, j \in 1..Len(ind) :
            ind[i].what = "switch" /\ ind[j].what = "switch" => i = j
      /\ Ready => ~Starting /\ (fw # None => fw.on) /\ NoSwitch
  BY <1>p DEF Before, Cookies, OneSwitch
<1>h. Handy
  BY DEF Before
<1>r. reports' = reports /\ cookie' = cookie => (Ready' <=> Ready)
  BY ReadyStays
<1>x. RxExp /\ elem # None => ~Ready'
  BY ReadyEnds DEF Before, Cookies
\* A command is given while none is under way.
<1>k. ~crashed => Prompt
  BY <1>p DEF Before, Handy, Prompt
<1>l. chan # <<>> => chan[1].op \in {"start", "cancel", "remove"}
  <2>1. chan \in Seq(Commands)
    BY DEF Before, BusOK
  <2>2. chan # <<>> => chan[1] \in Commands
    BY <2>1
  <2> QED BY <2>2 DEF Commands
<1>m. ~crashed /\ pc \in {"idle", "send"} => chan = <<>>
  <2>1. Prompt => Calls
    BY DEF Before, Protocol
  <2> QED BY <1>k, <1>l, <2>1 DEF Calls
<1>n. ~crashed /\ pc = "send" => fw = None /\ NoSwitch /\ ~Ready
  <2>1. ~crashed /\ pc = "send" => Course /\ NotYet /\ Prompt
    BY <1>k DEF Before, Protocol, Cookies
  <2>2. ~crashed /\ pc = "send" => fw = None /\ Quiet /\ elem \notin on_chan
    BY <1>p, <2>1 DEF Course, Refusable, NotYet
  <2>3. ~crashed /\ pc = "send" => ~Ready
    BY <1>p, <2>1, <2>2 DEF NotYet
  <2> QED BY <2>2, <2>3 DEF Quiet, NoSwitch, Indicates
<1>f. FwStep => OneSwitch'
  <2> SUFFICES ASSUME FwStep PROVE OneSwitch'
    OBVIOUS
  <2>1. Ready' <=> Ready
    <3>1. UNCHANGED <<reports, cookie>>
      BY DEF FwStep, FwStart, FwCancel, FwRemove, FwSwitch, FwExpire, FwUntouched,
          toldVars
    <3> QED BY <1>r, <3>1
  <2>2. Len(chan') <= 1 /\ (chan' = chan \/ chan' = <<>>)
    <3>1. chan' = chan \/ (chan # <<>> /\ chan' = Tail(chan))
      BY DEF FwStep, FwStart, FwCancel, FwRemove, FwSwitch, FwExpire, Answers
    <3>2. BusOK
      BY DEF Before
    <3>3. chan # <<>> /\ chan' = Tail(chan) => chan' = <<>> /\ Len(chan') = 0
      BY <1>o, <3>2, ChanTaken
    <3> QED BY <1>o, <3>1, <3>3
  <2>3. CASE FwSwitch
    <3>1. chan' = chan /\ fw # None /\ ~fw.on /\ fw' = [fw EXCEPT !.on = TRUE]
          /\ ind' = ind \o <<Msg("switch")>>
      BY <2>3 DEF FwSwitch, Sends
    <3>2. fw' # None => fw'.on
      <4>1. fw \in [id : Ids, vif : Vifs, on : BOOLEAN]
        BY <3>1 DEF Before, BusOK
      <4> QED BY <3>1, <4>1
    <3>3. ~Starting' /\ ~Ready' /\ NoSwitch
      BY <1>o, <2>1, <3>1 DEF Starting
    <3>4. PICK m : m.what = "switch" /\ Grows(m)
      BY <3>1, IndGrows, MsgWhat DEF Before
    <3>5. \A i \in 1..Len(ind') : ind'[i].what = "switch" => i = Len(ind) + 1
      BY <1>0, <3>3, <3>4 DEF Grows, NoSwitch
    <3> QED BY <2>2, <3>2, <3>3, <3>5 DEF OneSwitch
  <2>4. CASE ~FwSwitch
    <3>1. \A i \in 1..Len(ind') :
            ind'[i].what = "switch" => i \in 1..Len(ind) /\ ind'[i] = ind[i]
      BY <2>4, OldMessages DEF Before
    <3>2. NoSwitch => NoSwitch'
      BY <3>1 DEF NoSwitch
    <3>3. \A i, j \in 1..Len(ind') :
            ind'[i].what = "switch" /\ ind'[j].what = "switch" => i = j
      BY <1>o, <3>1
    <3>4. FwStart /\ fw' # fw => Starting /\ ~Starting'
      <4>1. FwStart => Answers("start")
        BY DEF FwStart
      <4>2. FwStart => chan # <<>> /\ Head(chan) = chan[1] /\ chan' = <<>>
        BY <1>o, <4>1, ChanTaken DEF Answers, Before
      <4> QED BY <4>1, <4>2 DEF Starting, Answers
    <3>5. fw' \in {fw, None} \/ (FwStart /\ fw' # fw)
      BY <2>4 DEF FwStep, FwCancel, FwRemove, FwExpire
    <3>6. Starting' => Starting
      BY <2>2 DEF Starting
    <3>7. CASE fw' \in {fw, None}
      BY <1>o, <2>1, <2>2, <3>2, <3>3, <3>6, <3>7 DEF OneSwitch
    <3>8. CASE FwStart /\ fw' # fw
      BY <1>o, <2>1, <2>2, <3>2, <3>3, <3>4, <3>8 DEF OneSwitch
    <3> QED BY <3>5, <3>7, <3>8
  <2> QED BY <2>3, <2>4
<1> USE DEF OneSwitch, Starting, NoSwitch, Shrinks
<1>1. ASSUME NEW v \in Vifs, Request(v) PROVE OneSwitch'
  BY <1>1, <1>0, <1>o, <1>r DEF Request, elemVars, rxVars, offVars, busVars, oddVars,
      toldVars
<1>2. ASSUME NEW v \in Vifs, Cancel(v) PROVE OneSwitch'
  <2>1. pc = "idle" /\ UNCHANGED <<ind, fw, reports, cookie>>
    BY <1>2 DEF Cancel, toldVars
  <2>2. CASE chan' = chan
    BY <1>o, <1>r, <2>1, <2>2
  <2>3. CASE ~crashed /\ chan' = Append(chan, [op |-> "cancel"])
    <3>1. Len(chan') = 1 /\ chan'[1] = [op |-> "cancel"]
      BY <1>m, <2>1, <2>3, ChanGiven
    <3>2. ~Starting' /\ Len(chan') <= 1
      BY <3>1
    <3> QED BY <1>o, <1>r, <2>1, <3>2
  <2> QED BY <1>2, <2>2, <2>3 DEF Cancel
<1>3. ASSUME NEW v \in Vifs, MgmtTx(v) PROVE OneSwitch'
  BY <1>3, <1>0, <1>o, <1>r DEF MgmtTx, elemVars, rxVars, offVars, busVars, oddVars,
      toldVars
<1>4. ASSUME NEW v \in Vifs, Close(v) PROVE OneSwitch'
  BY <1>4, <1>0, <1>o, <1>r DEF Close, Happens, elemVars, rxVars, offVars, toldVars
<1>5. ASSUME NEW v \in Vifs, Open(v) PROVE OneSwitch'
  BY <1>5, <1>0, <1>o, <1>r DEF Open, elemVars, rxVars, offVars, busVars, oddVars,
      toldVars
<1>6. CASE Recheck
  BY <1>6, <1>0, <1>o, <1>r DEF Recheck, Goes, elemVars, opVars, rxVars, offVars,
      busVars, oddVars, toldVars
<1>7. CASE RocInit
  BY <1>7, <1>0, <1>o, <1>r DEF RocInit, rxVars, busVars, oddVars, toldVars
<1>8. CASE RocNoMem
  BY <1>8, <1>0, <1>o, <1>r DEF RocNoMem, Happens, Goes, elemVars, opVars, rxVars,
      offVars, busVars, toldVars
<1>9. CASE Publish
  BY <1>9, <1>0, <1>o, <1>r DEF Publish, Goes, opVars, rxVars, offVars, busVars,
      oddVars, toldVars
<1>10. CASE SendRoc
  <2>1. pc = "send" /\ UNCHANGED <<ind, fw, reports, cookie>>
    BY <1>10 DEF SendRoc, toldVars
  <2>2. CASE chan' = chan
    BY <1>o, <1>r, <2>1, <2>2
  <2>3. CASE ~crashed /\ chan' = Append(chan, [op |-> "start", id |-> cur, vif |-> vif])
    <3>1. Len(chan') = 1
      BY <1>m, <2>1, <2>3, ChanGiven
    <3> QED BY <1>n, <1>o, <1>r, <2>1, <2>3, <3>1
  <2> QED BY <1>10, <2>2, <2>3 DEF SendRoc
<1>11. CASE RocDone
  BY <1>11, <1>0, <1>o, <1>r DEF RocDone, Goes, elemVars, opVars, rxVars, offVars,
      busVars, oddVars
<1>12. CASE RocFails
  BY <1>12, <1>0, <1>o, <1>r DEF RocFails, Uses, OffchanDeinit, Goes, opVars, rxVars,
      busVars, oddVars, toldVars
<1>13. CASE MgmtUse
  BY <1>13, <1>0, <1>o, <1>r DEF MgmtUse, Uses, Goes, elemVars, opVars, rxVars,
      offVars, busVars, oddVars, toldVars
<1>14. CASE MgmtMark
  BY <1>14, <1>0, <1>o, <1>r DEF MgmtMark, Uses, Goes, opVars, rxVars, offVars,
      busVars, oddVars, toldVars
<1>15. CASE XmitCheck
  BY <1>15, <1>0, <1>o, <1>r DEF XmitCheck, Goes, elemVars, opVars, rxVars, offVars,
      busVars, oddVars, toldVars
<1>16. CASE XmitQueue
  BY <1>16, <1>0, <1>o, <1>r DEF XmitQueue, Goes, elemVars, opVars, rxVars, busVars,
      toldVars
<1>17. CASE CloseLook
  BY <1>17, <1>0, <1>o, <1>r DEF CloseLook, elemVars, rxVars, offVars, busVars,
      oddVars, toldVars
<1>18. CASE CloseClear
  BY <1>18, <1>0, <1>o, <1>r DEF CloseClear, Uses, Goes, opVars, rxVars, offVars,
      busVars, oddVars, toldVars
<1>19. CASE WaitEnds
  BY <1>19, <1>0, <1>o, <1>r DEF WaitEnds, Happens, Goes, elemVars, opVars, rxVars,
      offVars, toldVars
<1>20. CASE AnswerLate
  BY <1>20, <1>0, <1>o, <1>r DEF AnswerLate, Happens, Goes, elemVars, opVars, rxVars,
      offVars, toldVars
<1>21. CASE RxStartCfm
  BY <1>21, <1>0, <1>o, <1>r DEF RxStartCfm, Goes, Receives, elemVars, opVars, cfgVars,
      rxVars, offVars, oddVars, toldVars
<1>22. CASE RxCancelCfm
  BY <1>22, <1>0, <1>o, <1>r DEF RxCancelCfm, Goes, Receives, elemVars, opVars,
      cfgVars, rxVars, offVars, oddVars, toldVars
<1>23. CASE RxRemoveCfm
  BY <1>23, <1>0, <1>o, <1>r DEF RxRemoveCfm, Goes, Receives, elemVars, opVars,
      cfgVars, rxVars, offVars, oddVars, toldVars
<1>24. CASE RxSwitch
  BY <1>24, <1>0, <1>o, <1>r DEF RxSwitch, Uses, OffchanStart, Receives, Tells, opVars,
      cfgVars, rxVars
<1>25. CASE RxExp
  BY <1>25, <1>0, <1>o, <1>r, <1>x DEF RxExp, Uses, OffchanDeinit, Receives, Tells,
      NextCookie, elemVars, opVars, cfgVars, rxVars, offVars, oddVars
<1>26. CASE RxFree
  BY <1>26, <1>0, <1>o, <1>r DEF RxFree, Uses, opVars, cfgVars, offVars, busVars,
      oddVars, toldVars
<1>27. CASE RxForget
  BY <1>27, <1>0, <1>o, <1>r DEF RxForget, opVars, cfgVars, offVars, busVars, oddVars,
      toldVars
<1>28. CASE FwStart
  BY <1>28, <1>f DEF FwStep
<1>29. CASE FwCancel
  BY <1>29, <1>f DEF FwStep
<1>30. CASE FwRemove
  BY <1>30, <1>f DEF FwStep
<1>31. CASE FwSwitch
  BY <1>31, <1>f DEF FwStep
<1>32. CASE FwExpire
  BY <1>32, <1>f DEF FwStep
<1>33. CASE OffchanTask
  BY <1>33, <1>0, <1>o, <1>r DEF OffchanTask, elemVars, opVars, cfgVars, rxVars,
      busVars, oddVars, toldVars
<1> QED BY <1>1, <1>2, <1>3, <1>4, <1>5, <1>6, <1>7, <1>8, <1>9, <1>10, <1>11, <1>12,
        <1>13, <1>14, <1>15, <1>16, <1>17, <1>18, <1>19, <1>20, <1>21, <1>22, <1>23, <1>24,
        <1>25, <1>26, <1>27, <1>28, <1>29, <1>30, <1>31, <1>32, <1>33 DEF Next, CfgStep,
        RxStep, FwStep

LEMMA AskedStep ==
    ASSUME Before, oops = "no", Next
    PROVE  Asked'
<1>p. past \subseteq past'
  BY PastGrows
<1>0. /\ Asked /\ Handy /\ ret \in [Ids -> Nat] /\ cookie \in Nat /\ cookie >= 1
      /\ pc \in {"publish", "send", "wait", "done", "fail"} => ret[cur] = 0
      /\ elem \in Ids \cup {None}
  BY DEF Before, Cookies, PlainOK, ElemOK, OpOK, Ages
<1> USE DEF Asked, Handy, Prompt
<1>1. ASSUME NEW v \in Vifs, Request(v) PROVE Asked'
  BY <1>1, <1>0, <1>p DEF Request, elemVars, rxVars, offVars, busVars, oddVars,
      toldVars
<1>2. ASSUME NEW v \in Vifs, Cancel(v) PROVE Asked'
  BY <1>2, <1>0, <1>p DEF Cancel, Happens, Usual, elemVars, rxVars, offVars, oddVars,
      toldVars
<1>3. ASSUME NEW v \in Vifs, MgmtTx(v) PROVE Asked'
  BY <1>3, <1>0, <1>p DEF MgmtTx, elemVars, rxVars, offVars, busVars, oddVars, toldVars
<1>4. ASSUME NEW v \in Vifs, Close(v) PROVE Asked'
  BY <1>4, <1>0, <1>p DEF Close, Happens, elemVars, rxVars, offVars, toldVars
<1>5. ASSUME NEW v \in Vifs, Open(v) PROVE Asked'
  BY <1>5, <1>0, <1>p DEF Open, elemVars, rxVars, offVars, busVars, oddVars, toldVars
<1>6. CASE Recheck
  BY <1>6, <1>0, <1>p DEF Recheck, Goes, elemVars, opVars, rxVars, offVars, busVars,
      oddVars, toldVars
<1>7. CASE RocInit
  BY <1>7, <1>0, <1>p DEF RocInit, rxVars, busVars, oddVars, toldVars
<1>8. CASE RocNoMem
  BY <1>8, <1>0, <1>p DEF RocNoMem, Happens, Goes, elemVars, opVars, rxVars, offVars,
      busVars, toldVars
<1>9. CASE Publish
  BY <1>9, <1>0, <1>p DEF Publish, Goes, opVars, rxVars, offVars, busVars, oddVars,
      toldVars
<1>10. CASE SendRoc
  BY <1>10, <1>0, <1>p DEF SendRoc, Happens, Usual, Goes, elemVars, opVars, rxVars,
      offVars, oddVars, toldVars
<1>11. CASE RocDone
  BY <1>11, <1>0, <1>p DEF RocDone, Goes, elemVars, opVars, rxVars, offVars, busVars,
      oddVars
<1>12. CASE RocFails
  BY <1>12, <1>0, <1>p DEF RocFails, Uses, OffchanDeinit, Goes, opVars, rxVars,
      busVars, oddVars, toldVars
<1>13. CASE MgmtUse
  BY <1>13, <1>0, <1>p DEF MgmtUse, Uses, Goes, elemVars, opVars, rxVars, offVars,
      busVars, oddVars, toldVars
<1>14. CASE MgmtMark
  BY <1>14, <1>0, <1>p DEF MgmtMark, Uses, Goes, opVars, rxVars, offVars, busVars,
      oddVars, toldVars
<1>15. CASE XmitCheck
  BY <1>15, <1>0, <1>p DEF XmitCheck, Goes, elemVars, opVars, rxVars, offVars, busVars,
      oddVars, toldVars
<1>16. CASE XmitQueue
  BY <1>16, <1>0, <1>p DEF XmitQueue, Goes, elemVars, opVars, rxVars, busVars, toldVars
<1>17. CASE CloseLook
  BY <1>17, <1>0, <1>p DEF CloseLook, elemVars, rxVars, offVars, busVars, oddVars,
      toldVars
<1>18. CASE CloseClear
  BY <1>18, <1>0, <1>p DEF CloseClear, Uses, Goes, opVars, rxVars, offVars, busVars,
      oddVars, toldVars
<1>19. CASE WaitEnds
  BY <1>19, <1>0, <1>p DEF WaitEnds, Happens, Goes, elemVars, opVars, rxVars, offVars,
      toldVars
<1>20. CASE AnswerLate
  BY <1>20, <1>0, <1>p DEF AnswerLate, Happens, Goes, elemVars, opVars, rxVars,
      offVars, toldVars
<1>21. CASE RxStartCfm
  BY <1>21, <1>0, <1>p DEF RxStartCfm, Goes, Receives, elemVars, opVars, cfgVars,
      rxVars, offVars, oddVars, toldVars
<1>22. CASE RxCancelCfm
  BY <1>22, <1>0, <1>p DEF RxCancelCfm, Goes, Receives, elemVars, opVars, cfgVars,
      rxVars, offVars, oddVars, toldVars
<1>23. CASE RxRemoveCfm
  BY <1>23, <1>0, <1>p DEF RxRemoveCfm, Goes, Receives, elemVars, opVars, cfgVars,
      rxVars, offVars, oddVars, toldVars
<1>24. CASE RxSwitch
  BY <1>24, <1>0, <1>p DEF RxSwitch, Uses, OffchanStart, Receives, Tells, opVars,
      cfgVars, rxVars
<1>25. CASE RxExp
  BY <1>25, <1>0, <1>p DEF RxExp, Uses, OffchanDeinit, Receives, Tells, NextCookie,
      elemVars, opVars, cfgVars, rxVars, offVars, oddVars
<1>26. CASE RxFree
  BY <1>26, <1>0, <1>p DEF RxFree, Uses, opVars, cfgVars, offVars, busVars, oddVars,
      toldVars
<1>27. CASE RxForget
  BY <1>27, <1>0, <1>p DEF RxForget, opVars, cfgVars, offVars, busVars, oddVars,
      toldVars
<1>28. CASE FwStart
  BY <1>28, <1>0, <1>p DEF FwStart, Usual, Sends, Answers, FwUntouched, StartCfm,
      elemVars, opVars, cfgVars, rxVars, offVars, oddVars, toldVars
<1>29. CASE FwCancel
  BY <1>29, <1>0, <1>p DEF FwCancel, Usual, Sends, Answers, FwUntouched, Msg, elemVars,
      opVars, cfgVars, rxVars, offVars, oddVars, toldVars
<1>30. CASE FwRemove
  BY <1>30, <1>0, <1>p DEF FwRemove, Usual, Sends, Answers, FwUntouched, Msg, elemVars,
      opVars, cfgVars, rxVars, offVars, oddVars, toldVars
<1>31. CASE FwSwitch
  BY <1>31, <1>0, <1>p DEF FwSwitch, Usual, Sends, FwUntouched, Msg, elemVars, opVars,
      cfgVars, rxVars, offVars, oddVars, toldVars
<1>32. CASE FwExpire
  BY <1>32, <1>0, <1>p DEF FwExpire, Happens, Usual, Sends, FwUntouched, Msg, elemVars,
      opVars, cfgVars, rxVars, offVars, oddVars, toldVars
<1>33. CASE OffchanTask
  BY <1>33, <1>0, <1>p DEF OffchanTask, elemVars, opVars, cfgVars, rxVars, busVars,
      oddVars, toldVars
<1> QED BY <1>1, <1>2, <1>3, <1>4, <1>5, <1>6, <1>7, <1>8, <1>9, <1>10, <1>11, <1>12,
        <1>13, <1>14, <1>15, <1>16, <1>17, <1>18, <1>19, <1>20, <1>21, <1>22, <1>23, <1>24,
        <1>25, <1>26, <1>27, <1>28, <1>29, <1>30, <1>31, <1>32, <1>33 DEF Next, CfgStep,
        RxStep, FwStep

LEMMA AnswerFirstStep ==
    ASSUME Before, oops = "no", Next
    PROVE  AnswerFirst'
<1> SUFFICES ASSUME Prompt' PROVE AnswerFirst'
  BY DEF AnswerFirst
<1>p. Prompt /\ "timeout" \notin past' /\ "early" \notin past'
  BY PastGrows DEF Prompt
<1>0. Len(ind) \in Nat /\ (ind # <<>> /\ ind' = Tail(ind) => Shrinks)
  BY Lengths, IndShrinks DEF Before
<1>c. Calls /\ Course
  BY <1>p DEF Before, Protocol
<1>a. pc = "wait" /\ chan = <<>> =>
        \E k \in 1..Len(ind) :
            /\ ind[k].what = "start_cfm"
            /\ \A i \in 1..(k - 1) : ind[i].what \notin Indicates
  BY <1>p DEF Before, Cookies, AnswerFirst
<1>f. FwStep => AnswerFirst'
  <2> SUFFICES ASSUME FwStep, pc' = "wait", chan' = <<>> PROVE AnswerFirst'
    BY DEF AnswerFirst
  <2>1. Known /\ pc = "wait"
    BY <1>p, Untouched DEF Before, Known
  <2>2. CASE FwStart
    <3>1. /\ Head(chan) = chan[1] /\ chan # <<>>
      BY <2>1, <2>2, Taken DEF FwStart
    <3>2. Quiet
      BY <1>c, <2>1, <3>1 DEF Course, Refusable
    <3>3. PICK m : m.what = "start_cfm" /\ Grows(m)
      <4>1. PICK m : m.what = "start_cfm" /\ ind' = ind \o <<m>>
        BY <2>2 DEF FwStart, Sends, StartCfm
      <4>2. Grows(m)
        BY <4>1, IndGrows DEF Before
      <4> QED BY <4>1, <4>2
    <3>4. /\ Len(ind) + 1 \in 1..Len(ind') /\ ind'[Len(ind) + 1].what = "start_cfm"
          /\ \A i \in 1..((Len(ind) + 1) - 1) : ind'[i].what \notin Indicates
      BY <1>0, <3>2, <3>3 DEF Grows, Quiet
    <3> QED BY <3>4 DEF AnswerFirst
  <2>3. CASE FwSwitch \/ FwExpire
    <3>1. PICK m : Grows(m)
      BY <2>3, IndGrows DEF FwSwitch, FwExpire, Sends, Before
    <3>2. chan = <<>>
      BY <2>3 DEF FwSwitch, FwExpire
    <3>3. PICK k \in 1..Len(ind) :
            /\ ind[k].what = "start_cfm"
            /\ \A i \in 1..(k - 1) : ind[i].what \notin Indicates
      BY <1>a, <2>1, <3>2
    <3>4. /\ k \in 1..Len(ind') /\ ind'[k].what = "start_cfm"
          /\ \A i \in 1..(k - 1) : ind'[i].what \notin Indicates
      BY <1>0, <3>1, <3>3 DEF Grows
    <3> QED BY <3>4 DEF AnswerFirst
  <2>4. ~FwCancel /\ ~FwRemove
    <3>1. FwCancel => pc = "cancel"
      BY <2>1, Taken DEF FwCancel, Known, Protocol, Calls
    <3>2. FwRemove => pc = "remove"
      BY <2>1, Taken DEF FwRemove, Known, Protocol, Calls
    <3> QED BY <2>1, <3>1, <3>2
  <2> QED BY <2>2, <2>3, <2>4 DEF FwStep
<1> USE DEF AnswerFirst, Calls, Shrinks, Indicates
<1>1. ASSUME NEW v \in Vifs, Request(v) PROVE AnswerFirst'
  BY <1>1, <1>0, <1>p, <1>c, <1>a DEF Request, elemVars, rxVars, offVars, busVars,
      oddVars, toldVars
<1>2. ASSUME NEW v \in Vifs, Cancel(v) PROVE AnswerFirst'
  BY <1>2, <1>0, <1>p, <1>c, <1>a DEF Cancel, Happens, Usual, elemVars, rxVars,
      offVars, oddVars, toldVars
<1>3. ASSUME NEW v \in Vifs, MgmtTx(v) PROVE AnswerFirst'
  BY <1>3, <1>0, <1>p, <1>c, <1>a DEF MgmtTx, elemVars, rxVars, offVars, busVars,
      oddVars, toldVars
<1>4. ASSUME NEW v \in Vifs, Close(v) PROVE AnswerFirst'
  BY <1>4, <1>0, <1>p, <1>c, <1>a DEF Close, Happens, elemVars, rxVars, offVars,
      toldVars
<1>5. ASSUME NEW v \in Vifs, Open(v) PROVE AnswerFirst'
  BY <1>5, <1>0, <1>p, <1>c, <1>a DEF Open, elemVars, rxVars, offVars, busVars,
      oddVars, toldVars
<1>6. CASE Recheck
  BY <1>6, <1>0, <1>p, <1>c, <1>a DEF Recheck, Goes, elemVars, opVars, rxVars, offVars,
      busVars, oddVars, toldVars
<1>7. CASE RocInit
  BY <1>7, <1>0, <1>p, <1>c, <1>a DEF RocInit, rxVars, busVars, oddVars, toldVars
<1>8. CASE RocNoMem
  BY <1>8, <1>0, <1>p, <1>c, <1>a DEF RocNoMem, Happens, Goes, elemVars, opVars,
      rxVars, offVars, busVars, toldVars
<1>9. CASE Publish
  BY <1>9, <1>0, <1>p, <1>c, <1>a DEF Publish, Goes, opVars, rxVars, offVars, busVars,
      oddVars, toldVars
<1>10. CASE SendRoc
  <2>1. pc' = "fail"
        \/ chan' = Append(chan, [op |-> "start", id |-> cur, vif |-> vif])
    BY <1>10 DEF SendRoc, Goes
  <2>2. chan \in Seq(Commands)
    BY DEF Before, BusOK
  <2>3. pc' = "fail" \/ chan' # <<>>
    BY <2>1, <2>2, GivenSome
  <2> QED BY <2>3
<1>11. CASE RocDone
  BY <1>11, <1>0, <1>p, <1>c, <1>a DEF RocDone, Goes, elemVars, opVars, rxVars,
      offVars, busVars, oddVars
<1>12. CASE RocFails
  BY <1>12, <1>0, <1>p, <1>c, <1>a DEF RocFails, Uses, OffchanDeinit, Goes, opVars,
      rxVars, busVars, oddVars, toldVars
<1>13. CASE MgmtUse
  BY <1>13, <1>0, <1>p, <1>c, <1>a DEF MgmtUse, Uses, Goes, elemVars, opVars, rxVars,
      offVars, busVars, oddVars, toldVars
<1>14. CASE MgmtMark
  BY <1>14, <1>0, <1>p, <1>c, <1>a DEF MgmtMark, Uses, Goes, opVars, rxVars, offVars,
      busVars, oddVars, toldVars
<1>15. CASE XmitCheck
  BY <1>15, <1>0, <1>p, <1>c, <1>a DEF XmitCheck, Goes, elemVars, opVars, rxVars,
      offVars, busVars, oddVars, toldVars
<1>16. CASE XmitQueue
  BY <1>16, <1>0, <1>p, <1>c, <1>a DEF XmitQueue, Goes, elemVars, opVars, rxVars,
      busVars, toldVars
<1>17. CASE CloseLook
  BY <1>17, <1>0, <1>p, <1>c, <1>a DEF CloseLook, elemVars, rxVars, offVars, busVars,
      oddVars, toldVars
<1>18. CASE CloseClear
  BY <1>18, <1>0, <1>p, <1>c, <1>a DEF CloseClear, Uses, Goes, opVars, rxVars, offVars,
      busVars, oddVars, toldVars
<1>19. CASE WaitEnds
  BY <1>19, <1>0, <1>p, <1>c, <1>a DEF WaitEnds, Happens, Goes, elemVars, opVars,
      rxVars, offVars, toldVars
<1>20. CASE AnswerLate
  BY <1>20, <1>0, <1>p, <1>c, <1>a DEF AnswerLate, Happens, Goes, elemVars, opVars,
      rxVars, offVars, toldVars
<1>21. CASE RxStartCfm
  BY <1>21, <1>0, <1>p, <1>c, <1>a DEF RxStartCfm, Goes, Receives, elemVars, opVars,
      cfgVars, rxVars, offVars, oddVars, toldVars
<1>22. CASE RxCancelCfm
  BY <1>22, <1>0, <1>p, <1>c, <1>a DEF RxCancelCfm, Goes, Receives, elemVars, opVars,
      cfgVars, rxVars, offVars, oddVars, toldVars
<1>23. CASE RxRemoveCfm
  BY <1>23, <1>0, <1>p, <1>c, <1>a DEF RxRemoveCfm, Goes, Receives, elemVars, opVars,
      cfgVars, rxVars, offVars, oddVars, toldVars
<1>24. CASE RxSwitch
  BY <1>24, <1>0, <1>p, <1>c, <1>a DEF RxSwitch, Uses, OffchanStart, Receives, Tells,
      opVars, cfgVars, rxVars
<1>25. CASE RxExp
  BY <1>25, <1>0, <1>p, <1>c, <1>a DEF RxExp, Uses, OffchanDeinit, Receives, Tells,
      NextCookie, elemVars, opVars, cfgVars, rxVars, offVars, oddVars
<1>26. CASE RxFree
  BY <1>26, <1>0, <1>p, <1>c, <1>a DEF RxFree, Uses, opVars, cfgVars, offVars, busVars,
      oddVars, toldVars
<1>27. CASE RxForget
  BY <1>27, <1>0, <1>p, <1>c, <1>a DEF RxForget, opVars, cfgVars, offVars, busVars,
      oddVars, toldVars
<1>28. CASE FwStart
  BY <1>28, <1>f DEF FwStep
<1>29. CASE FwCancel
  BY <1>29, <1>f DEF FwStep
<1>30. CASE FwRemove
  BY <1>30, <1>f DEF FwStep
<1>31. CASE FwSwitch
  BY <1>31, <1>f DEF FwStep
<1>32. CASE FwExpire
  BY <1>32, <1>f DEF FwStep
<1>33. CASE OffchanTask
  BY <1>33, <1>0, <1>p, <1>c, <1>a DEF OffchanTask, elemVars, opVars, cfgVars, rxVars,
      busVars, oddVars, toldVars
<1> QED BY <1>1, <1>2, <1>3, <1>4, <1>5, <1>6, <1>7, <1>8, <1>9, <1>10, <1>11, <1>12,
        <1>13, <1>14, <1>15, <1>16, <1>17, <1>18, <1>19, <1>20, <1>21, <1>22, <1>23, <1>24,
        <1>25, <1>26, <1>27, <1>28, <1>29, <1>30, <1>31, <1>32, <1>33 DEF Next, CfgStep,
        RxStep, FwStep

\* A report that was right stays right.
LEMMA OldReport ==
    ASSUME Before, oops = "no", Next, NEW n \in DOMAIN reports, ReportSound(n),
           \A k \in 1..n : reports'[k] = reports[k]
    PROVE  ReportSound(n)'
<1>1. past \subseteq past'
  BY PastGrows
<1>2. n \in Nat /\ n >= 1 /\ reports'[n] = reports[n]
      /\ \A k \in 1..(n - 1) : reports'[k] = reports[k]
  BY ReportTypes DEF Before
<1>3. reports'[n].what = "expired" =>
        \E k \in 1..(n - 1) : reports'[k] = [reports'[n] EXCEPT !.what = "ready"]
  BY <1>2 DEF ReportSound
<1>4. past' \cap {"early", "close"} = {} => \A k \in 1..(n - 1) : reports'[k] # reports'[n]
  BY <1>1, <1>2 DEF ReportSound
<1>5. ASSUME past' \cap {"timeout", "early", "slow", "unmarked"} = {}
      PROVE  \/ \E i \in Ids : ret'[i] = reports'[n].cookie
             \/ pc' = "done" /\ ~mgmt' /\ cookie' = reports'[n].cookie
  <2>1. past \cap {"timeout", "early", "slow", "unmarked"} = {}
    BY <1>1, <1>5
  <2>2. reports[n].cookie # 0 /\ ret \in [Ids -> Nat] /\ cur \in Ids \cup {None}
    BY DEF Before, Cookies, Dated, PlainOK, OpOK
  <2>3. CASE RocDone
    <3>1. /\ pc = "done" /\ cur # None /\ ret[cur] = 0
          /\ ret' = IF mgmt THEN ret ELSE [ret EXCEPT ![cur] = cookie]
      BY <2>3 DEF RocDone, Before, Handy, Cookies, Ages
    <3>2. CASE \E i \in Ids : ret[i] = reports[n].cookie
      <4>1. PICK i \in Ids : ret[i] = reports[n].cookie
        BY <3>2
      <4>2. i # cur
        BY <2>2, <3>1, <4>1
      <4>3. ret'[i] = ret[i]
        BY <2>2, <3>1, <4>2
      <4> QED BY <1>2, <4>1, <4>3
    <3>3. CASE ~mgmt /\ cookie = reports[n].cookie
      <4>1. cur \in Ids /\ ret'[cur] = cookie
        BY <2>2, <3>1, <3>3
      <4> QED BY <1>2, <3>3, <4>1
    <3> QED BY <2>1, <3>2, <3>3 DEF ReportSound
  <2>4. CASE ~RocDone
    <3>1. ret' = ret /\ (cookie' = cookie \/ RxExp)
          /\ (pc = "done" => pc' = pc /\ mgmt' = mgmt)
      BY <2>4, CookieFrame DEF Frame
    <3>2. RxExp => pc # "done"
      <4>1. RxExp => 1 \in 1..Len(ind) /\ ind[1].what = "exp"
        BY Lengths DEF RxExp, Receives, Before
      <4>2. Prompt /\ "slow" \notin past
        BY <2>1 DEF Prompt
      <4> QED BY <4>1, <4>2, Ending
    <3> QED BY <1>2, <2>1, <3>1, <3>2 DEF ReportSound
  <2> QED BY <2>3, <2>4
<1> QED BY <1>3, <1>4, <1>5 DEF ReportSound

LEMMA NewReady ==
    ASSUME Before, oops = "no", RxSwitch, Tells("ready"), elem # None,
           elem \notin mgmt_roc, NEW n, n = Len(reports) + 1
    PROVE  ReportSound(n)'
<1>1. More("ready")
  BY ReportsGrow DEF Before
<1>2. /\ reports'[n].what = "ready" /\ reports'[n].cookie = cookie
      /\ Len(reports) \in Nat /\ \A k \in 1..(n - 1) : reports'[k] = reports[k]
      /\ DOMAIN reports = 1..(n - 1)
  BY <1>1 DEF More
<1>3. /\ 1 \in 1..Len(ind) /\ ind[1].what = "switch" /\ UNCHANGED <<pc, mgmt, cookie, ret>>
      /\ past \subseteq past' /\ Len(ind) \in Nat
      /\ mgmt /\ elem = cur /\ pc \in {"wait", "done", "fail", "mark"} =>
           "unmarked" \in past'
  BY Lengths DEF RxSwitch, Receives, Before, cfgVars, opVars
<1>4. past' \cap {"early", "close"} = {} => \A k \in 1..(n - 1) : reports'[k] # reports'[n]
  <2>1. past' \cap {"early", "close"} = {} => ~Ready
    BY <1>3 DEF Before, Cookies, OneSwitch, NoSwitch
  <2> QED BY <1>2, <2>1 DEF Ready
<1>5. ASSUME past' \cap {"timeout", "early", "slow", "unmarked"} = {}
      PROVE  \/ \E i \in Ids : ret'[i] = reports'[n].cookie
             \/ pc' = "done" /\ ~mgmt' /\ cookie' = reports'[n].cookie
  <2>1. Prompt /\ "slow" \notin past
    BY <1>3, <1>5 DEF Prompt
  <2>2. ~Quiet
    BY <1>3 DEF Quiet, Indicates
  <2>3. elem \in Ids /\ rxpc = "idle"
    BY DEF Before, PlainOK, ElemOK, RxSwitch, Receives
  <2>4. CASE ret[elem] = cookie
    BY <1>2, <1>3, <2>3, <2>4
  <2>5. CASE cur = elem /\ pc \in {"send", "wait", "done", "fail", "mark"}
             /\ (pc = "mark" => mgmt)
    <3>1. pc \notin {"send", "fail"} /\ (pc = "wait" => chan = <<>>)
      BY <2>1, <2>2 DEF Before, Protocol, Course, Refusable
    <3>2. pc # "wait"
      <4>1. ASSUME pc = "wait" PROVE FALSE
        <5>1. PICK k \in 1..Len(ind) :
                /\ ind[k].what = "start_cfm"
                /\ \A i \in 1..(k - 1) : ind[i].what \notin Indicates
          BY <2>1, <3>1, <4>1 DEF Before, Cookies, AnswerFirst
        <5>2. k = 1
          BY <1>3, <5>1 DEF Indicates
        <5> QED BY <1>3, <5>1, <5>2
      <4> QED BY <4>1
    <3>3. pc = "done" /\ ~mgmt
      BY <1>3, <1>5, <2>5, <3>1, <3>2
    <3> QED BY <1>2, <1>3, <3>3
  <2> QED BY <2>1, <2>3, <2>4, <2>5 DEF Before, Cookies, Asked
<1> QED BY <1>2, <1>4, <1>5 DEF ReportSound

LEMMA NewExpired ==
    ASSUME Before, oops = "no", RxExp, Tells("expired"), elem \in on_chan,
           elem \notin mgmt_roc, \A k \in DOMAIN reports : ReportSound(k),
           NEW n, n = Len(reports) + 1
    PROVE  ReportSound(n)'
<1>1. More("expired")
  BY ReportsGrow DEF Before
<1>2. /\ reports'[n].what = "expired" /\ reports'[n].cookie = cookie
      /\ reports'[n] = [what |-> "expired", cookie |-> cookie]
      /\ Len(reports) \in Nat /\ \A k \in 1..(n - 1) : reports'[k] = reports[k]
      /\ DOMAIN reports = 1..(n - 1)
  BY <1>1 DEF More
<1>3. /\ 1 \in 1..Len(ind) /\ ind[1].what = "exp" /\ rxpc = "idle"
      /\ UNCHANGED <<ret, past>> /\ Len(ind) \in Nat
  BY Lengths DEF RxExp, Receives, Before, oddVars
<1>4. PICK k \in DOMAIN reports : reports[k].what = "ready" /\ reports[k].cookie = cookie
  BY <1>3 DEF Before, Cookies, Announced, Ready
<1>5. reports'[k] = [reports'[n] EXCEPT !.what = "ready"]
  <2>1. reports[k] \in Reports /\ cookie \in Nat
    BY ReportTypes DEF Before, PlainOK, ElemOK
  <2>2. reports'[n] \in Reports
    BY <1>2, <2>1 DEF Reports
  <2> QED BY <1>2, <1>4, <2>1, <2>2, SameReport
<1>6. \A j \in 1..(n - 1) : reports'[j] # reports'[n]
  <2>1. \A j \in DOMAIN reports :
          reports[j].cookie \in Nat /\ (reports[j].what = "expired" => reports[j].cookie < cookie)
    BY ReportTypes DEF Before, Cookies, Dated
  <2>2. cookie \in Nat
    BY DEF Before, PlainOK, ElemOK
  <2> QED BY <1>2, <2>1, <2>2
<1>7. ASSUME past' \cap {"timeout", "early", "slow", "unmarked"} = {}
      PROVE  \E i \in Ids : ret'[i] = reports'[n].cookie
  <2>1. Prompt /\ "slow" \notin past
    BY <1>3, <1>7 DEF Prompt
  <2>2. pc # "done"
    BY <1>3, <2>1, Ending
  <2>3. \E i \in Ids : ret[i] = reports[k].cookie
    BY <1>3, <1>7, <2>2 DEF ReportSound
  <2> QED BY <1>2, <1>3, <1>4, <2>3
<1> QED BY <1>2, <1>4, <1>5, <1>6, <1>7 DEF ReportSound

LEMMA ReportsStep ==
    ASSUME Before, \A n \in DOMAIN reports : ReportSound(n), oops = "no", Next
    PROVE  (\A n \in DOMAIN reports : ReportSound(n))'
<1>0. Len(reports) \in Nat /\ DOMAIN reports = 1..Len(reports)
  BY ReportTypes DEF Before
<1>1. CASE reports' = reports
  <2>1. ASSUME NEW n \in DOMAIN reports PROVE ReportSound(n)'
    BY <1>1, OldReport
  <2> QED BY <1>1, <2>1
<1>2. ASSUME NEW x, Tells(x), NEW m, m = Len(reports) + 1, ReportSound(m)'
      PROVE  (\A n \in DOMAIN reports : ReportSound(n))'
  <2>1. More(x)
    BY <1>2, ReportsGrow DEF Before
  <2>2. ASSUME NEW n \in DOMAIN reports PROVE ReportSound(n)'
    <3>1. \A k \in 1..n : reports'[k] = reports[k]
      BY <1>0, <2>1 DEF More
    <3> QED BY <3>1, OldReport
  <2>3. \A n \in DOMAIN reports' : n \in DOMAIN reports \/ n = m
    BY <1>0, <1>2, <2>1 DEF More
  <2> QED BY <1>2, <2>2, <2>3
<1>3. CASE RxSwitch
  <2>1. reports' = reports \/ (elem # None /\ elem \notin mgmt_roc /\ Tells("ready"))
    BY <1>3 DEF RxSwitch
  <2>2. ASSUME elem # None, elem \notin mgmt_roc, Tells("ready")
        PROVE  (\A n \in DOMAIN reports : ReportSound(n))'
    <3>1. PICK k : k = Len(reports) + 1
      OBVIOUS
    <3>2. ReportSound(k)'
      BY <1>3, <2>2, <3>1, NewReady
    <3> QED BY <1>2, <2>2, <3>1, <3>2
  <2> QED BY <1>1, <2>1, <2>2
<1>4. CASE RxExp
  <2>1. reports' = reports \/ (elem \notin mgmt_roc /\ elem \in on_chan /\ Tells("expired"))
    BY <1>4 DEF RxExp
  <2>2. ASSUME elem \in on_chan, elem \notin mgmt_roc, Tells("expired")
        PROVE  (\A n \in DOMAIN reports : ReportSound(n))'
    <3>1. PICK k : k = Len(reports) + 1
      OBVIOUS
    <3>2. ReportSound(k)'
      BY <1>4, <2>2, <3>1, NewExpired
    <3> QED BY <1>2, <2>2, <3>1, <3>2
  <2> QED BY <1>1, <2>1, <2>2
<1> QED BY <1>1, <1>3, <1>4, CookieFrame DEF Frame

-----------------------------------------------------------------------------
(* The theorems *)

LEMMA TypeParts == TypeOK <=> PlainOK /\ BusOK /\ ToldOK
BY DEF TypeOK, PlainOK, ElemOK, OpOK, QueueOK, OddOK, BusOK, ToldOK

LEMMA InitSound == Init => RInv
<1> SUFFICES ASSUME Init PROVE RInv
  OBVIOUS
<1> USE NoneApart
<1>1. PlainOK
  <2>1. 0 \in 0..MaxOps /\ 0 \in 0..MaxOdd
    OBVIOUS
  <2>2. ElemOK
    BY DEF Init, ElemOK, Ids
  <2>3. OpOK
    BY <2>1 DEF Init, OpOK
  <2>4. QueueOK /\ OddOK
    BY <2>1 DEF Init, QueueOK, OddOK
  <2> QED BY <2>2, <2>3, <2>4 DEF PlainOK
<1>2. BusOK /\ ToldOK /\ Len(ind) = 0 /\ Len(chan) = 0
  BY EmptySeq DEF Init, BusOK, ToldOK
<1>3. ElemSound /\ OffchanSound
  BY DEF Init, ElemSound, OffchanSound
<1>4. Fresh /\ Handy /\ Freeing
  BY DEF Init, Fresh, Handy, Freeing
<1>5. Calls /\ Course /\ Closing
  BY <1>2 DEF Init, Calls, Course, Closing
<1>6. Tokens
  BY <1>2 DEF Init, Tokens, Quiet
<1> QED BY <1>1, <1>2, <1>3, <1>4, <1>5, <1>6, TypeParts DEF RInv, RocInv, Protocol

LEMMA StepSound == RInv /\ [Next]_vars => RInv'
<1>1. ASSUME RInv, UNCHANGED vars PROVE RInv'
  <2>1. UNCHANGED <<elem, heap, wdev, mgmt_roc, on_chan, cookie, pc, cur, vif, mgmt, ptr, up>>
        /\ UNCHANGED <<rxpc, rxptr, oidx, ostop, oframes, olisted, chan, ind, fw, crashed>>
        /\ UNCHANGED <<ops, odd, past, ret, reports, oops>>
    BY <1>1 DEF vars, elemVars, cfgVars, opVars, rxVars, offVars, busVars, oddVars,
        toldVars
  <2>2. RocInv' /\ Fresh'
    BY <1>1, <2>1 DEF RInv, RocInv, TypeOK, ElemSound, OffchanSound, Excuses, Fresh
  <2>3. ASSUME oops' = "no" PROVE Handy' /\ Freeing'
    BY <1>1, <2>1, <2>3 DEF RInv, Handy, Freeing
  <2>4. ASSUME oops' = "no", Prompt' PROVE Protocol'
    <3>1. Protocol
      BY <1>1, <2>1, <2>4 DEF RInv, Prompt
    <3> QED BY <2>1, <3>1
         DEF Protocol, Calls, Tokens, Course, Closing, Live, Quiet, Refusable, Ours
  <2> QED BY <2>2, <2>3, <2>4 DEF RInv
<1>2. ASSUME RInv, Next PROVE RInv'
  <2>1. /\ oops = "no" /\ PlainOK /\ BusOK /\ ToldOK /\ ElemSound /\ OffchanSound
        /\ Fresh /\ Handy /\ Freeing /\ (Prompt => Protocol)
    BY <1>2, TypeParts DEF RInv, RocInv, Next
  <2>2. PlainOK'
    BY <1>2, <2>1, ElemTypes, OpTypes, QueueTypes, OddTypes DEF PlainOK
  <2>3. BusOK' /\ ToldOK'
    BY <1>2, <2>1, BusTypes, ToldTypes
  <2>4. ElemSound' /\ OffchanSound'
    BY <1>2, <2>1, SoundStep
  <2>5. TypeOK'
    BY <2>2, <2>3 DEF TypeOK, PlainOK, ElemOK, OpOK, QueueOK, OddOK, BusOK, ToldOK
  <2>6. Fresh' /\ Handy'
    BY <1>2, <2>1, FreshStep, HandyStep
  <2>7. oops' = "no" => Freeing'
    BY <1>2, <2>1, FreeingStep
  <2>8. ASSUME oops' = "no", Prompt' PROVE Protocol'
    <3>1. Prompt
      BY <1>2, <2>8, PastGrows DEF Prompt
    <3>2. Known
      BY <2>1, <3>1 DEF Known
    <3> QED BY <1>2, <2>1, <2>8, <3>2, ProtocolStep
  <2> QED BY <2>4, <2>5, <2>6, <2>7, <2>8 DEF RInv, RocInv
<1> QED BY <1>1, <1>2

LEMMA RInvAlways == Spec => []RInv
BY InitSound, StepSound, PTL DEF Spec

\* rwnx_cfg80211_remain_on_channel, rwnx_rx_chan_switch_ind,
\* rwnx_rx_remain_on_channel_exp_ind and rwnx_close, with no lock between them:
\* no element is used after it is freed, leaked, or left behind by a request
\* that failed, and the off-channel queue follows the element, unless one of the
\* events that Excuses and the clauses of RocInv name has happened.
THEOREM RocSound == Spec => []RocInv
<1>1. RInv => RocInv
  BY DEF RInv
<1> QED BY <1>1, RInvAlways, PTL

CInv ==
    /\ ReturnsDiffer /\ \A n \in DOMAIN reports : ReportSound(n)
    /\ oops = "no" => Cookies

LEMMA InitCookies == Init => CInv
<1> SUFFICES ASSUME Init PROVE CInv
  OBVIOUS
<1>1. ret = [i \in Ids |-> 0] /\ cookie = 1 /\ DOMAIN reports = {}
  BY DEF Init
<1>2. Len(ind) = 0 /\ Len(chan) = 0 /\ chan = <<>>
  BY EmptySeq DEF Init
<1>3. \A i \in Ids : ret[i] = 0
  BY <1>1
<1>4. ~Ready
  BY <1>1 DEF Ready
<1>5. Ages /\ Announced /\ Asked /\ AnswerFirst /\ NotYet
  BY <1>2, <1>3, <1>4 DEF Init, Ages, Announced, Asked, AnswerFirst, NotYet
<1>6. Dated /\ OneReturn /\ ReturnsDiffer
  BY <1>1, <1>3 DEF Dated, OneReturn, ReturnsDiffer
<1>7. OneSwitch
  BY <1>2, <1>4 DEF Init, OneSwitch, Starting, NoSwitch
<1> QED BY <1>1, <1>5, <1>6, <1>7 DEF CInv, Cookies

LEMMA StepCookies == RInv /\ CInv /\ [Next]_vars => CInv'
<1>1. ASSUME CInv, UNCHANGED vars PROVE CInv'
  <2>1. UNCHANGED <<elem, mgmt_roc, on_chan, cookie, pc, cur, mgmt, rxpc, chan, ind, fw>>
        /\ UNCHANGED <<ops, past, ret, reports, oops>>
    BY <1>1 DEF vars, elemVars, cfgVars, opVars, rxVars, busVars, oddVars, toldVars
  <2>2. ReturnsDiffer' /\ \A n \in DOMAIN reports' : ReportSound(n)'
    BY <1>1, <2>1 DEF CInv, ReturnsDiffer, ReportSound
  <2>3. Cookies => Cookies'
    BY <2>1 DEF Cookies, Ages, Dated, Announced, OneReturn, NotYet, OneSwitch, Asked,
       AnswerFirst, Ready, Starting, NoSwitch, Prompt
  <2> QED BY <1>1, <2>1, <2>2, <2>3 DEF CInv
<1>2. ASSUME RInv, CInv, Next PROVE CInv'
  <2>1. oops = "no"
    BY <1>2 DEF Next
  <2>2. Before
    BY <1>2, <2>1, TypeParts DEF RInv, RocInv, CInv, Before
  <2>3. ReturnsDiffer' /\ (\A n \in DOMAIN reports : ReportSound(n))'
    BY <1>2, <2>1, <2>2, ReturnsStep, ReportsStep DEF CInv
  <2>4. Ages' /\ Dated' /\ Announced'
    BY <1>2, <2>1, <2>2, AgesStep, DatedStep, AnnouncedStep DEF Before, Cookies
  <2>5. OneReturn' /\ NotYet' /\ OneSwitch' /\ Asked' /\ AnswerFirst'
    BY <1>2, <2>1, <2>2, OneReturnStep, NotYetStep, OneSwitchStep, AskedStep,
        AnswerFirstStep
  <2> QED BY <2>3, <2>4, <2>5 DEF CInv, Cookies
<1> QED BY <1>1, <1>2

\* rwnx_rx_chan_switch_ind, rwnx_rx_remain_on_channel_exp_ind and the counter
\* roc_cookie_cnt, which the operations read and the receive thread advances with no
\* lock: requests get cookies of their own, and each is reported ready at most once,
\* then expired at most once, for what cfg80211 has asked for, unless one of the
\* events the clauses of CookiesMatch name has happened.
THEOREM CookiesSound == Spec => []CookiesMatch
<1>1. CInv => CookiesMatch
  BY DEF CInv, CookiesMatch
<1> QED BY <1>1, RInvAlways, InitCookies, StepCookies, PTL DEF Spec
=============================================================================
