------------------------------- MODULE CmdMgr -------------------------------
(***************************************************************************)
(* The firmware command manager of the AIC8800 FullMAC driver:             *)
(* rwnx_cmds.c (list, worker, confirmations) with the slot pool and the    *)
(* send path of rwnx_msg_tx.c and the teardown called by aicwf_bus_deinit. *)
(*                                                                         *)
(* Any number of kernel threads (Senders) call rwnx_send_msg at the same   *)
(* time.  Each call takes a slot from a static pool, queues it on a list   *)
(* under one spinlock, and either hands its message to the firmware itself *)
(* and waits, or leaves it to a single-threaded workqueue.  The USB receive*)
(* thread delivers confirmations; timers give up after four seconds.  A    *)
(* step below is one critical section, or one access made outside the lock.*)
(*                                                                         *)
(* Data that no property distinguishes is left out: message bodies, the    *)
(* token used only by the unused llind hook, REQ_CFM (set in every queued  *)
(* command), NONBLOCK and WAIT_ACK (never set in this driver), result codes*)
(* beyond whether the slot is given back.                                  *)
(***************************************************************************)
EXTENDS Integers, FiniteSets, SequencesExt

CONSTANTS
    Senders,        \* threads that call rwnx_send_msg and rwnx_send_msg1
    NumSlots,       \* RWNX_CMD_ARRAY_SIZE
    MaxQueued,      \* RWNX_CMD_MAX_QUEUED
    Ids,            \* confirmation ids a command may wait for
    TrafficIds,     \* the ids of ME_TRAFFIC_IND, which is never sent directly
    Requests,       \* the calls the rest of the driver makes
    Killable,       \* senders that may receive a fatal signal while they wait
    MayTimeout,     \* whether a timer can expire before the firmware answers
    MaxCalls        \* bound on the calls of a behaviour

Kinds == {"plain", "buffer", "defer", "oneway"}

ASSUME CmdMgrAssumption ==
    /\ NumSlots \in Nat \ {0}
    /\ MaxQueued \in Nat \ {0}
    /\ MaxCalls \in Nat
    /\ IsFiniteSet(Senders)
    /\ Ids # {}
    /\ TrafficIds \subseteq Ids
    /\ Requests \subseteq [id : Ids, kind : Kinds]
    /\ \A r \in Requests : r.id \in TrafficIds => r.kind = "plain"
    /\ Killable \subseteq Senders
    /\ MayTimeout \in BOOLEAN

Slots == 1..NumSlots
NoSlot == 0
Calls == 1..MaxCalls

VARIABLES
    slots,      \* the pool cmd_array, one record per slot
    cmds,       \* the list cmd_mgr->cmds, head first
    queue_sz,   \* cmd_mgr->queue_sz
    mgr,        \* cmd_mgr->state
    work,       \* cmdWork is pending on cmd_wq
    usb,        \* usbdev->state: "UP" or "DOWN"
    pc,         \* where each sender is
    my,         \* the slot each sender refers to
    wpc,        \* where the worker is
    wcur,       \* the worker's local variable next
    wflags,     \* the flags the worker read before it clears WAIT_PUSH
    dpc,        \* where the thread that tears the bus down is
    killed,     \* history: a caller was killed while its command was listed
    fw,         \* messages the firmware has and has not answered
    heap,       \* lmac_msg allocations not yet freed
    calls,      \* calls made so far
    oops        \* a broken list link or a null pointer was followed

listVars == <<cmds, queue_sz>>
senderVars == <<pc, my>>
workerVars == <<wpc, wcur, wflags>>
busVars == <<usb, dpc, killed>>
msgVars == <<fw, heap, calls>>
vars == <<slots, listVars, mgr, work, senderVars, workerVars, busVars, msgVars,
          oops>>

Flags == [push : BOOLEAN, cfm : BOOLEAN, done : BOOLEAN]

(***************************************************************************)
(* A slot: used (taken from the pool), its flags WAIT_PUSH, WAIT_CFM and   *)
(* DONE, whether its completion is signalled, reqid, whether e2a_msg points*)
(* into the frame of the caller, and a2e_msg, named by the call it is for. *)
(***************************************************************************)
Command == [used : BOOLEAN, flags : Flags, complete : BOOLEAN,
            id : Ids, buf : BOOLEAN, msg : 0..MaxCalls]

SenderPc == {"idle", "poll", "queue", "force", "send", "wake", "wakeforce",
             "push", "wait", "timedout", "release", "resume"}
WorkerPc == {"idle", "scan", "load", "store", "push", "wait", "timedout"}

NoFlags == [push |-> FALSE, cfm |-> FALSE, done |-> FALSE]

TypeOK ==
    /\ slots \in [Slots -> Command]
    /\ cmds \in Seq(Slots)
    /\ queue_sz \in Int
    /\ mgr \in {"INITED", "CRASHED", "DEINIT"}
    /\ work \in BOOLEAN
    /\ usb \in {"UP", "DOWN"}
    /\ pc \in [Senders -> SenderPc]
    /\ my \in [Senders -> Slots \cup {NoSlot}]
    /\ wpc \in WorkerPc
    /\ wcur \in Slots \cup {NoSlot}
    /\ wflags \in Flags
    /\ dpc \in {"up", "drain", "flush", "done"}
    /\ killed \in BOOLEAN
    /\ fw \subseteq [msg : 0..MaxCalls, id : Ids]
    /\ heap \subseteq Calls
    /\ calls \in 0..MaxCalls
    /\ oops \in BOOLEAN

Init ==
    /\ slots = [s \in Slots |-> [used |-> FALSE, flags |-> NoFlags,
                                 complete |-> FALSE,
                                 id |-> CHOOSE i \in Ids : TRUE,
                                 buf |-> FALSE, msg |-> 0]]
    /\ cmds = <<>> /\ queue_sz = 0 /\ mgr = "INITED" /\ work = FALSE
    /\ usb = "UP"
    /\ pc = [p \in Senders |-> "idle"] /\ my = [p \in Senders |-> NoSlot]
    /\ wpc = "idle" /\ wcur = NoSlot /\ wflags = NoFlags
    /\ dpc = "up" /\ killed = FALSE /\ fw = {} /\ heap = {} /\ calls = 0 /\ oops = FALSE

-----------------------------------------------------------------------------
(* Helpers *)

Listed(s) == s \in Range(cmds)
Position(s) == CHOOSE i \in DOMAIN cmds : cmds[i] = s

\* list_del and queue_sz--, the first half of cmd_complete.
Unlink(i) ==
    /\ cmds' = RemoveAt(cmds, i)
    /\ queue_sz' = queue_sz - 1

GoTo(p, label) == pc' = [pc EXCEPT ![p] = label]

\* The call is over for p, and its reference to the slot with it.
Return(p) ==
    /\ GoTo(p, "idle")
    /\ my' = [my EXCEPT ![p] = NoSlot]

\* What aicwf_set_cmd_tx hands to the firmware: nothing once the bus is down.
Transmit(s) ==
    fw' = IF usb = "UP"
          THEN fw \cup {[msg |-> slots[s].msg, id |-> slots[s].id]}
          ELSE fw

\* Mutant: rwnx_cmd_free leaves the slot in use.
FreeCmdLeaks(s) == slots' = [slots EXCEPT ![s].complete = FALSE]

\* rwnx_cmd_free; what is left in the completion no longer matters.
FreeCmd(s) ==
    slots' = [slots EXCEPT ![s] = [@ EXCEPT !.used = FALSE, !.complete = FALSE]]

FreeMsg(s) == heap' = heap \ {slots[s].msg}

Fault == oops' = TRUE

-----------------------------------------------------------------------------
(* A sender, in rwnx_send_msg, rwnx_send_msg1 and cmd_mgr_queue *)

EntryPc == [plain |-> "queue", buffer |-> "poll",
            defer |-> "force", oneway |-> "send"]

(***************************************************************************)
(* rwnx_msg_zalloc, the test that the bus is up (a call made when it is    *)
(* down frees its message and returns, which changes nothing), and         *)
(* rwnx_cmd_malloc with the fields set before anybody else sees the slot.  *)
(* The pool gives the first slot that is not used, and its flags keep what *)
(* the previous command left in them.  Nobody tests the result of          *)
(* rwnx_cmd_malloc: with no slot left the next line follows a null pointer.*)
(***************************************************************************)
FirstFree(s) ==
    /\ ~slots[s].used
    /\ \A t \in Slots : t < s => slots[t].used

Claim(s, r) ==
    slots' = [slots EXCEPT ![s] =
                [@ EXCEPT !.used = TRUE, !.id = r.id,
                          !.buf = (r.kind = "buffer"), !.msg = calls + 1]]

Malloc(p, r) ==
    /\ pc[p] = "idle" /\ usb = "UP" /\ calls < MaxCalls
    /\ calls' = calls + 1
    /\ heap' = heap \cup {calls + 1}
    /\ \/ \E s \in Slots :
            /\ FirstFree(s)
            /\ Claim(s, r)
            /\ my' = [my EXCEPT ![p] = s]
            /\ GoTo(p, EntryPc[r.kind])
            /\ UNCHANGED oops
       \/ /\ \A s \in Slots : slots[s].used
          /\ Fault
          /\ UNCHANGED <<slots, senderVars>>
    /\ UNCHANGED <<listVars, mgr, work, workerVars, busVars, fw>>

\* A caller that wants the answer copied back spins until the list is empty.
\* The lock is released again before the command is queued.
Poll(p) ==
    /\ pc[p] = "poll"
    /\ mgr = "CRASHED" \/ (mgr = "INITED" /\ cmds = <<>>)
    /\ GoTo(p, "queue")
    /\ UNCHANGED <<slots, listVars, mgr, work, my, workerVars, busVars,
                   msgVars, oops>>

Refused == mgr = "CRASHED" \/ (cmds # <<>> /\ queue_sz = MaxQueued)

\* -EPIPE or -ENOMEM: the slot goes back to the pool, the message is not freed.
Refuse(p) ==
    /\ pc[p] \in {"queue", "force"} /\ mgr # "DEINIT" /\ Refused
    /\ FreeCmd(my[p])
    /\ Return(p)
    /\ UNCHANGED <<listVars, mgr, work, workerVars, busVars, msgVars, oops>>

\* Mutant: only WAIT_PUSH makes the last command busy.
LastWaitsPush == cmds # <<>> /\ slots[cmds[Len(cmds)]].flags.push

\* WAIT_CFM or WAIT_PUSH in the last command of the list.
LastBusy ==
    /\ cmds # <<>>
    /\ LET f == slots[cmds[Len(cmds)]].flags IN f.push \/ f.cfm

\* The flags after queueing, after cmd_complete, and after a confirmation.
Queued(f, defer) == [f EXCEPT !.push = @ \/ defer, !.cfm = TRUE]
Done(f) == [f EXCEPT !.done = TRUE]
Answered(f) == [f EXCEPT !.cfm = FALSE, !.done = TRUE]

\* list_add_tail with the flags and a fresh completion, under the lock.
Enlist(s, defer) ==
    /\ cmds' = Append(cmds, s)
    /\ queue_sz' = queue_sz + 1
    /\ slots' = [slots EXCEPT ![s] =
            [@ EXCEPT !.complete = FALSE, !.flags = Queued(slots[s].flags, defer)]]

\* cmd_mgr_queue: this thread will push the command and wait.
QueueDirect(p) ==
    /\ pc[p] = "queue" /\ mgr = "INITED" /\ ~Refused
    /\ ~Listed(my[p]) /\ ~LastBusy /\ slots[my[p]].id \notin TrafficIds
    /\ Enlist(my[p], FALSE)
    /\ GoTo(p, "push")
    /\ UNCHANGED <<mgr, work, my, workerVars, busVars, msgVars, oops>>

\* cmd_mgr_queue behind an unfinished command or for a traffic indication,
\* and cmd_mgr_queue_force_defer: the worker will push it.
QueueDeferred(p) ==
    /\ pc[p] \in {"queue", "force"} /\ mgr = "INITED" /\ ~Refused
    /\ ~Listed(my[p])
    /\ pc[p] = "force" \/ LastBusy \/ slots[my[p]].id \in TrafficIds
    /\ Enlist(my[p], TRUE)
    /\ GoTo(p, IF pc[p] = "force" THEN "wakeforce" ELSE "wake")
    /\ my' = [my EXCEPT ![p] = NoSlot]
    /\ UNCHANGED <<mgr, work, workerVars, busVars, msgVars, oops>>

\* list_add_tail of a slot that is linked already.
LinkTwice(p) ==
    /\ pc[p] \in {"queue", "force"} /\ mgr = "INITED" /\ ~Refused
    /\ Listed(my[p])
    /\ Fault
    /\ UNCHANGED <<slots, listVars, mgr, work, senderVars, workerVars, busVars,
                   msgVars>>

AloneOnList == queue_sz <= 1

\* After the unlock: cmd_mgr_queue wakes the worker if queue_sz, read without
\* the lock, is at most one; cmd_mgr_queue_force_defer always does.  The call
\* then returns 0, whether or not the command has been sent.
WakeAfterQueue(p) ==
    /\ pc[p] \in {"wake", "wakeforce"} /\ mgr # "DEINIT"
    /\ work' = (work \/ pc[p] = "wakeforce" \/ AloneOnList)
    /\ GoTo(p, "idle")
    /\ UNCHANGED <<slots, listVars, mgr, my, workerVars, busVars, msgVars,
                   oops>>

PushDirect(p) ==
    /\ pc[p] = "push" /\ mgr # "DEINIT"
    /\ Transmit(my[p])
    /\ FreeMsg(my[p])
    /\ GoTo(p, "wait")
    /\ UNCHANGED <<slots, listVars, mgr, work, my, workerVars, busVars, calls,
                   oops>>

\* A message that asks for no confirmation bypasses the list, and gets none;
\* the slot is freed but the message is not.
SendOneWay(p) ==
    /\ pc[p] = "send" /\ mgr # "DEINIT"
    /\ FreeCmd(my[p])
    /\ Return(p)
    /\ UNCHANGED <<listVars, mgr, work, workerVars, busVars, msgVars, oops>>

\* wait_for_completion_killable_timeout returns non-zero, because the command
\* completed or because a fatal signal interrupted the wait; both free the slot,
\* and the latter leaves it on the list.
Awake(p) ==
    /\ pc[p] = "wait"
    /\ \/ slots[my[p]].complete /\ UNCHANGED killed
       \/ ~slots[my[p]].complete /\ p \in Killable /\ killed' = TRUE
    /\ FreeCmd(my[p])
    /\ GoTo(p, "resume")
    /\ my' = [my EXCEPT ![p] = NoSlot]
    /\ UNCHANGED <<listVars, mgr, work, workerVars, usb, dpc, msgVars, oops>>

\* Mutant: a caller whose command is done leaves the rest to others.
NothingLeft == FALSE

\* The list is read without the lock.
WorkLeft == cmds # <<>> /\ usb = "UP"

WakeAfterWait(p) ==
    /\ pc[p] = "resume" /\ mgr # "DEINIT"
    /\ work' = (work \/ WorkLeft)
    /\ GoTo(p, "idle")
    /\ UNCHANGED <<slots, listVars, mgr, my, workerVars, busVars, msgVars,
                   oops>>

\* With a device that is gone a timer always expires in the end.
MayExpire == MayTimeout \/ usb = "DOWN"

TimerExpires(p) ==
    /\ pc[p] = "wait" /\ MayExpire /\ ~slots[my[p]].complete
    /\ GoTo(p, "timedout")
    /\ UNCHANGED <<slots, listVars, mgr, work, my, workerVars, busVars,
                   msgVars, oops>>

\* Mutant: cmd_complete is called even if the command is done.
GiveUpTwice(s) ==
    /\ queue_sz' = queue_sz - 1
    /\ cmds' = SelectSeq(cmds, LAMBDA t : t # s)
    /\ slots' = [slots EXCEPT ![s] = [@ EXCEPT !.flags = Done(slots[s].flags)]]
    /\ UNCHANGED oops

(***************************************************************************)
(* The body of the timeout, under the lock: the manager is CRASHED for     *)
(* good, and cmd_complete takes the command off the list unless DONE is    *)
(* set.  DONE may be left from an earlier use of the slot: the command then*)
(* stays on the list.  WAIT_CFM is still set, so nothing is signalled.     *)
(* A command that a drain has unlinked is unlinked a second time.          *)
(***************************************************************************)
GiveUp(s) ==
    \/ /\ slots[s].flags.done
       /\ UNCHANGED <<slots, listVars, oops>>
    \/ /\ ~slots[s].flags.done /\ Listed(s)
       /\ Unlink(Position(s))
       /\ slots' = [slots EXCEPT ![s] =
                        [@ EXCEPT !.flags = Done(slots[s].flags)]]
       /\ UNCHANGED oops
    \/ /\ ~slots[s].flags.done /\ ~Listed(s)
       /\ Fault
       /\ UNCHANGED <<slots, listVars>>

\* Mutant: a timeout does not stop the manager.
CrashIgnored == UNCHANGED mgr

Crash == mgr' = "CRASHED"

TimeoutDirect(p) ==
    /\ pc[p] = "timedout" /\ mgr # "DEINIT"
    /\ Crash
    /\ GiveUp(my[p])
    /\ GoTo(p, "release")
    /\ UNCHANGED <<work, my, workerVars, busVars, msgVars>>

\* Back in rwnx_send_msg with -ETIMEDOUT.
Release(p) ==
    /\ pc[p] = "release"
    /\ FreeCmd(my[p])
    /\ Return(p)
    /\ UNCHANGED <<listVars, mgr, work, workerVars, busVars, msgVars, oops>>

-----------------------------------------------------------------------------
(* The worker, cmd_mgr_task_process on the single-threaded cmd_wq *)

WorkerStart ==
    /\ wpc = "idle" /\ work
    /\ work' = FALSE
    /\ wpc' = "scan"
    /\ UNCHANGED <<slots, listVars, mgr, senderVars, wcur, wflags, busVars,
                   msgVars, oops>>

\* Mutant: the scan does not stop at the head of the list.
FirstWaiting ==
    LET waiting == SelectSeq(cmds, LAMBDA s : slots[s].flags.push)
    IN IF waiting = <<>> THEN NoSlot ELSE Head(waiting)

\* "just judge the first": the worker never looks past the head of the list.
NextCmd ==
    IF cmds # <<>> /\ slots[Head(cmds)].flags.push THEN Head(cmds) ELSE NoSlot

WorkerScan ==
    /\ wpc = "scan"
    /\ wcur' = NextCmd
    /\ wpc' = IF NextCmd = NoSlot THEN "idle" ELSE "load"
    /\ UNCHANGED <<slots, listVars, mgr, work, senderVars, wflags, busVars,
                   msgVars, oops>>

\* Mutant: WAIT_PUSH stays set.
KeepPush(flags) == flags

ClearPush(flags) == [flags EXCEPT !.push = FALSE]

\* next->flags &= ~WAIT_PUSH without the lock is a load and a store: a
\* confirmation may change the flags in between and be overwritten.
WorkerLoad ==
    /\ wpc = "load"
    /\ wflags' = slots[wcur].flags
    /\ wpc' = "store"
    /\ UNCHANGED <<slots, listVars, mgr, work, senderVars, wcur, busVars,
                   msgVars, oops>>

WorkerStore ==
    /\ wpc = "store"
    /\ slots' = [slots EXCEPT ![wcur] = [@ EXCEPT !.flags = ClearPush(wflags)]]
    /\ wpc' = "push"
    /\ UNCHANGED <<listVars, mgr, work, senderVars, wcur, wflags, busVars,
                   msgVars, oops>>

WorkerPush ==
    /\ wpc = "push"
    /\ Transmit(wcur)
    /\ FreeMsg(wcur)
    /\ wpc' = "wait"
    /\ UNCHANGED <<slots, listVars, mgr, work, senderVars, wcur, wflags,
                   busVars, calls, oops>>

WorkerComplete ==
    /\ wpc = "wait" /\ slots[wcur].complete
    /\ FreeCmd(wcur)
    /\ wpc' = "scan" /\ wcur' = NoSlot
    /\ UNCHANGED <<listVars, mgr, work, senderVars, wflags, busVars, msgVars,
                   oops>>

WorkerTimerExpires ==
    /\ wpc = "wait" /\ MayExpire /\ ~slots[wcur].complete
    /\ wpc' = "timedout"
    /\ UNCHANGED <<slots, listVars, mgr, work, senderVars, wcur, wflags,
                   busVars, msgVars, oops>>

\* The slot is not freed, and the loop goes on with the next command.
WorkerTimeout ==
    /\ wpc = "timedout"
    /\ Crash
    /\ GiveUp(wcur)
    /\ wpc' = "scan" /\ wcur' = NoSlot
    /\ UNCHANGED <<work, senderVars, wflags, busVars, msgVars>>

-----------------------------------------------------------------------------
(* The firmware's confirmations, cmd_mgr_msgind in the receive thread *)

Matches(i, m) == slots[cmds[i]].id = m.id /\ slots[cmds[i]].flags.cfm

\* Mutant: any command that waits for the id may take the confirmation.
AnyTaker(i, m) == Matches(i, m)

\* The first command on the list that waits for this id takes it, pushed or not.
Taker(i, m) == Matches(i, m) /\ \A j \in 1..(i-1) : ~Matches(j, m)

Confirm(m) ==
    /\ m \in fw /\ usb = "UP"
    /\ fw' = fw \ {m}
    /\ \E i \in DOMAIN cmds :
        /\ Taker(i, m)
        /\ Unlink(i)
        /\ slots' = [slots EXCEPT ![cmds[i]] =
                [@ EXCEPT !.complete = TRUE,
                          !.flags = Answered(slots[cmds[i]].flags)]]
    /\ UNCHANGED <<mgr, work, senderVars, workerVars, busVars, heap, calls,
                   oops>>

\* Nobody waits for it any more, or nobody ever did.
Unclaimed(m) ==
    /\ m \in fw /\ usb = "UP"
    /\ \A i \in DOMAIN cmds : ~Matches(i, m)
    /\ fw' = fw \ {m}
    /\ UNCHANGED <<slots, listVars, mgr, work, senderVars, workerVars, busVars,
                   heap, calls, oops>>

-----------------------------------------------------------------------------
(* Teardown, aicwf_bus_deinit *)

\* aicwf_bus_stop: the device stops answering.
BusDown ==
    /\ dpc = "up"
    /\ usb' = "DOWN" /\ dpc' = "drain" /\ fw' = {}
    /\ UNCHANGED <<slots, listVars, mgr, work, senderVars, workerVars, killed,
                   heap, calls, oops>>

\* cmd_mgr_drain: every command is unlinked and its waiter signalled, with
\* DONE left as it was.
Drain ==
    /\ dpc = "drain"
    /\ slots' = [s \in Slots |-> [slots[s] EXCEPT !.complete = @ \/ Listed(s)]]
    /\ queue_sz' = queue_sz - Len(cmds)
    /\ cmds' = <<>>
    /\ dpc' = "flush"
    /\ UNCHANGED <<mgr, work, senderVars, workerVars, usb, killed, msgVars, oops>>

\* flush_workqueue, destroy_workqueue, and the manager is zeroed.
Deinit ==
    /\ dpc = "flush" /\ wpc = "idle" /\ ~work
    /\ mgr' = "DEINIT" /\ cmds' = <<>> /\ queue_sz' = 0 /\ dpc' = "done"
    /\ UNCHANGED <<slots, work, senderVars, workerVars, usb, killed, msgVars,
                   oops>>

\* A sender still inside the command manager follows its null pointers, or
\* reads the device that aicwf_usb_disconnect has freed.
UseAfterDeinit(p) ==
    /\ mgr = "DEINIT" /\ pc[p] \notin {"idle", "wait", "release"}
    /\ Fault
    /\ UNCHANGED <<slots, listVars, mgr, work, senderVars, workerVars, busVars,
                   msgVars>>

-----------------------------------------------------------------------------
SenderStep(p) ==
    \/ Poll(p) \/ Refuse(p) \/ QueueDirect(p) \/ QueueDeferred(p)
    \/ LinkTwice(p) \/ WakeAfterQueue(p) \/ PushDirect(p) \/ SendOneWay(p)
    \/ Awake(p) \/ WakeAfterWait(p) \/ TimerExpires(p) \/ TimeoutDirect(p)
    \/ Release(p) \/ UseAfterDeinit(p)

WorkerStep ==
    \/ WorkerStart \/ WorkerScan \/ WorkerLoad \/ WorkerStore \/ WorkerPush
    \/ WorkerComplete \/ WorkerTimerExpires \/ WorkerTimeout

FirmwareStep == \E m \in fw : Confirm(m) \/ Unclaimed(m)

\* Nobody is in a call and the worker sleeps; only a new call or a disconnect
\* would change anything.
Quiescent ==
    /\ \A p \in Senders : pc[p] = "idle"
    /\ wpc = "idle" /\ ~work
    /\ UNCHANGED vars

Next ==
    \/ /\ ~oops
       /\ \/ \E p \in Senders : SenderStep(p) \/ \E r \in Requests : Malloc(p, r)
          \/ WorkerStep
          \/ FirmwareStep
          \/ BusDown \/ Drain \/ Deinit
    \/ Quiescent
    \/ oops /\ UNCHANGED vars

Spec == Init /\ [][Next]_vars

(***************************************************************************)
(* Threads are scheduled, the firmware answers what it received, timers    *)
(* that may expire do, and a disconnect that has begun runs to its end.    *)
(* Nothing obliges the driver to make a call or the user to unplug.        *)
(***************************************************************************)
Fairness ==
    /\ \A p \in Senders : WF_vars(~oops /\ SenderStep(p))
    /\ WF_vars(~oops /\ WorkerStep)
    /\ WF_vars(~oops /\ FirmwareStep)
    /\ WF_vars(~oops /\ (Drain \/ Deinit))

FairSpec == Spec /\ Fairness
-----------------------------------------------------------------------------
(* Properties *)

\* cmd_mgr_queue counts by hand what the list holds, tests the limit only when
\* the list is not empty, and cmd_complete, drain and the timeouts each undo
\* the count: the count is the length, within the limit, and no slot is linked
\* twice.
ListSound ==
    ~oops => /\ queue_sz = Len(cmds)
             /\ queue_sz <= MaxQueued
             /\ IsInjective(cmds)

\* Two paths push commands, the caller's and the worker's, and neither holds the
\* lock while it does: still only the oldest unfinished command is ever sent,
\* and the message of every other one is intact.
OnlyHeadSent ==
    ~oops => \A i \in 2..Len(cmds) :
                /\ slots[cmds[i]].flags.push
                /\ slots[cmds[i]].msg \in heap

\* No command was given up, by a timeout or a killed caller, and none drained.
Clean == mgr = "INITED" /\ dpc \in {"up", "drain"} /\ ~killed /\ ~oops

\* aicwf_set_cmd_tx marshals every message into the one cmd_buf of the bus and
\* takes no lock.  While nothing is given up, the list alone keeps two commands
\* from being marshalled at the same time; messages without confirmation
\* (SendOneWay) bypass the list, and are not kept from it.
OneTransmitter ==
    Clean =>
        Cardinality({ s \in Senders : pc[s] = "push" }
            \cup { x \in {"worker"} : wpc \in {"load", "store", "push"} }) <= 1

\* A message is handed to aicwf_set_cmd_tx before it is freed, by one of the
\* two paths and only once.
SentMessageAlive ==
    ~oops => /\ \A p \in Senders : pc[p] \in {"push", "send"} =>
                    slots[my[p]].msg \in heap
             /\ wpc \in {"load", "store", "push"} => slots[wcur].msg \in heap

\* The thread that will give slot s back to the pool.
Holders(s) == {p \in Senders : my[p] = s}
Deferred(s) == Listed(s) /\ slots[s].flags.push

\* As long as nothing is given up, no slot leaks and none is freed early:
\* exactly one of a sender, the worker and the deferred part of the list is
\* responsible for each slot that is in use, and nobody for the others.
SlotOwned ==
    Clean =>
        \A s \in Slots :
            IF slots[s].used
            THEN \/ wcur # s /\ ~Deferred(s) /\ \E p \in Senders : Holders(s) = {p}
                 \/ wcur # s /\ Deferred(s) /\ Holders(s) = {}
                 \/ wcur = s /\ Holders(s) = {}
            ELSE wcur # s /\ ~Listed(s) /\ Holders(s) = {}

\* rwnx_cmd_malloc returns NULL to callers that do not test it.  The pool has
\* room for a full list, the command the worker waits for and one per sender,
\* also after timeouts, which leak slots, until a disconnect drains the list or
\* a killed caller leaves a slot on the list that somebody else takes.
PoolSuffices ==
    dpc = "up" /\ ~killed /\ NumSlots > MaxQueued + Cardinality(Senders) => ~oops

\* With no traffic indication, a command deferred at the head of the list while
\* the worker sleeps always has somebody who is about to wake it, although the
\* three places that decide to wake it read the list without the lock.  (A
\* sender that is timing out is about to declare the manager crashed.)
WakerPending ==
    /\ Clean /\ usb = "UP" /\ TrafficIds = {}
    /\ cmds # <<>> /\ slots[Head(cmds)].flags.push /\ wpc = "idle" /\ ~work
    /\ \A p \in Senders : pc[p] # "timedout"
    =>      \E p \in Senders :
                \/ pc[p] \in {"wakeforce", "resume"}
                \/ pc[p] = "wake" /\ queue_sz <= 1
                \/ pc[p] = "wait" /\ slots[my[p]].complete

\* msgind finds the command by the confirmation id alone, and several commands
\* with one id may be queued: until one is given up, the command completed
\* by a confirmation is the one whose message the firmware is answering.
OwnConfirm ==
    [][\A m \in fw \ fw' : Clean /\ usb' = "UP" =>
            /\ Len(cmds') = Len(cmds) - 1
            /\ slots[cmds[1]].msg = m.msg
            /\ slots'[cmds[1]].complete]_vars

\* Every call returns: the poll, the wait and the timeouts leave nobody behind.
CallsReturn == \A p \in Senders : pc[p] # "idle" ~> pc[p] = "idle" \/ oops

\* Every command accepted on the list leaves it, unless the manager crashes
\* because a timer expires before the answer.
CommandsFinish ==
    \A s \in Slots : Listed(s) ~> ~Listed(s) \/ mgr # "INITED" \/ oops

Working == mgr = "INITED" /\ usb = "UP" /\ ~killed

Channel == INSTANCE CmdChannel WITH
    Commands <- Calls,
    broken <- ~Working,
    queue <- IF Working THEN [i \in DOMAIN cmds |-> slots[cmds[i]].msg] ELSE <<>>,
    handed <- Working /\ cmds # <<>> /\ slots[Head(cmds)].msg \notin heap

\* The manager is a one-at-a-time FIFO channel to the firmware.
ImplementsChannel == Channel!ChannelSpec
-----------------------------------------------------------------------------
(* The inductive invariant behind ListSound, OnlyHeadSent, SentMessageAlive *)

HasSlot == {"poll", "queue", "force", "send", "push", "wait", "timedout",
            "release"}

\* A thread that uses its slot has one.
Held ==
    /\ \A p \in Senders : my[p] # NoSlot <=> pc[p] \in HasSlot
    /\ wcur # NoSlot <=> wpc \notin {"idle", "scan"}

Counted == queue_sz = Len(cmds) /\ queue_sz <= MaxQueued
NoDuplicate == \A i, j \in 1..Len(cmds) : cmds[i] = cmds[j] => i = j

\* Whatever is on the list waits for a confirmation, and all but the head for
\* the worker.
AllWaitCfm == \A i \in 1..Len(cmds) : slots[cmds[i]].flags.cfm
TailWaitsPush == \A i \in 2..Len(cmds) : slots[cmds[i]].flags.push

\* A slot has one user; WAIT_PUSH is set only while the slot is nobody's but
\* the list's or the worker's.
OneUser ==
    /\ \A p, q \in Senders : my[p] = my[q] /\ my[p] # NoSlot => p = q
    /\ \A p \in Senders : my[p] # NoSlot =>
            /\ my[p] # wcur
            /\ slots[my[p]].used /\ ~slots[my[p]].flags.push
    /\ \A s \in Slots : slots[s].flags.push => slots[s].used

\* The command the worker took is still the head, or gone from the list.
WorkerAtHead ==
    wcur # NoSlot =>
        /\ slots[wcur].used
        /\ \A i \in 1..Len(cmds) : cmds[i] = wcur => i = 1
        /\ wpc \in {"push", "wait", "timedout"} => ~slots[wcur].flags.push
        /\ wpc = "store" /\ ~wflags.cfm => \A i \in 1..Len(cmds) : cmds[i] # wcur

\* Messages are distinct, and whoever will send one finds it allocated.
MessagesDistinct ==
    /\ \A s \in Slots : slots[s].msg <= calls
    /\ \A s, t \in Slots : slots[s].msg = slots[t].msg => s = t \/ slots[s].msg = 0
MessagesHeld ==
    /\ \A s \in Slots : slots[s].flags.push => slots[s].msg \in heap
    /\ \A p \in Senders : pc[p] \in {"poll", "queue", "force", "send", "push"} =>
            slots[my[p]].msg \in heap
    /\ wpc \in {"load", "store", "push"} => slots[wcur].msg \in heap

Core == /\ Counted /\ NoDuplicate /\ AllWaitCfm /\ TailWaitsPush /\ OneUser
        /\ WorkerAtHead /\ MessagesDistinct /\ MessagesHeld

IInv == TypeOK /\ Held /\ (~oops => Core)

(***************************************************************************)
(* The inductive invariant behind OneTransmitter, SlotOwned, PoolSuffices, *)
(* WakerPending, OwnConfirm and the refinement                             *)
(***************************************************************************)

\* The command in somebody's hands is the head of the list until it is done.
InHand(s) ==
    IF slots[s].complete
    THEN ~Listed(s) /\ slots[s].flags.done
    ELSE cmds # <<>> /\ Head(cmds) = s

SendersInHand ==
    \A p \in Senders :
        /\ pc[p] # "release"
        /\ pc[p] \in {"poll", "queue", "force", "send"} => ~Listed(my[p])
        /\ pc[p] \in {"push", "wait", "timedout"} => InHand(my[p])
        /\ pc[p] = "push" => ~slots[my[p]].complete
        /\ pc[p] \in {"wait", "timedout"} => slots[my[p]].msg \notin heap

WorkerInHand ==
    wcur # NoSlot =>
        /\ InHand(wcur)
        /\ wpc \in {"load", "store", "push"} => ~slots[wcur].complete
        /\ wpc = "load" => slots[wcur].flags.push
        /\ wpc = "store" => wflags = slots[wcur].flags
        /\ wpc \in {"wait", "timedout"} => slots[wcur].msg \notin heap

\* A slot is in use for a sender, for the worker, or deferred on the list; and
\* what is on the list is not done.
SlotsInUse ==
    \A s \in Slots :
        /\ slots[s].used => s = wcur \/ Deferred(s) \/ \E p \in Senders : my[p] = s
        /\ Listed(s) => /\ slots[s].used /\ ~slots[s].complete
                        /\ \/ s = wcur \/ slots[s].flags.push
                           \/ \E p \in Senders : my[p] = s

\* The firmware answers the head of the list, which was pushed.
HeadAnswered ==
    \A m \in fw :
        /\ cmds # <<>>
        /\ m.msg = slots[Head(cmds)].msg /\ m.id = slots[Head(cmds)].id
        /\ m.msg \notin heap

\* A command deferred at the head while the worker sleeps has somebody to wake
\* it: its own sender, or the one whose command left the head.
HeadHasWaker ==
    /\ TrafficIds = {} /\ usb = "UP"
    /\ cmds # <<>> /\ slots[Head(cmds)].flags.push /\ wpc = "idle" /\ ~work
    =>  \E p \in Senders :
            \/ pc[p] \in {"wakeforce", "resume"}
            \/ pc[p] \in {"wait", "timedout"} /\ slots[my[p]].complete

CleanCore ==
    SendersInHand /\ WorkerInHand /\ SlotsInUse /\ HeadAnswered /\ HeadHasWaker

\* After a timeout: a command that is given up is still linked, unless DONE says
\* that it is not, and the worker's store does not clear DONE on one that is
\* not; and slots that no sender holds become no more.
Unlinkable(s) == Listed(s) \/ slots[s].flags.done
GiveUpFinds ==
    /\ \A p \in Senders : pc[p] \in {"push", "wait", "timedout"} => Unlinkable(my[p])
    /\ wcur # NoSlot =>
            IF wpc = "timedout" THEN Unlinkable(wcur)
            ELSE Listed(wcur) \/ slots[wcur].complete

Orphans == {s \in Slots : slots[s].used /\ \A p \in Senders : my[p] # s}
FewOrphans == Cardinality(Orphans) <= MaxQueued + 1

CleanInv ==
    /\ usb = "UP" <=> dpc = "up"
    /\ Clean => CleanCore
    /\ dpc = "up" /\ ~killed /\ ~oops => GiveUpFinds /\ FewOrphans /\ mgr # "DEINIT"
    /\ PoolSuffices

CmdInv == IInv /\ CleanInv
=============================================================================
