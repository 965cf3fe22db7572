# A TLA+ model of the AIC8800 USB Wi-Fi driver

This directory holds TLA+ modules that model the parts of the driver in
`src/drivers/aic8800/` where several threads, the firmware and the USB bus
meet, TLC configurations that model-check them on small instances, and proofs
that TLAPS checks for every value of the constants. `PROJECT.json` lists the
components, runs, mutants, theorems and hazards, and maps every definition to
the lines it translates. Paths below are relative to
`src/drivers/aic8800/aic8800_fdrv/` unless they start with `src/`.

To repeat a check: `tlc -config cmd_core.cfg MCCmdMgr` (each run's module is in
`PROJECT.json`), and `tlapm CmdMgr_proofs.tla` (and each other `*_proofs.tla`) for
the proofs, a few minutes together.

## 1. Inventory

The repository is a Linux kernel driver in two modules. `aic_load_fw` loads the
firmware; `aic8800_fdrv` is the FullMAC Wi-Fi driver, an adaptation of
CEVA's RivieraWaves driver to a USB bus. The build that matters compiles it
with `AICWF_USB_SUPPORT`, `CONFIG_RWNX_FULLMAC` and `CONFIG_FILTER_TCP_ACK`;
SDIO, PCI, receive reordering, MU-MIMO and A-MSDU are not compiled in and are
left aside. `src/pkg/` is a second copy of the sources, `src/aicrf_test/` holds
command-line tools.

### Components

| Component | State | Operations | Meets |
|---|---|---|---|
| Firmware command manager (`rwnx_cmds.c`, `rwnx_msg_tx.c`) | list of commands and its hand-kept length, pool of 20 slots, CRASHED flag, one work item | send (direct, deferred, one-way, polling), worker, confirmation, timeout, drain, deinit | every caller of cfg80211, the receive thread, the USB bus |
| AP transmit queues (`rwnx_txq.c`, `rwnx_tx.c`) | per queue: frames, stop bits, credits, push limit, link in a hardware queue's list; per station: sleep, frames ready, open service period, TIM; netdev queues | xmit, tasklet, power-save and channel indications, confirmations, retries, station add/delete, flow control | network stack on any CPU, receive thread, cfg80211, USB bus |
| Firmware indications (`rwnx_msg_rx.c`) | none of its own | dispatch to the two above, scan, connect, remain on channel | receive thread |
| USB data transmission (`aicwf_usb.c`) | 50 buffers on three lists, `tbusy`, water marks | queue, submit, complete, fail, stop | transmit queues, URB completions |
| USB reception (`aicwf_usb.c`, `aicwf_txrxif.c`) | 20 buffers, receive queue, `rx_cnt`, completion | complete, drain by a thread, resubmit | all indications and confirmations |
| USB messages (`aicwf_usb.c:1157-1232`) | one `cmd_buf`, `msg_busy` bit, wait queue | send one message synchronously | command manager's callers and worker |
| USB lifecycle | bus state, three threads, hand-shake between disconnect and module exit | probe, disconnect, exit, deinit | everything |
| Host transmit ring (`usb_host.c`) | slots of frames that await confirmation | push, confirm, reset | transmit queues |
| TCP acknowledgement filter (`aicwf_tcp_ack.c`) | 32 slots with a held frame, a timer and a sequence lock each | filter, replace, age, send by timer | xmit path, timers |
| Network and cfg80211 operations (`rwnx_main.c`) | interfaces, stations, channel contexts, remain-on-channel element | add/delete, connect, start AP, scan | all of the above |
| Received frames, radar, TDLS, mesh, debug files, tables, firmware loader, tools | see `PROJECT.json` | | |

### How they interact

A cfg80211 or ioctl thread builds a message and calls the command manager; the
message goes over USB to the firmware, whose confirmation comes back through
the receive thread. Frames come from the network stack into a transmit queue
and go from there, at once or in the tasklet, to the USB data path; the
firmware's confirmations of frames come through the receive thread as well.
The same thread runs the indications (a station falls asleep or asks for
frames, the channel is left, an interface is absent) that stop, start and
schedule queues. Disconnect takes the bus down, drains the command manager and
frees it.

### What is hard, and what correctness means

* **Command manager.** The list is used under a lock, but who pushes a command,
  who wakes the worker and who frees a slot is decided outside it; timeouts,
  fatal signals and the drain end a call while others still refer to its slot.
  Correct means: the list and its count agree and nothing is linked twice; one
  command at a time reaches the firmware, in order; a confirmation completes
  the command it answers; a message is sent before it is freed; slots neither
  leak nor run out; every call returns and every accepted command is served.
* **Transmit queues.** Up to six independent reasons stop a queue, two counters
  per station are kept by hand, and the locks the comments name are not all
  taken. Correct means: a listed queue has frames and somebody who will process
  it, and a queue that may send is listed; no frame leaves while the interface
  is off its channel, and to a sleeping station only what it asked for; service
  periods and netdev stops end.
* **USB data, reception, messages.** Wake-ups are edge-triggered by counters
  under other locks than the flags they drive. Correct means: no stopped queue
  and no queued frame is left without somebody who will wake or process it;
  buffers are on exactly one list; a message is not overwritten while it is
  being sent.
* **Acknowledgement filter.** A held frame is sent or dropped exactly once
  although its timer, its replacement and the reuse of the slot race.
* **Lifecycle.** Nothing is used after it was freed, and disconnect ends.
* **Remain on channel.** One element, published by the requesting thread, used
  and freed by the receive thread, dropped by a closing interface, under no lock.
  Correct means: it is used only while it exists, goes away in the end, and what
  cfg80211 is told matches what it asked.

`PROJECT.json` lists under `hazards` each of these at the line where it bites.

## 2. Plan

| Order | Modules | Abstract specification, theorems | State |
|---|---|---|---|
| 1 | `CmdMgr`, `CmdChannel` | one-at-a-time FIFO channel: the inductive invariant, every safety property of the runs and the refinement | done |
| 2 | `TxQueue` | the inductive invariant of the queues without station events and confirmations, and from it every safety property; next: what survives when stations come and go | done without those events |
| 3 | `UsbTx` (buffers, flow control, host ring, suspend) | a stop has somebody to lift it; buffers on one list; a confirmation finds its frame | done |
| 4 | `UsbRx` (reception, suspend, disconnect) | no lost wake-up, reception recovers, a disconnect ends | done |
| 5 | `TcpAck` | each held acknowledgement sent or dropped once; the newest one kept | done |
| 6 | the message pipe (`msg_busy`, its waits) below `CmdMgr`'s `Transmit` | a message is not overwritten while it is sent | open |
| 7 | `RemainOnChannel` | nothing used after free, one cookie for each request | done |
| 8 | module exit | nothing used after free | open |

No module uses `RECURSIVE`; helpers come from the community modules, so all of
them can be proved about.

## 3. Modules

### CmdMgr: the command manager

One step is one critical section of `cmd_mgr->lock`, or one access the code
makes outside it. The senders are any number of threads in `rwnx_send_msg` or
`rwnx_send_msg1`; the program counter `pc[p]` says where each is:

| Code | Actions |
|---|---|
| `rwnx_msg_zalloc`, `rwnx_cmd_malloc` | `Malloc` (first free slot, old flags kept; a null slot is an oops) |
| polling loop for an empty list, `rwnx_msg_tx.c:448-470` | `Poll`, then `QueueDirect` or `QueueDeferred` as a separate step |
| `cmd_mgr_queue` | `Refuse`, `QueueDirect`, `QueueDeferred`, `WakeAfterQueue`, `PushDirect`, `Awake`, `WakeAfterWait`, `TimerExpires`, `TimeoutDirect` |
| `cmd_mgr_queue_force_defer` | `QueueDeferred` from `force`, `WakeAfterQueue` |
| one-way messages | `SendOneWay` |
| `cmd_mgr_task_process` on the workqueue | `WorkerStart`, `WorkerScan`, `WorkerLoad`/`WorkerStore` (the unlocked `flags &= ~WAIT_PUSH`), `WorkerPush`, `WorkerComplete`, `WorkerTimerExpires`, `WorkerTimeout` |
| `cmd_mgr_msgind` in the receive thread | `Confirm`, `Unclaimed` |
| `aicwf_bus_stop`, `cmd_mgr_drain`, `rwnx_cmd_mgr_deinit` | `BusDown`, `Drain`, `Deinit` |
| entering the freed manager, linking a linked slot, unlinking an unlinked one | `UseAfterDeinit`, `LinkTwice`, a branch of `GiveUp`: each sets `oops` and the model stops |

Messages are numbered by call (`MaxCalls` bounds the calls); the set `heap`
holds those not freed, `fw` those the firmware has not answered. The firmware
answers in any order. `CmdChannel` is the abstract channel: accept, hand over
the oldest, answer it, break. `ImplementsChannel` is the refinement: the list is
the channel's queue until a timeout, a fatal signal or a disconnect breaks it.
`killed` is history: a sender of `Killable` was killed while it waited, and left its
slot listed (section 7).

### TxQueue: transmit queues of an access point

A queue is a record: `stop` (the stop bits of the status word), `listed` (its
`RWNX_TXQ_IN_HWQ_LIST` bit), `links` (how often it really is in the list),
`sk_list`, `credits`, `push_limit`, `flow` (`NDEV_FLOW_CTRL` bit) and `closed`
(the netdev queue itself is stopped). The two pairs are kept apart because the
code can make them disagree. A station has `phase`, `ps` (asleep), and per
power-save id the counters `ready` and `sp` and the bit `tim`.

| Code | Actions |
|---|---|
| `rwnx_start_xmit`, `intf_tx`, `rwnx_start_mgmt_xmit` | `XmitCheck` (before the lock), `XmitQueue`, `XmitProcess` |
| `rwnx_task` | `Task` |
| `rwnx_hwq_process` | operators `Process`, `Pass`, `Taken`, `Finished`; its `BUG_ON`s set `bug` |
| power-save change, `rwnx_ps_bh_enable` | `PsChangeInd` (reads `sta->valid`), `PsChange`, `PsRemember` |
| `rwnx_ps_bh_traffic_req` | `TrafficReq`, `SpInterrupted` |
| channel, absence and CSA indications | `VifStop`, `VifStart` |
| credit indication | `CreditUpdate` |
| data confirmation and retry, without `tx_lock` | `Cfm`, `CfmRetry`, `CfmInsert`, `CfmLink`, `CfmLinked` |
| `rwnx_cfg80211_del_station`, `rwnx_txq_deinit` | `StaUnlink`, `TxqDeinit`, `TxqFlush`, `StaGone` |
| `rwnx_cfg80211_add_station` | `StaAdd`, `StaRefused`, `StaInit`, `StaLink`, `StaAdded` |
| `aicwf_usb_tx_flowctrl` | `BusStop`, `BusWake` |

`Events` selects which optional events the environment produces, so that a run
can say under which of them a property holds. The decisions of
the firmware are free, except that it forwards a station's request only while
the interface is on its channel: a guard of `TrafficReq` that `rwnx_ps_bh_traffic_req`
does not have, an assumption on the order in which the firmware works. `OffChannelSilent`
and the theorems rest on it.

Five of the properties are action properties that say which steps may break a promise
of the code: `OnlyRequested`, `SpServed`, `TimTold`, `WorkScheduled` and `StopsFollow` name
the steps of section 7 that do, and forbid all others, in runs that contain both.

### UsbTx: data transmission and the ring of pushed frames

The senders are serialized by `tx_lock`, so there is one, with a program counter
`spc`; the bus thread has `tpc`. The lists are kept as far as they matter:
`free` and `flight` are counts, `post` the sequence of frames posted.

| Code | Actions |
|---|---|
| `rwnx_tx_push`, `aicwf_usb_host_txdesc_push` | `TxPush` |
| `aicwf_frame_tx` on a bus that is down | `TxDown` (stops the netdev queues, drops the frame) |
| `aicwf_usb_bus_txdata` | `TxNotUp`, `TxNoBuf`, `TxTake`, `TxPost`, `TxTrigger`, `TxFlow` (the low-water mark) |
| `usb_bustx_thread`, `aicwf_usb_tx_process` | `ThreadWake`, `ThreadDone`, `ThreadTake`, `SubmitUrb`, `SubmitFails` |
| `aicwf_usb_tx_complete` | `TxComplete` (buffer back), `TxCompleteFlow` (the high-water mark) |
| `aicwf_usb_host_tx_cfm_handler` | `TxCfm`, `TxCfmEmpty` (in any order) |
| suspend, `bus_start`, `aicwf_usb_tx_prepare` | `Suspend`, `SuspendStop`, `Resume`, `TxPrepare`, `ResumeDone` |

`TxQueue`'s `BusStop` and `BusWake` are the effect of `TxFlow` and
`TxCompleteFlow` on the netdev queues; its assumption that the bus wakes what it
stopped is `TrafficResumes` here. The variables `unchecked`, `deaf`, `overrun`
and `owed` are history: they name what the properties except.

### UsbRx: reception and the end of the device

| Code | Actions |
|---|---|
| `aicwf_usb_rx_complete` | `RxEnqueue`, `RxEmpty`, `RxNotUp`, `RxError`, `RxKilled`, then `RxCount`, `RxWake`, `RxPut`, and for a failed URB `WaitCheck`, `WaitZero`, `WaitDown` |
| `aicwf_usb_rx_submit_all_urb` (handler, resume) | `RefillTake`, `RefillSubmit`, `RefillFails`, `RefillDone` |
| `usb_busrx_thread`, `aicwf_process_rxframes` | `RxThreadWake`, `RxThreadTake`, `RxHandle`, `RxNoMemory`, `RxThreadDec`, `RxThreadDone` |
| suspend and resume | `Suspend`, `SuspendStop`, `Resume`, `ResumeDone` |
| `aicwf_usb_disconnect` | `Disconnect`, `DisconnectZero`, `DisconnectDown` (the semaphore), `DisconnectStop` |
| `aicwf_bus_deinit`, `aicwf_rx_deinit` | `CancelUrbs`, `PlatformDeinit`, `StopThread`, `RxDeinit` |

A use of freed memory sets `corrupt`, and the model stops there.

### TcpAck: the filter of TCP acknowledgements

One sender per connection (`pc`, `msg`, `slot`), because the frames of a connection
pass one netdev queue's lock; one timer handler per slot (`tpc`, `tmsg`). Sequence numbers wrap
at `SeqMod`. What TCP waits for is history: `asked` is the newest
acknowledgement it handed over, `acked` the newest the filter let through. A slot is
`foreign` when the number in it is not one of the connection it is matched by, but of an
earlier one with the same ports or of another one that handled the slot; only there may
the newest acknowledgement be taken for old (`HandleOld`, `lost`), so that a comparison
of numbers that fails at the wrap breaks `NewestKept`. `Tracks` is the invariant behind it.

A sender looks for a free slot under `ack_m->lock`, but the slots have sequence locks of
their own: whoever writes one makes the search read it again and count it again (`Counts`,
at most once more in one search, a bound). The aging in `tcp_ack_update` is no such writer: it takes
`ack_m->lock` (`aicwf_tcp_ack.c:290`).

| Code | Actions |
|---|---|
| `filter_send_tcp_ack`, `tcp_ack_update` | `Submit` (with aging), `Match`, `Alloc`, `Write` |
| `tcp_ack_handle_new` | `HandleSend`, `HandleHold`, `HandleOld` |
| `move_tcpack_msg` and the return to `rwnx_start_xmit` | `Pass` |
| `tcp_ack_timeout`, `intf_tx` | `Fire`, `TimeoutTake`, `TimeoutGivesUp`, `TimeoutSend` |
| `filter_rx_tcp_ack` | `RxPush` (slot found), `RxMark` (slot written) |
| a connection that reuses ports | `Reopen` (the environment) |
| removal, `tcp_ack_deinit` | `Unregister`, `Deinit` slot by slot |

Time is abstracted to one assumption, in `Idle`: a slot is aged only after 4 s
without a touch, so no timer of it is pending and no sender is still on its way
with it, except one that has just matched it and has yet to take its lock.

### RemainOnChannel: one time on another channel

The operations of cfg80211 and the closing of an interface are one thread, `pc`:
nl80211 takes the rtnl lock before the wiphy's mutex, and `ndo_stop` runs under
the former. Beside it run the receive thread (`rxpc`) and the tasklet. `elem` is
`roc_elem`, `heap` what is not freed; an element is numbered by the operation that
allocated it. Commands (`chan`) and messages (`ind`) pass in order.

| Code | Actions |
|---|---|
| `rwnx_cfg80211_remain_on_channel`, `rwnx_send_roc` | `Request`, `Recheck`, `RocNoMem`, `RocInit` (resets the off-channel queue), `Publish`, `SendRoc`, `WaitEnds`, `RocDone`, `RocFails` |
| `rwnx_cfg80211_cancel_remain_on_channel` | `Cancel`, `AnswerLate` |
| `rwnx_cfg80211_mgmt_tx`, `rwnx_start_mgmt_xmit` | `MgmtTx`, `MgmtUse`, `MgmtMark`, `XmitCheck`, `XmitQueue` |
| `rwnx_close`, `rwnx_open` | `Close`, `AnswerLate`, `CloseLook`, `CloseClear`, `Open` |
| confirmations in `cmd_mgr_msgind` | `RxStartCfm`, `RxCancelCfm`, `RxRemoveCfm` |
| `rwnx_rx_chan_switch_ind` | `RxSwitch` |
| `rwnx_rx_remain_on_channel_exp_ind` | `RxExp`, `RxFree`, `RxForget` |
| off-channel queue: `rwnx_txq_offchan_start`, `_deinit`, the tasklet | `OffchanStart`, `OffchanDeinit`, `OffchanTask` |
| the firmware (external) | `FwStart`, `FwCancel`, `FwRemove`, `FwSwitch`, `FwExpire` |

`Odd` selects what may go wrong (a refused command, a timeout, a sender that goes
on early or late, a closing). `past`, `reports` and `ret` are history. `oops` names the
place where memory was used that is not there, and the model stops; `Excuses` lists
what must have happened before: for the expiry nothing suffices, for `mgmt_tx` nothing
is needed (section 7).

The `MC` modules define the instances, the `_proofs` modules hold the theorems
(section 6). Operators marked `Mutant:` are plausible mistakes of the code; each
property of a passing run is shown to fail when one of them replaces the real
definition.

## 4. Runs

| Run | Question | Instance and bounds |
|---|---|---|
| `cmd_core` | Is the manager a one-at-a-time FIFO channel with sound list, slots and messages? `ListSound OnlyHeadSent OneTransmitter SentMessageAlive SlotOwned CmdInv OwnConfirm ImplementsChannel` | 2 senders, both killable, 4 slots, list limit 2, 3 calls of every kind, timeouts and a disconnect; 1.8 M states |
| `cmd_pool` | Can the pool run dry? `PoolSuffices` | 4 slots, list limit 1, 5 deferred calls whose timeouts leak slots, a disconnect; 0.8 M states |
| `cmd_live` | Does every call return and every command get served? `WakerPending CallsReturn CommandsFinish` | direct and polling calls, timeouts, disconnect, fairness; 0.3 M states |
| `txq_service` | Do frames, counters, service periods and flow control agree, and do periods and backlogs end? `QueuesSound NetdevHeld Drains PeriodEnds` | two data queues (one of each power-save kind) and the management queue, 2 frames each and 1 credit, requests of up to 2, bus stops, fairness |
| `txq_channel` | Do overlapping stop reasons respect each other, and what may break what a period, a beacon or the tasklet owes? `StopsAgree NotForgotten OffChannelSilent OnlyRequested SpServed TimTold WorkScheduled` | two U-APSD queues of up to 3 frames with 2 credits, two senders, all three interface reasons, interrupted periods; 0.85 M states |
| `txq_stations` | Is a listed queue processed, and does a new one get the stop bits, while a sleeping station comes and goes? `WorkScheduled StopsFollow` | one queue of 2 frames with 1 credit, two late senders, late indications, absences; stops at the first corrupted list (`ListsIntact`) |
| `txq_confirm` | Does the stop of the channel hold against confirmations that run without the lock? `OffChannelSilent` | one queue, two senders, retries up to `FewRetries` |
| `usb_flow` | Is a stop always lifted, a posted frame always submitted? `UsbTxInv StopHasWaker TrafficResumes PostedIsSubmitted` | 5 buffers (marks 1 and 3), one refused submission, one suspend, fairness; 0.12 M states |
| `usb_ring` | Does a confirmation find its frame? `RingSound` | a ring of 2, 3 frames to confirm and others, 4 buffers; ends where the ring is overrun (`RingIntact`); 3.8 M states |
| `usb_rx` | Does reception survive races and failures, and does a disconnect end? `UsbRxInv FramesTaken DisconnectEnds` | 2 buffers, queue of 2, one failure, one suspend, with and without aggregation, fairness; 0.8 M states |
| `tcp_ack` | Is the newest acknowledgement of a connection always sent? `TcpAckInv NewestKept AcksReach` | 2 connections, 2 slots, 5 acknowledgements, numbers modulo 8 from 7 on (so they wrap), one PSH, aging or reopening, fairness; 1.1 M states |
| `roc` | Is the element used only while it exists, and does each cookie stand for one request? `RocInv CookiesMatch RocEnds` | 2 interfaces, 3 operations, one odd event of any kind, fairness; 0.6 M states |

`UsbTxInv`, `UsbRxInv`, `TcpAckInv` and `RocInv` are conjunctions of named parts, each with
its comment in the module: the type invariant with `BuffersAccounted` and
`PostedIsTriggered`; with `UrbsAccounted`, `CountAgrees`, `FramesHaveWaker`,
`RefillCatchesUp` and `DeinitQuiet`; with `OnePlace`, `FreeIsFree`, `SendsEnd`, `Tracks` and what makes these inductive (section 6);
with `ElemSound` and `OffchanSound`. So are `QueuesSound` (the type, `ListSound`,
`CountersAgree`), `RingSound` (`RingKeepsFrame`, `MemorySound`), `CountersAgree` (`ReadyCount`,
`SpCount`), `StopsAgree` (`VifStopReaches`, `PsAgrees`) and `CmdInv`, the inductive
invariant of the command manager (section 6).

`Events` of the four `txq` runs and the hypotheses of the theorems on `TxQueue` belong
together: `txq_service` and `txq_channel` have the events under which the theorems
state their safety properties, `txq_stations` and `txq_confirm` go beyond them. Of two
findings no property is left that a run could check, because the code breaks every one
that says more than the code does: what confirmations do to the lists (`ListSound` with
the event `cfm`), and requests of stations whose management queues hold frames (the
theorem `RequestShared` says what they open).

**Why the bounds are enough.** The races of the command manager need a sender
and the worker, or two senders, around one or two commands and a third that
reuses a slot: 2 senders and 3 calls with 4 slots contain reuse, a full list
and a refused call. `PoolSuffices` needs as many calls as slots plus one, and only
those of the worker, whose timeouts leak. The proofs remove these bounds for every
safety property of the command manager. In the transmit queues the
interesting values of a length are 0, below, at and above the push limit, the
credits and the flow-control mark, all reached with 2 or 3 frames; limits are set to
1 or 2 instead of 64 for that reason, and to the real values where a
property depends on them. The credits are fewer than the frames in `txq_service`,
`txq_channel` and `txq_stations`, as a queue of the code may hold more than its 64:
a pass then leaves frames behind. `CountMod` is 2^16 except in `txq_stations`, where
counters of a station whose indications were lost wrap: it is 4 there, to keep
the state space finite.

On the bus, the marks are a quarter and three quarters of the buffers, as in the
code: 5 buffers give 1 and 3, with a value on every side. Two receive buffers
and a queue of two contain a full queue, a backlog behind the frame being
handled, and a refill beside one in progress. `MaxTrgg` bounds the completions a
thread is behind; a second one changes nothing for a thread that drains its list
at every wake-up. In the filter, two slots and two connections contain a full
table, a chosen slot that is taken by the other connection, and a slot used
again; the five acknowledgements allow first use, hold, replacement and a send
by count in one behaviour, and `MaxEvents` one of the rare events in it.

Three operations of cfg80211 are one whose element is still there, one that is
refused, cancels or uses it, and one that starts afresh with what these left. One odd
event is enough to break each property that it excuses; the safety properties were
also checked, apart from the runs, with two.

`CHECK_DEADLOCK FALSE` is set where a model stops on purpose: a corrupted list
(`txq_stations`, `txq_confirm`) or memory (`usb_flow`, `usb_ring`, `usb_rx`) is a
state from which the kernel would not go on; in `usb_rx` and `tcp_ack` also
because the driver has been removed, in `roc` because its operations are counted.

## 5. Fairness

*CmdMgr* (`FairSpec`): weak fairness of each sender's steps, of the worker, of
the firmware's answers and of a disconnect that has begun, all while nothing is
broken. The kernel schedules runnable threads; timers that may expire do; the
manual 4 s timers give the firmware time to answer. A caller that polls is
enabled only when the list is empty, so its return is not given by fairness but
follows from the others emptying the list. No call, timeout of a healthy device
or unplugging is forced.

*TxQueue* (`FairSpec`): strong fairness of a sender's queueing, of the tasklet
and of the receive thread, because each waits for `tx_lock`, a queued spinlock
that is granted in order; weak fairness of the processing step of the lock's
holder and of the bus waking netdev queues. Stations need not ask for frames
and need not wake up: `PeriodEnds` and `Drains` follow from the driver's own
steps.

*UsbTx* (`FairSpec`): a sender leaves `aicwf_usb_bus_txdata`, the kernel runs the
woken thread, the USB core completes every URB (a killed one too), a suspended
system resumes. Confirmations need not come, and nobody need send.

*UsbRx* (`FairSpec`): the handler and each refill return, the woken thread runs, a
resume and a disconnect that have begun go on, and the URBs a disconnect kills
are completed. Nothing need arrive; a blocked `down()` is not forced, it is
enabled only when the semaphore is up.

*RemainOnChannel* (`FairSpec`): an operation under way, the receive thread and the
firmware each go on (weak fairness). No operation is asked for, nothing times out,
and the tasklet need not run.

*TcpAck* (`FairSpec`): a sender and a timer handler run to their end, and a pending
timer fires.

## 6. What is proved

`CmdMgr_proofs` proves, for any set of senders, any number of slots, list limit,
calls and identifiers, under `CmdMgrAssumption` (positive sizes, requests drawn
from the identifiers):

* `TypeCorrect`: `[](TypeOK /\ Held)`, a thread refers to a slot exactly while
  it may use it;
* `Inductive`: `[]IInv`;
* `ListIsSound`, `OneAtATime`, `MessageAlive`: the three invariants of
  `cmd_core` that follow from it.

`ListSound`, `OnlyHeadSent` and `SentMessageAlive` are not inductive. That only
the head is sent needs: whatever is listed waits for a confirmation
(`AllWaitCfm`), so the test of the last element's flags sees a non-empty list;
all but the head wait for the worker (`TailWaitsPush`); the command the worker
took is the head or no longer listed (`WorkerAtHead`). These survive the
unlocked load and store of the flags only because a confirmation that changes
them in between also takes the command off the list. That in turn needs slots
to have one user: only a slot that a sender owns, and that is not the worker's,
is put on the list (`OneUser`), and a slot with WAIT_PUSH belongs to nobody but
the list or the worker. That messages are alive follows from their numbers
being distinct and fresh (`MessagesDistinct`) and from the same ownership
(`MessagesHeld`). All this holds up to the first broken link or null pointer
(`oops`), also with timeouts, fatal signals and leaked slots.

The proof goes by type first (`TypeInv`, one lemma per actor), then the core,
one lemma per kind of step (quiet steps, steps that free a slot, queueing,
pushing, giving up, the worker's scan and store, confirmation, drain), each
with one step per conjunct it can disturb.

`CmdChannel_proofs` goes on to what holds until a command is given up (`Clean`: no
timeout, no killed caller, no drain), and proves under the same assumption:

* `ChannelInductive`: `[]CmdInv`, that is `IInv` and `CleanInv`, which run `cmd_core`
  checks;
* `OneMarshals`, `EverySlotOwned`, `PoolIsEnough`, `SomebodyWakes`: `OneTransmitter`,
  `SlotOwned`, `PoolSuffices` and `WakerPending`;
* `AnswersOwn`: the action property `OwnConfirm`.

`IInv` says only that a slot has at most one user, because after a timeout some have
none. `CleanInv` adds what the properties need while nothing was given up: who holds
each slot, by its flags and by the program counters; that every thread that pushes is
at work on the head of the list, which the firmware has not got yet (so two cannot
push at once); that a message the firmware has is the head's (so a confirmation,
which is matched by its identifier only, finds its own command); and who will wake
the worker. `PoolSuffices` also has to hold after timeouts: each of the slots in use is
listed, held by a sender, or an orphan a timeout left behind, and `FewOrphans` bounds
those, because the first timeout of the worker marks the manager crashed and all later
commands are refused. `Cardinality` enters only there, with the lemmas on finite sets.

It ends with `Refines`: `Spec => ImplementsChannel`, under the mapping of
section 3. Its lemmas say what each kind of step does to the sequence of messages of
the list (`MessagesAppend`, `MessagesTail`, `MessagesSame`), so that queueing is
`Accept`, the first push of a command `HandOver`, a confirmation `Answer`, whatever
gives a command up or takes the bus down `Break`, and every other step a stutter. A
command is pushed once: a second push would be a second `HandOver`, which the channel
does not allow, and it is `CleanInv` that excludes it.

`UsbTx_proofs` proves, for any number of buffers, any ring, frames, refused
submissions and suspends, under `UsbTxAssumption`:

* `TransmissionInductive`, `TransmissionSound`, `StopIsLifted`: `[]IInv`, and from it
  `[]UsbTxInv` and `[]StopHasWaker`. These conjuncts are nearly inductive
  together; what is missing is that the bus is up unless a suspend or a resume is
  on its way (`Phases`: `PostedIsTriggered` speaks only of such states, and a resume
  must not end with frames posted) and that `bustx_trgg` has room for a sender that
  is about to signal it (`Triggering`).
* `ConfirmationsFindFrames`: `[]RingSound`. That the slot of a confirmation still
  holds its frame is not inductive: a push overwrites the slot the ring has come
  round to, and one must know that this is nobody's. `Slotted` says that a
  confirmation owed names a slot as far behind the next one as frames were pushed
  since (which is why an overrun is exactly a distance of the ring's size), and
  that no two name the same. The distance is written as two linear equations,
  without a modulus.

`UsbRx_proofs` proves, for any number of receive buffers, any queue limit, failures
and suspends, under `UsbRxAssumption`:

* `ReceptionInductive`, `ReceptionSound`: `[]IInv`, and from it `[]UsbRxInv`.
  `RefillCatchesUp` needs `RefillCounted`: each free buffer is one of those a failed
  or broken-off refill missed, or a refill in progress is on its way to it, two of
  which may run at a time (`Phases` says when). `FramesHaveWaker` needs `WakePending`,
  which leaves out the frame the handler has queued and not yet counted: it is the
  handler that will wake the thread for it, and `CountAgrees` says that it then
  finds the count at 1. `DeinitQuiet` needs `TornDown`: what each stage of a disconnect
  has ended stays ended. The semaphore, which a disconnect may release once more than it
  was taken, is bounded by the suspends and the stages passed (`Bounded`).

Both inductive invariants were first checked by TLC on the instances of `usb_flow`
and `usb_rx`. The lemmas follow the actors: one per thread or stage, one step per
action, and the flags and the frames apart from the counters.

`TcpAck_proofs` proves, for any set of connections, any number of slots, sequence modulus
and thresholds, under `TcpAckAssumption` (the set of connections is finite, or the
count of busy slots would mean nothing):

* `FilterSound`: `[]TcpAckInv`. `OnePlace` needs that every message in the filter is
  older than the counter new ones are numbered from (`Numbered`), and that a sender
  or a timer handler has a message exactly while it is at work with it (`AtWork`).
  `FreeIsFree` needs the sender that has chosen a slot and not yet marked it:
  `free_index` is no longer that slot, and `max_num` already counts it, twice if two
  senders chose the same (`Counted`). `SendsEnd` needs that the slot a sender handles
  stays busy while nothing is aged (`StaysBusy`), for `move_tcpack_msg` resets only
  busy slots.
  `Tracks` needs that a connection takes a slot only when it has none, and that its
  acknowledgements come one after the other: then the slot remembers the last number, or the
  one before.
* `NewestSurvives`: `[]NewestKept`, by the step of each action: whoever drops or replaces
  an acknowledgement has compared it with a newer one. That the comparison is right for
  numbers that have wrapped, for every modulus, is `BeforeNext`; with `Tracks` it gives
  `ForeignOnly`: an acknowledgement is taken for old by a foreign number only.

`TxQueue_proofs` and, on top of it, `TxService_proofs` prove, for any sets of stations, queues, hardware queues and senders,
any placement of queues on stations and hardware queues, any limits and marks, under
`TxQueueAssumption` (the sets of queues and senders are finite, for frames are summed
over queues and counted over senders; no two queues of a station have the same rank in
`nx_tid_prio`; the restart mark is at most the stop mark, both are 64 in `rwnx_txq.h:101-103`;
the counters are wide enough for what the queues may hold):

* `TypeCorrect`: `[]TypeOK`, with every event, where counters wrap and confirmations
  write without the lock;
* `QuietHolds`: `[]QuietInv`, when no station comes or goes and no frame is confirmed
  (`Quiet`), and from it `StopsAgreeHolds`, `NotForgottenHolds`, `NetdevHeldHolds` and
  `OffChannelSilentHolds`; the others are in `TxService_proofs`:
* `OnlyRequestedHolds`, `SpServedHolds`, `WorkScheduledHolds`, `TimToldHolds`: under
  `Quiet` alone, with interface stops, interruptions, channel switch announcements and queues
  of any length against any credits; the steps that break them are named in the properties;
* `QueuesSoundHolds`: when also no period is interrupted;
* `RequestShared`: under `Quiet`, what a request opens, for any queues: the smaller of what is
  asked for (or ready) and what the data queues offer, each at most its credits. With
  frames in the management queues, or more frames than credits, this is less than asked
  for, down to a period of nothing.

Within `Quiet` power save, the bus, the tasklet and any number of senders interleave
freely; the one assumption on the order of events is the guard of `TrafficReq` (section 3).
With station events or confirmations TLC shows the lists and counters broken by the code (section 7), so
`Quiet` cannot be dropped; nor can the interruptions be admitted to `QueuesSoundHolds`:
after one, a pass pushes frames no period has counted.

None of the properties is inductive. `NotForgotten` and the lists need the stop bits to
be right (`StopsAgree`), for a start that finds its bit missing links nothing; the stop
bits need a power-save change under way to be one still when it is applied (`Settled`);
that no pass meets a `BUG_ON` needs that linked queues have frames and that a promise of
frames is never more than the queue holds (`Limited`); that nothing leaves off channel
needs that nothing stopped for it is linked (`OnChannel`), which a traffic request, whose
queues are stopped for power save, keeps only because the request comes while the
interface is on its channel. The proof restates the invariant for one queue (`Good`), one
lemma for each operation on a queue record, and then one lemma per action for the
interface.

The frame counters are sums over the queues of a station and power-save id. That the
operator of the community modules which forms them is a sum at all is proved first:
`SumFun`, `PartialSums` and `SumPartial` show, by induction on the sets summed over,
that it takes one queue at a time, and `SumPlus`, `SumBound`, `SumZero`, `SumSame` and `SumOne`
give what the steps need: that a pass takes off both counters what it takes from the
queues, that one more frame is one more, and that no sum wraps. `QueuesSound` needs
besides that a linked queue of a sleeping station was asked for (`Promised`), so that a
pass never pushes frames no period has counted.

The action properties need, besides `QuietInv`, how each step changes one queue record
(`UnlimitedStep`, `ServedStep`, `WorkStep`) or one counter (`TimStep`). `PassStrands` says that a pass
leaves a queue in the list with nobody to look at it only if it took fewer frames than the
queue held; `MoreWork` that all other steps add to who is at work. `TimTold` needs that the counter
of a sleeping station is the number of its frames (`ReadyCount`), so that it is 0, and the bit
cleared, only when none waits.

`RequestShared` needs that a sum may be taken in any order (`SumRemove`) and that a
request shared out along the order of priorities comes to what was asked for
or to all that is offered
(`ServedInOrder`, `SumInside`, `ShareSum`). The inductions over finite sets and over ranks are done by a least
counterexample (`LeastOfNat`), because the library's induction theorems take an
operator.

`RemainOnChannel_proofs` proves, for any interfaces, operations and odd events, under
`RocAssumption`:

* `RocSound`: `[]RocInv`. The element and the queue are guarded by no lock, so the
  invariant says in three parts why the threads still do not collide. `Handy` and
  `Fresh`: what the requesting thread has in hand at each of its steps, and that an
  element has the number of its operation to itself. `Freeing`: what the receive thread
  may find between the expiry, `kfree` and the reset of `roc_elem`. `Protocol`, while no
  command has timed out and no sender has gone on early: one command or its answer is
  under way and the operation waits for it (`Calls`); what the firmware carries out is
  the element, and it indicates it at most once on the channel and then once as over
  (`Tokens`); before the answer, and after a refusal, the firmware knows nothing of
  the element (`Course`), so that a request that failed frees what nobody else uses; and
  it has ended what it did for an interface before the answer to its removal
  (`Closing`). The events `Excuses` names are the ones under which a part fails.

* `CookiesSound`: `[]CookiesMatch`. The counter is read by the operations and advanced by
  the receive thread. `Cookies` counts what was reported under the current cookie
  against what is still to come: at most one command, element at work or message can lead to
  another `ready`, and none once it was told (`OneSwitch`, which holds after a timeout
  too, when `Protocol` does not any more: nothing new is started then); nothing is told
  before the element is on the channel or for one the firmware refuses (`NotYet`); the
  element is one whose cookie was returned, or `mgmt_tx`'s, or its operation is under way
  (`Asked`), and the answer to a request comes before what is indicated of it
  (`AnswerFirst`); the current cookie was returned for the current element only
  (`OneReturn`).

Both invariants were first checked by TLC with three operations and two odd events. The
steps of the firmware, which append to the messages under way, have a lemma each;
for the others the parts go through by action.

**Model-checked only:** liveness (`CallsReturn`, `CommandsFinish`, `Drains`,
`PeriodEnds`, `TrafficResumes`, `PostedIsSubmitted`, `FramesTaken`, `DisconnectEnds`,
`AcksReach`, `RocEnds`), which is out of the prover's reach; what
`WorkScheduled`, `StopsFollow` and `OffChannelSilent` say with station changes and
confirmations (`txq_stations`, `txq_confirm`).

## 7. Disagreements with the repository's comments

Met while modelling. The main ones are hazards in `PROJECT.json`; the passing runs
name the condition under which the property does hold, and removing the
condition lets TLC show the counterexample.

Transmit queues:

* a retried frame gives back a credit that is no longer taken; the signed byte
  overflows at the 64th and the next pass hits `BUG_ON(txq->credits <= 0)`
  (`rwnx_tx.c:757`; `rwnx_txq.c:1265`);
* confirmations run without the `tx_lock` their comment says is held
  (`rwnx_tx.c:2163`, called from `usb_host.c`): a queue is linked twice or listed
  without a frame (`ListSound` with the event `cfm`);
* after an interrupted U-APSD period the queues stay listed without a limit, and
  the whole backlog goes to a sleeping station (`rwnx_tx.c:185`; the exception of
  `OnlyRequested`);
* the comment at `rwnx_main.c:4423` says that `cb_lock` keeps indications out while
  a station is linked; they no longer take it (`rwnx_cmds.c:371`), and a station
  linked while the channel is left misses the stop (the exception of `StopsFollow`);
* an interface stop inside an open service period takes the queue off the list
  for good, and later requests are refused (the exception of `SpServed`, `rwnx_tx.c:198`);
* frames already queued when a station falls asleep are never announced
  (the exception of `TimTold`, `rwnx_tx.c:109`, against the comment at line 66);
* the end of a channel switch announcement schedules nobody (`rwnx_msg_rx.c:508`),
  nor does a pass that leaves frames beyond the credits (`rwnx_txq.c:1245`): the
  exceptions of `WorkScheduled`;
* a station deleted while its netdev queue is stopped leaves it stopped
  (`NetdevHeld`, `rwnx_txq.c:189`);
* a management frame is counted as ready and never handed over on request
  (`rwnx_tx.c:224`; `RequestShared` in section 6);
* `rwnx_txq_init` resets the status word of a queue a late sender may have linked
  again after the flush (`rwnx_txq.c:112`): the queue is linked twice, and the next
  pass corrupts the list or meets its `BUG_ON` (`txq_stations` stops there);
* two callers that polled for an empty list are both queued (`rwnx_msg_tx.c:469`),
  and refused commands leak their message (`rwnx_cmds.c:144`);
* with traffic indications, which are always deferred, two enqueuing callers
  can both see two commands and neither wakes the worker (`rwnx_cmds.c:205`);
  `WakerPending` is therefore checked without them;
* a caller that a fatal signal kills while it waits frees its slot and leaves it on the
  list (`rwnx_cmds.c:221`, `242`): the next user of the slot links it
  again, or is completed by the confirmation of the dead one's command; the
  properties that would break are stated until then (`killed`);
* messages without a confirmation are marshalled into `cmd_buf` beside the list
  (`rwnx_msg_tx.c:479`); `OneTransmitter` is about the others.

USB bus:

* a thread woken while a suspend has the bus down ends for good
  (`aicwf_usb.c:1035`, `1086`); after the resume nobody transmits or receives;
* a sender that finds the bus down stops the netdev queues in a way no completion
  undoes (`aicwf_txrxif.c:282`, `StopHasWaker` calls it `deaf`);
* frames refused or found posted at a resume are released by a call they were
  not allocated for, or while the ring still names them (`aicwf_usb.c:970`, `731`);
* a failed allocation leaves `rx_cnt` above 0 for ever, after which no frame
  wakes the receive thread (`aicwf_txrxif.c:826`);
* a packet above 1600 bytes in an aggregated buffer is read after its release
  (`aicwf_txrxif.c:732`);
* `rwnx_hw` is released before the receive thread that uses it is stopped
  (`aicwf_txrxif.c:222`);
* the completion handler and the disconnect can both take `aicwf_deinit_sem`
  (`aicwf_usb.c:384-386`, `2216-2218`): the disconnect hangs, itself or waiting for
  the handler, which sleeps in interrupt context. `DisconnectEnds` shows that it
  hangs in no other way. After an expected disconnect the semaphore stands at 2,
  so module exit is no longer kept apart from a later disconnect.

Remain on channel (exceptions of `RocInv` and `CookiesMatch`):

* `mgmt_tx` compares the channel of the pending element without a lock, while its
  expiry may free it (`rwnx_main.c:5766-5774`; this needs no odd event, place `use`);
* the channel-switch indication does not test `roc_elem`: one that comes after its
  request timed out or was abandoned dereferences NULL (`rwnx_msg_rx.c:121`);
* a request that fails after its element expired frees it again (`rwnx_main.c:5506`,
  `rwnx_msg_rx.c:265`), and a closing interface reads it while the expiry frees it
  (`rwnx_main.c:1519`);
* a closed interface drops the element and does not free it
  (`rwnx_main.c:1522`); the off-channel queue stays active, the cookie is not
  advanced, so the next request gets the same one, and `rwnx_txq_init` may reset a
  queue that is linked;
* `mgmt_roc` is set after the command was answered (`rwnx_main.c:5801`): a switch
  that comes first tells cfg80211 of a channel it did not ask for (`unmarked`), and a
  slow sender sets it in a freed element or through NULL;
* a frame that saw the off-channel queue active may be queued after the expiry has
  flushed it (`rwnx_tx.c:1675`, `1811`), and waits on an inactive queue (`late`).

Acknowledgement filter (exceptions of `NewestKept`):

* a slot aged between match and handling holds an acknowledgement no timer will
  send, and a stale `in_send_msg` may keep the slot from ever sending by timer
  or count again, because its reset is commented out (`aicwf_tcp_ack.c:596-597`);
* two connections may choose the same slot (`aicwf_tcp_ack.c:309`), and `max_num`
  counts it twice for good;
* a connection that reuses ports and starts with a lower number has its
  acknowledgements dropped until it has caught up (`aicwf_tcp_ack.c:452`).

## 8. Not modelled

The components with status `not_modelled` in `PROJECT.json`, with reasons. Of
the modelled ones: message bodies and result codes, `NONBLOCK` and `WAIT_ACK`
(never set), the order and rotation of queues in a hardware queue's list,
retry order inside a queue, statistics, A-MSDU and TDLS queues,
and the memory reuse that would follow a use after free: the model stops there.
On the bus: the `msg_busy` pipe and its waits, probe and module exit, the end of
transmission at disconnect, preallocated receive buffers and the separate
message endpoint of some chips. In `RemainOnChannel`: the alive timer of P2P
interfaces, and what a closing does to a scan, a connection or queued data. In
the filter: the parsing of frames, and that `tcp_ack_handle_new` treats an acknowledgement with more information (SACK, FIN,
RST) like any other.

Coarser than the code, in components that are modelled:

* `CmdMgr` has no suspend of the bus (`aicwf_usb.c:1163`, `rwnx_cmds.c:244`, `515`): its bus goes
  down once, at the disconnect. A callback of `cmd_mgr_msgind` that claims a message (returns
  nonzero), and listed commands without a confirmation (`reqcfm` 0), are left out.
* `UsbTx`'s `TxPost` takes the copy of a frame without confirmation for granted; the code does not
  check that allocation (`aicwf_usb.c:1494`).
* `TxQueue`: `StaLink` reads `ps.active`, links the station and enables its power save in one step
  (`rwnx_main.c:4426-4428`). `BusStop` always marks the bus busy; the stop that does not
  (`aicwf_txrxif.c:278-283`) is the `deaf` one of `UsbTx`. `XmitCheck` wants an open netdev queue
  also of the acknowledgement timer, which does not look. `CountDown` clears the TIM by the
  counter after a pass, the code after each frame.
* `RemainOnChannel`: start and cancel share the identifier `MM_REMAIN_ON_CHANNEL_CFM`
  (`rwnx_msg_tx.c:900`, `919`); the answers are matched by operation, so a late answer to a start
  that completes a cancel is left out. `Request` does not add the P2P interface
  (`rwnx_main.c:5441-5467`).
