# TLA+ verification of the rtl88x2eu driver's cooperative receive

The repository is Realtek's out-of-tree Linux driver for the RTL8822E USB Wi-Fi
chips (about 946,000 lines, two thirds of them register tables and calibration
code of the HAL) with one subsystem of its own: *cooperative RX*.  Several
adapters of the driver form a group; one of them, the *primary*, is associated,
the others, the *helpers*, listen in monitor mode on its channel, and the frames
they hear are merged into the primary's receive path.  This subsystem
(`core/rtw_cooperative_rx.c`, 2,100 lines) carries the repository's own
concurrency: sysfs writers, USB disconnects, several receive softirqs, a tasklet
and a kernel timer share a group object, a queue, a counter and the vendor's
reorder window.  It is what this project models, together with the vendor code
it leans on.

## 1. Inventory

| Component | State | Operations | Interacts through | Hard behaviour |
|---|---|---|---|---|
| Group, control plane (`rtw_cooperative_rx.c`, `.h`) | `state`, `primary`, `helpers[]`, `num_helpers`, the published pointer | pair, auto_pair, unpair, bind, unbind, enabled, remove_adapter, init/deinit | `grp->lock`, RCU, `rtnl_lock`, sysfs | lock dropped in the middle of an operation, pointers used after sleeping, lock order |
| Pending queue, drain tasklet (same file) | primary's free pool, `pending_queue`, `pending_count`, tasklet state | submit, drain, flush on unbind / removal | queue locks one by one, an atomic counter | queue and counter never change together; enqueue after flush; ownership of frames |
| Reorder window (`rtw_recv.c`) | `indicate_seq`, ordered list, timer, `bReorderWaiting`, reset bit | indicate, timeout handler, new Block Ack agreement | the list's lock; `del_timer_sync` outside of it | second caller (the tasklet) introduced by cooperative RX; 12-bit wrap |
| Duplicate detection (both files) | `tid_rxseq`, non-QoS ring, PN cache | `recv_decache`, claim in the tasklet, PN check in submit | unlocked reads and writes | claim before decryption, both pass, PN goes back |
| Session and channels (`rtw_cooperative_rx.c`, `rtw_mlme_ext.c`, `rtw_cmd.c`, `rtw_wlan_util.c`) | `bound_bssid`, `bound_channel`, `bound_bw`, helper channels | bind, unbind, notify_channel_switch, enable_helper_monitor | MLME state read without its lock | switch between check and use; joins, beacons and sibling interfaces change it unreported |
| Command queue and thread (`rtw_cmd.c`, `rtw_xmit.c`) | `cmd_queue`, its semaphore, `cmdthd_running`, submit contexts on the callers' stacks | enqueue, wait with a timeout, execute, drain, stop, restart | the queue's lock, a semaphore, `sctx_mutex` | timeout against a late answer, enqueue after the drain, waking a sleeping thread |
| Kernel crypto (`rtw_cooperative_rx.c`) | AEAD transforms, cached key | init at bind, deinit at unbind, decrypt in the tasklet | `tasklet_disable` | second bind, key change of another peer |
| Lock-free lookup (`rtw_cooperative_rx.h`) | reads `helpers[]` | `is_helper`, `pre_recv_entry` | none | scan while the array shifts |
| USB glue (`usb_intf.c`), net_device glue (`os_intfs.c`, `ioctl_cfg80211.c`) | net_device, sysfs group, adapter | disconnect, halt, register, unregister, delete interface | `rtnl_lock`, sysfs drain | order of teardown |
| Vendor core: MLME, transmit, power, AP, mesh, P2P, security ... | | | | not this repository's own work |
| HAL: halmac, phydm, btc, rtl8822e | registers, tables | | | generated or hardware-bound |

`PROJECT.json` lists every component with its status and every hazard with its
line.

What makes each correct: the group is consistent whenever its lock is free and an
adapter that is gone is in no role; a frame has one owner and comes back to its
pool; the limit on the queue holds; disconnect and unbind end; the window passes
frames up in the sender's order, once, and never sits on one; a frame is not
passed up twice, and a copy is dropped as a duplicate only of a frame that gets
through; the helpers follow the primary's channel; no transform is used after it
is freed.  Not all of this is so: section 3 says which runs hold and which are
violated.

## 2. Modules

| Module | Stands for | Extends / uses |
|---|---|---|
| `CoopRxGroup` | the control plane, disconnect, interface deletion, unload | |
| `CoopRxGroupProofs` | theorems about it | `CoopRxGroup`, TLAPS |
| `CoopRxQueue` | submit, drain tasklet, session writers | |
| `CoopRxQueueProofs` | theorems about it | `CoopRxQueue`, TLAPS |
| `InOrderStream` | abstract: what a reorder window promises | |
| `RecvReorder` | the reorder window and its timer | instantiates `InOrderStream` |
| `RecvReorderLemmas` | what the window's operators compute: serial numbers, the list, the loop | `RecvReorder`, TLAPS |
| `RecvReorderProofs` | theorems about it, and that it implements `InOrderStream` | `RecvReorderLemmas` |
| `CoopRxMerge` | the copies of one frame on both receive paths: rxseq, ring, packet numbers | extends `RecvReorder` |
| `CoopRxMergeProofs` | theorems about it, with those about the window carried over | `CoopRxMerge`, `RecvReorderProofs` |
| `RtwCmd` | the command queue and its thread | |
| `RtwCmdProofs` | theorems about it | `RtwCmd`, TLAPS |
| `CoopRxSession` | bind, the primary's channel, the helpers' channels | |
| `CoopRxSessionProofs` | theorems about it | `CoopRxSession`, TLAPS |
| `MC*` | instances for TLC | |

Definitions called "Faulty variant" are not part of any specification.  Each
changes one definition the way a plausible bug would, and is there to show that
the property it belongs to would notice.

### CoopRxGroup

The variables `state`, `primary`, `helpers`, `num_helpers` are the fields of
`struct cooperative_rx_group`; `group` is the published pointer and what it
points to; `pc`, `dev` and `snap` are a sysfs writer's position, its device and
its local array; `ndev`, `rtnl`, `unplug` and `unload` follow the net_device, the
holder of `rtnl_lock`, `rtw_dev_remove()` and `rtw_drv_halt()`.  A step is one
section under `grp->lock`, one sleeping call, or one read of a shared pointer that
is used later.  So `rtw_coop_rx_bind_session()` is `StoreBind` (reads the pointer
and the primary), `BindLock`, `BindCrypto`, one `BindMonitor` per helper copied,
`BindDone`; all of them use the group, the last one only to log it.
`rtw_coop_rx_remove_adapter()` is `RemoveAsHelper`, `RemoveCheckPrimary`, a flush
of the pending queue, and `RemoveTeardown`.

The flush loops of unbind, of the primary's removal and of the unload run until
they find the queue empty.  Of the queue this module keeps just that: `queued`
says that there is something in it, `Submit` is a helper's softirq that puts
something in while somebody drains, and `FramesLeave` is the loop (or the tasklet)
taking it out.  Unbind has cleared the state before its loop, so nothing new comes;
the removal of the primary has not, and helpers may keep its loop going.

Abstractions.  A bind whose association check fails changes nothing and is
left out.  A store function that touches a freed group or a freed helper is
undefined behaviour in C; the model stops it there, so that nothing is concluded
from what it does afterwards, and names the state `UseAfterFree`.  The interface
deletion starts only before the disconnect of the same adapter.  `unpair` is a
single step because only `synchronize_rcu()` follows its lock section; in the
stores of pairing the read of the group pointer and the lock section that follows
at once are one step.

### CoopRxQueue

`active` and `primary` are what the data plane reads of the group.  `free`,
`pending`, `stack` and the local pointers `sframe`, `tframe`, `cframe` say where
each `recv_frame` of the primary's pool is; `lost` collects the frames that
nobody points to any more.  `count` is `pending_count`, an integer that may be
wrong and is an unbounded integer in the model (the code's `atomic_t` has 32
bits, the pool 256 frames).  Every queue operation and every operation on the counter
is a step.  `sched` and `disabled` are the tasklet's two words of state; the
kernel runs it only when scheduled and not disabled, on one CPU.

Abstractions.  Why a frame is rejected, a duplicate or accepted is a choice
(`SubmitReject`, `TaskletDup`, `TaskletDeliver`, `TaskletRefused`); so is
`rtw_is_drv_stopped()` (`TaskletStopped`).  Any number of writers change the
session at once, since every net_device has its own sysfs files and no lock keeps
two stores apart: `disabled` is the count of `tasklet_disable()`, and two flush
loops may share the queue.  After the primary's removal no new primary is paired.  `StackFree` stands for the
primary's receive path giving a frame back.

### RecvReorder and InOrderStream

A frame is the number the sender gave it, and the code sees only that number
modulo `SN_MOD`.  `indicate_seq`, `pending`, `waiting`, `reset` are the fields of
`struct recv_reorder_ctrl`; `armed` and `running` are the kernel timer;
`pc[c] = "cancel"` is a caller between the unlock and `_cancel_timer_ex()`.
`newest` and `last` are history: how far the sender has got, and what was last
passed up.  Copies arrive in any order within `Lag` behind and `Jump` ahead of
`newest`, any number of times or never; the assumption `Lag + Jump < SN_MOD / 2`
is the one under which serial number comparison means anything at all.

`InOrderStream` says what the window is for without sequence numbers, windows or
timers: frames are held or passed up, in increasing order, none of them twice;
a frame held back can still be passed up in order; a new agreement, and only
that, starts the stream again.  The property `PassedUpInOrder` is its
specification under the mapping `held <-` the set of frames in the list,
`last <- last`, `renewed <- reset`.

Not in the model: an agreement that is torn down (`enable = _FALSE`), the freeing
of the station, and the wake-up bit that resets the window exactly as the
modelled one does.

### CoopRxMerge

Extends the window by what stands in front of it.  The primary's softirq
(`PrimaryDup`, `PrimaryPass`, `PrimaryWrite`, `PrimaryPN`, `PrimaryDeliver`), the
helpers' softirqs (`Submit...`) and the drain tasklet (`Drain...`) each have a
position and a frame; every access to `rxseq`, `iv`, the ring and the window is a
step.  A frame is its number n; it carries the sequence number `n % SN_MOD` and
the packet number n + 1.  `flow` fixes the kind of traffic: QoS or not, inside an
agreement or not, open or decrypted by the kernel or by the driver.  Inside an
agreement a radio hands over copies in any order, outside of one in the sender's
order (`Hears`, external).  Where the code reads the window start and drops the
frame later, that is two steps (`SubmitLook`, `SubmitLate`; `DrainLook`,
`DrainLate`).  `Rebind` is what bind does to the ring.

History: `received` are the numbers a copy of which has reached the window or the
stack, and nothing else; a frame that is dropped after its claim, because it does
not decrypt (`DrainUndecryptable`), is behind the window (`DrainLate`) or is only
counted (`CountedOnly`), is not among them.  `late` is the last number claimed and
then dropped for the window, `renewed` says that a second agreement was made.

Abstractions.  One station, one TID, unicast, no fragments, no rekeying.  The
queue is a sequence with a bound (`QueueMax`); its counter, limit and flush are
the subject of `CoopRxQueue`, and `SubmitNoFrame` covers a refusal for either
reason.

### RtwCmd

The state of `struct cmd_priv` and of its thread; `cpc`, `cmdobj` and `status` are
a client's position in `rtw_setopmode_cmd()`, its command and its submit context.
Command objects are addresses that are handed out again after they are freed, so
that a stale pointer can hit a new command.  A step is one section under a lock,
one semaphore operation, one read of a flag that is acted on later.  `CmdWait` ends
a wait at any time: the answer has come, or the two seconds are over.
`ThreadInterrupted` is the `_FAIL` of `_rtw_down_sema()`, which ends the thread.

Abstractions.  What a handler does is left out, its result is a choice; commands
that `rtw_cmd_filter()` refuses change nothing; its exceptions for single command
codes and `hw_init_completed` are left out.  The re-queueing of a command at the
head of the queue needs `CONFIG_LPS_LCLK`, which the Makefile's
`CONFIG_POWER_SAVING = n` leaves out of the build.

### CoopRxSession

`state`, `paired`, `bound` are the group; `cur` and `asoc` the primary's current
setting (channel, bandwidth, offset) and association; `mpc`, `via`, `want`, `mto`
its command thread: between two assignments of a change, at the notification, and
moving the helpers one by one.  `hup`, `hset` are the helpers' interfaces and
settings; `wpc`, `wset`, `wto`, `wat` the binds, which take one helper after the
other.  Four things change the setting.  A switch of the primary itself
(`Switch`) ends in the notification.  A switch issued for another interface of the
same device (`SwitchOther`) rewrites the primary's fields and notifies with that
other interface, which the notification ignores; a join (`Join`) and a beacon that
lowers the bandwidth (`Beacon`) do not call it at all.  `Notify` looks at channel
and bandwidth, not at the offset.

History names the cases in which helpers and primary drift apart.  `stale`: the
setting has changed without a notification since the session was last bound.
`overtaken`: somebody was about to tune helpers to an outdated setting when the
last bind or notification took place.  `excused`: the helpers paired, opened or
closed since the last bind, or which it could not open.

Abstractions.  The primary stays set, helpers are on devices of their own, and
each device has one command thread.  The two reads of `BindRead` are one step, and
so are the two assignments of `Beacon`.  The BSSID is left out.
`rtw_setopmode_cmd()` on the helper returns whatever becomes of the command
(`RtwCmd`: `CallReturns`), and bind ignores the result.

## 3. Runs

| Run | Question | Instance | Result |
|---|---|---|---|
| `group` | Is the group consistent under every interleaving, and does a disconnect end? (`TypeOK`, `GroupInv`, `PrimaryStepsDown`, `DisconnectCompletes`) | 2 adapters, 2 writers, 1 slot, one adapter unplugged and deletable, unload | holds, 443,000 states |
| `group_freed` | Is what is freed out of everybody's hands? (`NothingFreedInUse`) | 2 slots, both adapters unplugged, unload | **violated** |
| `group_delete` | Is there no deadlock on disconnect? (`DisconnectNeverDeadlocks`) | | **violated** |
| `queue` | Who owns a frame, what does the counter mean, is every disable given back, does unbind end? (`TypeOK`, `FrameOwned`, `CountNeverOverstates`, `UnbindCompletes`) | 3 frames, 1 helper, 2 writers, limit 1, batch 1 | holds, 580,000 states |
| `queue_lost` | Does every frame come back to its pool? (`FramesComeBack`) | 3 frames, 2 helpers, 1 writer, batch 2 | **violated** |
| `reorder` | Does the window implement the stream, is it covered by its timer, does it let go? (`TypeOK`, `BufferOrdered`, `TimerCovers`, `PassedUpInOrder`, `BufferedLeaves`) | one caller, `SN_MOD` 16, window 3, numbers to 20 | holds, 10,000 states |
| `reorder_race` | The same with the two callers cooperative RX makes? (`BufferedLeaves`) | two callers | **violated** |
| `merge` | Where nothing is lost after the claim, is a dropped copy never the only one; while the first agreement stands, does the unlocked read of the window start drop only what the window refuses; does the stream survive the second caller and the racing caches? (`MergeTypeOK`, `ClaimHonoured`, `WindowDropsOnlyOld`, `PassedUpInOrder`) | 3 numbers, 1 helper, window 2, ring 2, queue 1, seven kinds of traffic | holds, 1.3 million states |
| `merge_drops` | Is what is dropped for its packet number, for rxseq or for the window start a duplicate? (`DropsAreDuplicates`) | inside an agreement, kernel decryption | **violated** |
| `cmd` | Are contexts and commands never followed after their end, is no wakeup lost, do commands, calls and stops come to an end? (`CmdTypeOK`, `ContextPaired`, `NoLostWakeup`, `CommandLeaves`, `CallReturns`, `StopCompletes`) | 2 clients, 2 objects, semaphore to 2 | holds, 191,000 states |
| `session` | Do the session and its helper follow the primary while everything is reported? (`SessionTypeOK`, `BoundFollows`, `HelpersFollow`) | 1 bind, 1 helper, 2 channels, 2 bandwidths, 2 offsets | holds, 3.0 million states |
| `session_deaf` | Do the helpers hear what the primary hears? (`HelpersKeepReceiving`) | as `session` | **violated** |

The violated runs check what comments and the documents in `docs/` say and the code
does not keep; `PROJECT.json` quotes each sentence and says how it fails.  Four of
these properties put several such sentences together, and their run stops at the
shortest behaviour that breaks one.  The others are found by checking that part
alone:

- `NothingFreedInUse`: the run shows the group freed by the unload under a store
  function.  `RemovedStaysOut` alone, without an unload, shows an adapter that is
  paired again after it has left the group and before its attributes are gone;
  `~UsesFreedHelper` alone a bind that works on a copied helper already freed.
- `FramesComeBack`: the run shows the frame the tasklet only counts.  `NoOrphans` alone
  shows a submitter that enqueues after the flush.
- `DropsAreDuplicates`: the run shows the helper's copy that fills a gap dropped for
  its packet number (`ReplayWasSeen`).  `DupWasProcessed` alone shows a number claimed
  for a copy that did not decrypt; `LateIsRefused` alone a frame dropped for the
  window start of an earlier agreement.
- `HelpersKeepReceiving`: the run shows a switch made for a sibling interface, half
  of which a bind has read.  With
  `~stale` as a further hypothesis a switch overtakes a bind, which tunes the helper
  to the channel of its old snapshot; with `~overtaken` too, a switch that changes
  only the offset passes by the helpers.

Bounds.  Two adapters are enough for a primary and a helper, and one slot for an
array that is filled, emptied and found full; two writers give every race of two
lock sections.  `group_freed` has two slots (an adapter may be paired
with itself, so two adapters fill them).  That the array stays consistent when
it is longer and is shifted, and with more adapters and writers, is settled by the
theorems, which hold for any number.  In `queue` a limit and a batch of one with
three frames put the queue at its limit, over it, empty, and the tasklet at the end
of its batch within a few steps; the helper that drops at the limit races the
tasklet and two flush loops.  A second helper, which races the first in the same
way, is covered by the theorems, and by `queue_lost`.  Numbers
to 20 cross the wrap at 16 with the whole window, and lag 4 with jump 3 is the
most that half of the number space admits.  In `merge` three numbers give a gap,
what fills it and what follows it, and with one frame each at the helper, in the
queue and in the tasklet all of them are under way at once; the wrap is the
subject of `reorder`.  Two clients and two objects are enough for an object to be
freed and reused while the other client still waits (`SemaMax` only keeps idle
wakeups from piling up).  Inside an agreement the traffic of `merge` is
not encrypted: encryption only drops more copies, and that of the window, which is
fed any frames in any order, is all the same; what it does to the caches is in
`merge_drops`, and the theorems are for all traffic.  In the session, two channels,
bandwidths and offsets let a change touch any part of the setting, and one bind is
overtaken by switches.  Several binds at once, and a helper that is paired while
another one keeps the session active, are covered by the theorems, which hold for
any number of helpers and binds.  Deadlock is not checked: all these systems may rest
(nobody writes to sysfs, no frame arrives, all adapters are gone).

Fairness.  *CoopRxGroup*: a system call that was entered and a disconnect that has
begun are run by the kernel (weak fairness of each step), and a loop that finds
the queue not empty takes something out of it (weak fairness of `FramesLeave`);
`rtnl_lock` is a mutex that serves its waiters, hence strong fairness of the steps
that take it; nothing obliges anyone to start an operation, or a helper to stop
submitting.  *CoopRxQueue*: a softirq that was entered
runs to its end, a scheduled tasklet that is enabled runs, a writer inside unbind
runs on; helpers may submit for ever or never, and the stack owes nobody a frame.
*RecvReorder*: an armed timer expires, its handler ends, a caller that has left
the lock reaches the cancel; no frame ever has to arrive.  *RtwCmd*: the
scheduler runs the thread, a client that is in a call and whoever stops the
thread; handlers return, and the two seconds of a wait pass.  Nobody has to issue
a command, to start a thread again or to notice that the device is gone.

What the properties that hold leave out, and where that is checked instead:

- `DisconnectCompletes` excepts `LockCycle` (`group_delete`) and `UseAfterFree`, a
  freed group or helper still in somebody's hands (`group_freed`),
  and assumes `<>[][~Submit]_vars`: that helpers do not feed the queue for ever
  while somebody drains it.  Without this a disconnect of the primary need not end:
  its loop runs with the session still ACTIVE.  The documents promise that it does
  not deadlock, which this is not, so it has no violated run.
- `UnbindCompletes` excepts an unbind that another writer's bind has overtaken: the
  session is active again, and its loop is fed again.
- `FrameOwned` counts a frame in `lost` as being in one place; that frames get there
  is `queue_lost`.
- `BufferedLeaves` holds provided that agreements are not renegotiated for ever:
  each new one may put the window back behind a frame that is held.
- `ClaimHonoured` speaks of traffic that is not encrypted and, if QoS, inside an
  agreement (`Lossless`).  For any other the tasklet may claim a number and lose its
  copy, and the primary's good copy is dropped for it (`merge_drops`).
- `WindowDropsOnlyOld` holds while the first agreement stands; what happens after
  another one is in `merge_drops` too.
- `PassedUpInOrder` of `merge` holds whatever the caches let through: it shows that the
  window absorbs their races, not that they are right.
- `CommandLeaves` excepts a command behind which the thread has ended; see below.
- `BoundFollows` and `HelpersFollow` hold until something unreported changes the
  setting (`stale`).  `HelpersFollow` further excepts a change that
  overtook a bind or a notification (`overtaken`), and lets helpers
  be untuned that were paired, opened, closed or not to be opened since the last
  bind (`excused`).  A late pairing is documented:
  `docs/testing_notes.md:166` asks for another bind.  Neither speaks of the offset.
  All but the untuned helpers is in `session_deaf`.

Seen while modelling, without a run of its own:

- a client passes `rtw_cmd_filter()` before the thread clears `cmdthd_running` and
  enqueues after the thread has drained the queue (`thread = "end" => cmd_queue = <<>>`
  does not hold), which the comment at `rtw_cmd.c:714` means to rule out ("to avoid
  enqueue cmd after free all cmd_obj").  The client gets out by its timeout
  (`CallReturns`), and the next thread executes the command;
- neither the result of `dev_open()` nor that of `rtw_setopmode_cmd()` is looked at
  (line 768): with its only helper down a session is ACTIVE, which
  `docs/testing_notes.md:153` calls "Fully operational";
- a drop at the limit that finds the queue already emptied lowers the counter all
  the same (line 1342), so that the counter understates the queue from then on and
  the limit moves up;
- when both paths pass the comparison with `rxseq`, the comment at line 1468 counts
  on the packet number check as "a second dedup layer", but nothing checks the
  number after the queue; inside an agreement the window drops the second copy,
  outside of one nothing does;
- a non-QoS frame is in the ring before it is safely queued (line 1220): when the
  pool is empty, another helper's copy is dropped as its duplicate;
- an unbind that finds the primary gone frees the skbs of the frames it flushes
  and not the frames (`FlushFree` in `orphan`): their pool is the primary's, which
  is going away.

## 4. Proofs

All theorems are for every value of the constants under the named assumptions
`GroupAssumption`, `QueueAssumption`, `ReorderAssumption`, `MergeAssumption`,
`CmdAssumption`, `SessionAssumption` (the constants have the types they have in the
code, the null pointer is nobody's address, serial comparison is unambiguous).

*`CoopRxGroupProofs`.*  `GroupTypeCorrect`, `GroupStaysConsistent` and
`PrimaryLeavesByItself` follow from one inductive invariant,
`IInv == TypeOK /\ GroupInv /\ TeardownInv`.
`GroupInv` rests on the type of the array and on the distinctness of its entries;
lemmas about `ShiftDown` and about appending to the array carry it.  The teardown
of the primary clears the group in a later lock section than the one that found
the adapter to be the primary.  The group it leaves is consistent in any case,
but `PrimaryLeavesByItself` needs `TeardownInv`: whoever is in that gap still is
the primary, until the unload has cleared the group.

*`CoopRxQueueProofs`.*  `QueueTypeCorrect`, `DisabledWhileUnbinding`,
`FramesHaveOneOwner` and `CounterNeverOverstates` follow from
`IInv == TypeOK /\ HolderInv /\ DisabledByEach /\ FrameOwned /\ CountNeverOverstates`.
`HolderInv` ties every local pointer to the position of its owner (a helper holds a
frame exactly between allocation and enqueue or between dequeue and drop); without
it ownership is not inductive, since an overwritten pointer would lose a frame.
`DisabledByEach` says that the tasklet's disable count is the number of unbinds
under way, which is what keeps it between 0 and the number of writers.  The
counter's bound counts the helpers, the tasklet and the flush loops between a queue
operation and its counter operation; lemmas bound how these numbers change in a
step.

*`RecvReorderProofs`.*  Two inductive invariants.

`OneCallerTimerCovers`: with one calling context a frame in the list always has
the timer behind it.  `TimerInv` adds that `waiting` implies a timer that is set
or running and that a caller about to cancel has left an empty list behind.  The
last conjunct is what a second caller breaks, and the run `reorder_race` shows it
breaking.

`WindowTypeCorrect`, `ListStaysOrdered` and `WindowImplementsStream` hold for any
number of callers and however often the numbers wrap.  The code keeps only a
12-bit window start, and the properties are about the sender's numbers, so none
of them is inductive.  `WindowInv == TypeOK /\ HeldInv /\ StartInv` says what the
stored number stands for: there is a number w of the sender, above the last
number passed up and within `Reach` (the larger of `WSize` and `Lag`) of the
newest frame, whose sequence number is `indicate_seq`; and the frames held are an
increasing list of numbers above the last one passed up and in the same range.
The range may be behind the window's width because a late frame may be the first
after a reset.  `ReorderAssumption` keeps `Reach + Jump` within half a round, so that
by `SnLess` every comparison the code makes is one of the sender's numbers
(`Arrival`: a frame is late only if it is old, and otherwise moves w within the
range).  Each step then is a step of `InOrderStream` (`ArriveStep`, `FlushStep`,
`Renew`) or leaves its variables alone.  The frames that `Accept` and `Handler`
pass up are those of the list below the new w, which `DeliverLemma` shows.  TLC
checked `WindowInv` on instances with `Lag` below and above `WSize` before it
was proved.

*`RecvReorderLemmas`* holds what this rests on: remainders and serial numbers
(`ModSub`, `SnLess`, `SnEqual`), where the window moves (`SlideMoves`), the
place of a frame in the list (`PlaceLemma`, `TakenLemma`, `InsertLemma`), and the
loop of `recv_indicatepkts_in_order()` (`StartAfterDef`, `InOrderLemma`,
`DeliverLemma`).  The last three need an induction over the list.  The library's
induction theorems take a predicate, which the installed provers cannot
instantiate; here it is stated for a set instead (`UpTo`), from the least element
of a non-empty set of numbers (`LeastNumber`), and the function defined by
recursion is shown to exist by the set of prefixes for which one does.

*`RtwCmdProofs`.*  `CmdTypeCorrect`, `ContextsStayPaired` and `WakeupsAreNotLost`
follow from `IInv == CmdTypeOK /\ HandInv /\ ContextPaired /\ WakeInv`.  `HandInv`
says when the thread and a client have a command in hand.  `WakeInv` extends
`NoLostWakeup` to a thread that has ended: the next one starts with the semaphore
it left, and a command stranded in the queue must find it raised.

*`CoopRxSessionProofs`.*  `SessionTypeCorrect`, `SessionFollowsPrimary` and
`HelpersFollowPrimary` follow from
`IInv == SessionTypeOK /\ PlaceInv /\ FollowInv /\ TouchedInv`.  The argument goes
through the middle of a switch: after its first assignment the bandwidth is still
the bound one (`BoundInv`), so a bind that reads it there either agrees with the
bound setting (`BindsInv`) or leaves the notification a difference to find; and
until a notification is due every helper has the bound setting, or a bind or the
notification is still to give it (`TunedInv`, `MoveInv`).  A change that is not
reported makes a session bound in its middle stale from the start.  `TouchedInv`
says that a helper with no excuse was tuned by the last bind or will be.

*`CoopRxMergeProofs`.*  The inductive invariant of the caches is
`IInv == MergeTypeOK /\ PlaceInv /\ ClaimInv`.  `PlaceInv` ties the frames in hand to
the positions, without which a frame in hand could be overwritten and forgotten.
`ClaimInv` says of any stream of `Lossless` traffic, also over many rounds, that the
number in `rxseq` is that of a frame some copy of which got through or is about to
(`ClaimsAreReal`); a frame the tasklet dropped for the window start is the one
exception, and `WindowDropsOnlyOld` and `merge_drops` are about those.
`MergeTypeCorrect` needs no more than the assumptions either.  `ClaimsAreHonoured`
has the hypothesis `MaxSN < SN_MOD`: over more than one round the number no longer
names one frame.

`MergeUsesWindow` proves `MergeSpec => Spec`: every step of the receive paths is a
step of the window or leaves its variables alone, whatever the caches let
through.  With it the theorems about the window carry over, which gives
`MergeImplementsStream`.  `WindowDropsAreOld` proves `WindowDropsOnlyOld` under the
hypothesis `MaxSN + 1 < SN_MOD \div 2`: beyond it a frame half a round ahead is
indistinguishable from an old one, and the property is false.  Its invariant
`MonoInv` says what the comment in the tasklet relies on, that within one agreement
the window start only advances (`RangeInv`: nothing held lies behind it), so that
what was once found behind it stays behind it (`LateInv`).  The instance of `merge`
satisfies both hypotheses; `ClaimInv` and the refinement were also model-checked
across the wrap (`SN_MOD` 4, five numbers).

Every safety property that a passing run checks is now the subject of a theorem
(`TimerCovers` for one caller, which is when it is true).  Model-checked only: the
liveness properties (`DisconnectCompletes`, `UnbindCompletes`, `BufferedLeaves`,
`CommandLeaves`, `CallReturns`, `StopCompletes`), since fairness and ENABLED are
beyond the prover.

## 5. Plan

Done in this order: the group, the queue, the window, the merge of the receive
paths, the command thread, the session.  Left:

1. `RecvReorder`: the end of an agreement and the freeing of the station; with it
   the stale `sta_info` in queued frames.
2. `CoopRxCrypto`: life of the transforms against bind, unbind and the tasklet;
   the cached key.
3. `CoopRxLookup`: the unlocked scan of the helper array against its shift; unload
   against the data plane.
4. `CoopRxSession`: AP mode, the BSSID, helpers that share a device.
5. `CoopRxMerge`: multicast frames, whose group packet numbers go into the cache of
   the pairwise ones, and rekeying.
6. Proofs: the safety facts under the liveness properties, such as what still
   covers a frame in the window when there are two callers.

## 6. Not modelled

Statistics, their sysfs, procfs and debugfs output, module parameters, the
ciphers, the vendor core beyond the reorder window, the command queue and what the
session reads of the MLME, the HAL, suspend and resume.
The reasons are with each component in `PROJECT.json`.
