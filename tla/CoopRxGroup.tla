---------------------------- MODULE CoopRxGroup ----------------------------
(***************************************************************************)
(* The control plane of cooperative RX (core/rtw_cooperative_rx.c): the    *)
(* cooperative_rx_group singleton, the sysfs writers that pair, unpair,    *)
(* bind and unbind adapters, the USB disconnect of an adapter, cfg80211's  *)
(* removal of an interface and the unload of the module.                   *)
(*                                                                         *)
(* A step is what happens between two points where another CPU can get in: *)
(* one section under grp->lock, one sleeping call, or one read of a shared *)
(* pointer that is used after it.  Of the pending queue only that it is    *)
(* not empty is kept, and only while somebody drains it: what happens to   *)
(* the frames is in the module CoopRxQueue.  The crypto transforms and the *)
(* channels of the helpers are left out.                                   *)
(***************************************************************************)
EXTENDS Naturals, FiniteSets

CONSTANTS
  Adapters,           \* the adapters this driver has probed (struct _ADAPTER)
  Tasks,              \* user-space tasks writing to the sysfs attributes
  NULL,               \* the null pointer
  COOP_MAX_HELPERS,   \* length of grp->helpers[]
  Unplugged,          \* the adapters that may be disconnected from USB
  Deletable,          \* the adapters whose interface cfg80211 may delete
  MayUnload           \* whether the module may be unloaded

ASSUME GroupAssumption ==
  /\ COOP_MAX_HELPERS \in Nat \ {0}
  /\ NULL \notin Adapters
  /\ NULL \notin Tasks
  /\ Tasks \cap Adapters = {}
  /\ Unplugged \subseteq Adapters
  /\ Deletable \subseteq Adapters
  /\ MayUnload \in BOOLEAN

VARIABLES
  state,        \* grp->state
  primary,      \* grp->primary
  helpers,      \* grp->helpers[]
  num_helpers,  \* grp->num_helpers
  group,        \* the rtw_coop_rx_group pointer and what it points to
  pc,           \* where each task is in its store function
  dev,          \* the adapter whose attribute the task writes
  snap,         \* adapters the task still has to work on (a local array)
  ndev,         \* the net_device of each adapter and its sysfs attributes
  rtnl,         \* holder of rtnl_lock: a task, or the adapter being deleted
  unplug,       \* where the USB disconnect of each adapter is
  unload,       \* where rtw_drv_halt is
  queued        \* grp->pending_queue is not empty, while it is being drained

grpVars  == <<state, primary, helpers, num_helpers>>
taskVars == <<pc, dev, snap>>
devVars  == <<ndev, rtnl, unplug>>
vars     == <<grpVars, group, taskVars, devVars, unload, queued>>

Slots      == 1..COOP_MAX_HELPERS
CoopState  == {"DISABLED", "IDLE", "BINDING", "ACTIVE"}

(***************************************************************************)
(* The helper array.  The first num_helpers slots are in use.              *)
(***************************************************************************)
EmptySlots == [i \in Slots |-> NULL]

Members == {helpers[i] : i \in 1..num_helpers}

SlotOf(a) == CHOOSE i \in 1..num_helpers : helpers[i] = a

\* Deleting slot k: the entries behind it move down, the last one is cleared.
ShiftDown(k) ==
  [i \in Slots |-> IF i < k \/ i > num_helpers THEN helpers[i]
                   ELSE IF i < num_helpers THEN helpers[i + 1]
                   ELSE NULL]

-----------------------------------------------------------------------------
(***************************************************************************)
(* The lock sections shared by several callers.                            *)
(***************************************************************************)

\* Faulty variant: the -EBUSY check of another primary is missing.
CanSetPrimaryNoBusy(a) == group = "published"

\* rtw_coop_rx_set_primary() succeeds: primary is free or already a.
CanSetPrimary(a) == group = "published" /\ primary \in {NULL, a}

SetPrimary(a) ==
  /\ primary' = a
  /\ state' = IF state = "DISABLED" THEN "IDLE" ELSE state
  /\ UNCHANGED <<helpers, num_helpers>>

\* Faulty variant: neither the length of the array nor a duplicate is checked.
CanAddHelperUnchecked(h) == group = "published" /\ primary # NULL

\* rtw_coop_rx_add_helper() appends h; otherwise it returns an error, or 0 for
\* an adapter that is already there, and changes nothing.
CanAddHelper(h) ==
  /\ group = "published"
  /\ primary # NULL
  /\ num_helpers < COOP_MAX_HELPERS
  /\ h \notin Members

AddHelper(h) ==
  IF CanAddHelper(h)
  THEN /\ helpers' = [helpers EXCEPT ![num_helpers + 1] = h]
       /\ num_helpers' = num_helpers + 1
       /\ state' = IF state = "IDLE" THEN "BINDING" ELSE state
       /\ UNCHANGED primary
  ELSE UNCHANGED grpVars

\* Faulty variant: the removal of the last helper leaves the session ACTIVE.
RemoveHelperNoFallback(h) ==
  IF group = "published" /\ h \in Members
  THEN /\ helpers' = ShiftDown(SlotOf(h))
       /\ num_helpers' = num_helpers - 1
       /\ UNCHANGED <<primary, state>>
  ELSE UNCHANGED grpVars

\* rtw_coop_rx_remove_helper(): the last helper of an active session takes the
\* group back to primary-only mode.
RemoveHelper(h) ==
  IF group = "published" /\ h \in Members
  THEN /\ helpers' = ShiftDown(SlotOf(h))
       /\ num_helpers' = num_helpers - 1
       /\ state' = IF num_helpers = 1 /\ state = "ACTIVE" THEN "IDLE" ELSE state
       /\ UNCHANGED primary
  ELSE UNCHANGED grpVars

-----------------------------------------------------------------------------
(***************************************************************************)
(* The sysfs store functions.                                              *)
(***************************************************************************)

\* The attributes of a can be opened until the sysfs group is removed, and the
\* net_device can be found by name until it is unregistered.
HasAttributes(a) == ndev[a] = "registered"
Registered(a)    == ndev[a] # "gone"

Enter(t, a, where, S) ==
  /\ pc[t] = "idle"
  /\ HasAttributes(a)
  /\ pc' = [pc EXCEPT ![t] = where]
  /\ dev' = [dev EXCEPT ![t] = a]
  /\ snap' = [snap EXCEPT ![t] = S]

Return(t) ==
  /\ pc' = [pc EXCEPT ![t] = "idle"]
  /\ dev' = [dev EXCEPT ![t] = NULL]
  /\ snap' = [snap EXCEPT ![t] = {}]

\* coop_rx_pair of a with the name of h: first a becomes primary ...
StorePair(t, a, h) ==
  /\ CanSetPrimary(a)
  /\ Enter(t, a, "pair", {h})
  /\ SetPrimary(a)
  /\ UNCHANGED <<group, devVars, unload, queued>>

\* ... then the helper is looked up by name and added.  The lookup holds a
\* reference on the net_device, so lookup and add are one step.
PairAddHelper(t) ==
  /\ pc[t] = "pair"
  /\ \E h \in snap[t] :
       IF Registered(h) THEN AddHelper(h) ELSE UNCHANGED grpVars
  /\ Return(t)
  /\ UNCHANGED <<group, devVars, unload, queued>>

\* coop_rx_auto_pair of a: a becomes primary, then rtnl_lock() ...
StoreAutoPair(t, a) ==
  /\ CanSetPrimary(a)
  /\ Enter(t, a, "autopair", {})
  /\ SetPrimary(a)
  /\ UNCHANGED <<group, devVars, unload, queued>>

\* ... and under it every other net_device of this driver is added.
DiscoverStart(t) ==
  /\ pc[t] = "autopair"
  /\ rtnl = NULL
  /\ rtnl' = t
  /\ pc' = [pc EXCEPT ![t] = "discover"]
  /\ snap' = [snap EXCEPT ![t] = {h \in Adapters \ {dev[t]} : Registered(h)}]
  /\ UNCHANGED <<grpVars, group, dev, ndev, unplug, unload, queued>>

DiscoverHelper(t) ==
  /\ pc[t] = "discover"
  /\ \E h \in snap[t] :
       /\ AddHelper(h)
       /\ snap' = [snap EXCEPT ![t] = @ \ {h}]
  /\ UNCHANGED <<pc, dev, group, devVars, unload, queued>>

\* Faulty variant: the rtnl_unlock() is missing.
DiscoverDoneLocked(t) ==
  /\ pc[t] = "discover" /\ snap[t] = {}
  /\ Return(t)
  /\ UNCHANGED <<grpVars, group, devVars, unload, queued>>

DiscoverDone(t) ==
  /\ pc[t] = "discover" /\ snap[t] = {}
  /\ rtnl' = NULL
  /\ Return(t)
  /\ UNCHANGED <<grpVars, group, ndev, unplug, unload, queued>>

\* coop_rx_unpair: one lock section, then synchronize_rcu().
StoreUnpair(t, h) ==
  /\ pc[t] = "idle"
  /\ \E a \in Adapters : HasAttributes(a)
  /\ Registered(h)
  /\ RemoveHelper(h)
  /\ UNCHANGED <<group, taskVars, devVars, unload, queued>>

\* coop_rx_bind = 1, or coop_rx_enabled = 1 in the IDLE state: the group
\* pointer and grp->primary are read before the lock is taken.  A primary that
\* is not associated makes the store return here.
StoreBind(t, a) ==
  /\ group = "published"
  /\ primary = a
  /\ Enter(t, a, "bind", {})
  /\ UNCHANGED <<grpVars, group, devVars, unload, queued>>

\* The lock section of rtw_coop_rx_bind_session(): grp->primary is not read
\* again, the helpers are copied to a local array.
BindLock(t) ==
  /\ pc[t] = "bind"
  /\ group # "freed"
  /\ state' = IF num_helpers > 0 THEN "ACTIVE" ELSE state
  /\ pc' = [pc EXCEPT ![t] = "crypto"]
  /\ snap' = [snap EXCEPT ![t] = Members]
  /\ UNCHANGED <<primary, helpers, num_helpers, group, dev, devVars, unload, queued>>

\* The lock is released; coop_rx_crypto_init(grp) may sleep.
BindCrypto(t) ==
  /\ pc[t] = "crypto"
  /\ group # "freed"
  /\ pc' = [pc EXCEPT ![t] = "monitor"]
  /\ UNCHANGED <<grpVars, group, dev, snap, devVars, unload, queued>>

\* rtw_coop_rx_enable_helper_monitor() on each copied helper; it sleeps, and
\* takes and releases rtnl_lock.
BindMonitor(t) ==
  /\ pc[t] = "monitor"
  /\ rtnl = NULL
  /\ \E h \in snap[t] :
       /\ unplug[h] # "freed"
       /\ snap' = [snap EXCEPT ![t] = @ \ {h}]
  /\ UNCHANGED <<grpVars, group, pc, dev, devVars, unload, queued>>

\* The last line reads the group once more, to log what was bound.
BindDone(t) ==
  /\ pc[t] = "monitor" /\ snap[t] = {}
  /\ group # "freed"
  /\ Return(t)
  /\ UNCHANGED <<grpVars, group, devVars, unload, queued>>

\* coop_rx_bind = 0 or coop_rx_enabled = 0: the tasklet is disabled and the
\* transforms are freed before the lock is taken.
StoreUnbind(t, a) ==
  /\ group = "published"
  /\ Enter(t, a, "unbind", {})
  /\ UNCHANGED <<grpVars, group, devVars, unload, queued>>

\* The lock section of rtw_coop_rx_unbind_session().
UnbindLock(t) ==
  /\ pc[t] = "unbind"
  /\ group # "freed"
  /\ state' = IF state \in {"ACTIVE", "BINDING"}
              THEN IF primary # NULL THEN "IDLE" ELSE "DISABLED"
              ELSE state
  /\ pc' = [pc EXCEPT ![t] = "drain"]
  /\ UNCHANGED <<primary, helpers, num_helpers, group, dev, snap, devVars, unload, queued>>

\* The pending queue has been drained; the tasklet is enabled again.
UnbindDrain(t) ==
  /\ pc[t] = "drain"
  /\ group # "freed"
  /\ ~queued
  /\ Return(t)
  /\ UNCHANGED <<grpVars, group, devVars, unload, queued>>

-----------------------------------------------------------------------------
(***************************************************************************)
(* rtw_dev_remove(): the USB disconnect of an adapter.                     *)
(***************************************************************************)

\* rtw_coop_rx_remove_adapter() reads the group pointer, removes the adapter
\* as a helper and sleeps in synchronize_rcu().
RemoveAsHelper(a) ==
  /\ a \in Unplugged
  /\ unplug[a] = "no"
  /\ RemoveHelper(a)
  /\ unplug' = [unplug EXCEPT
                  ![a] = IF group = "published" THEN "helper" ELSE "removed"]
  /\ UNCHANGED <<group, taskVars, ndev, rtnl, unload, queued>>

\* Back from the grace period, it looks whether the adapter is the primary.
RemoveCheckPrimary(a) ==
  /\ unplug[a] = "helper"
  /\ group # "freed"
  /\ unplug' = [unplug EXCEPT ![a] = IF primary = a THEN "teardown" ELSE "removed"]
  /\ UNCHANGED <<grpVars, group, taskVars, ndev, rtnl, unload, queued>>

\* The lock was dropped to kill the tasklet and to drain the queue.  The state is
\* still ACTIVE, so the helpers go on feeding both; once the queue is found empty
\* the whole group is cleared.
RemoveTeardown(a) ==
  /\ unplug[a] = "teardown"
  /\ group # "freed"
  /\ ~queued
  /\ primary' = NULL
  /\ num_helpers' = 0
  /\ helpers' = EmptySlots
  /\ state' = "IDLE"
  /\ unplug' = [unplug EXCEPT ![a] = "removed"]
  /\ UNCHANGED <<group, taskVars, ndev, rtnl, unload, queued>>

\* rtw_os_ndev_unregister(): the sysfs group is closed to new writers ...
RemoveAttributes(a) ==
  /\ unplug[a] = "removed"
  /\ ndev[a] = "registered"
  /\ ndev' = [ndev EXCEPT ![a] = "draining"]
  /\ UNCHANGED <<grpVars, group, taskVars, rtnl, unplug, unload, queued>>

\* The store functions running on a have returned.
Drained(a) == \A t \in Tasks : dev[t] # a

\* ... and once they are gone the net_device is unregistered under rtnl_lock.
Unregister(a) ==
  /\ unplug[a] = "removed"
  /\ ndev[a] = "draining"
  /\ Drained(a)
  /\ rtnl = NULL
  /\ ndev' = [ndev EXCEPT ![a] = "gone"]
  /\ UNCHANGED <<grpVars, group, taskVars, rtnl, unplug, unload, queued>>

\* rtw_usb_primary_adapter_deinit() and usb_dvobj_deinit().
FreeAdapter(a) ==
  /\ unplug[a] = "removed"
  /\ ndev[a] = "gone"
  /\ unplug' = [unplug EXCEPT ![a] = "freed"]
  /\ UNCHANGED <<grpVars, group, taskVars, ndev, rtnl, unload, queued>>

-----------------------------------------------------------------------------
(***************************************************************************)
(* cfg80211_rtw_del_virtual_intf(): cfg80211 calls it with rtnl_lock held. *)
(* It unregisters the net_device; the adapter itself lives until the       *)
(* disconnect, and its membership of the group is left alone.              *)
(***************************************************************************)
DelStart(a) ==
  /\ a \in Deletable
  /\ unplug[a] = "no"
  /\ ndev[a] = "registered"
  /\ rtnl = NULL
  /\ rtnl' = a
  /\ ndev' = [ndev EXCEPT ![a] = "draining"]
  /\ UNCHANGED <<grpVars, group, taskVars, unplug, unload, queued>>

DelUnregister(a) ==
  /\ rtnl = a
  /\ Drained(a)
  /\ ndev' = [ndev EXCEPT ![a] = "gone"]
  /\ rtnl' = NULL
  /\ UNCHANGED <<grpVars, group, taskVars, unplug, unload, queued>>

-----------------------------------------------------------------------------
(***************************************************************************)
(* rtw_drv_halt(): the group is destroyed before usb_deregister().         *)
(***************************************************************************)

\* tasklet_kill() and the transforms; then the pending frames are drained.
DeinitKill ==
  /\ MayUnload
  /\ unload = "no"
  /\ unload' = "kill"
  /\ UNCHANGED <<grpVars, group, taskVars, devVars, queued>>

\* The queue is empty.  The lock section; the array itself is not cleared.
DeinitLock ==
  /\ unload = "kill"
  /\ ~queued
  /\ state' = "DISABLED"
  /\ primary' = NULL
  /\ num_helpers' = 0
  /\ unload' = "lock"
  /\ UNCHANGED <<helpers, group, taskVars, devVars, queued>>

\* WRITE_ONCE(rtw_coop_rx_group, NULL), then synchronize_rcu().
DeinitUnpublish ==
  /\ unload = "lock"
  /\ group' = "unpublished"
  /\ unload' = "unpublish"
  /\ UNCHANGED <<grpVars, taskVars, devVars, queued>>

DeinitFree ==
  /\ unload = "unpublish"
  /\ group' = "freed"
  /\ unload' = "done"
  /\ UNCHANGED <<grpVars, taskVars, devVars, queued>>

-----------------------------------------------------------------------------
(***************************************************************************)
(* The pending queue while somebody waits for it to be empty: an unbind,   *)
(* the disconnect of the primary (which also waits for the tasklet that    *)
(* the helpers schedule again) or the unload.                              *)
(***************************************************************************)
Draining ==
  \/ \E t \in Tasks : pc[t] = "drain"
  \/ \E a \in Adapters : unplug[a] = "teardown"
  \/ unload = "kill"

\* rtw_coop_rx_submit_helper_frame() of some helper.
Submit ==
  /\ Draining
  /\ group = "published" /\ state = "ACTIVE" /\ primary # NULL
  /\ ~queued
  /\ queued' = TRUE
  /\ UNCHANGED <<grpVars, group, taskVars, devVars, unload>>

\* The loop, or the tasklet, has taken what was queued.
FramesLeave ==
  /\ queued
  /\ queued' = FALSE
  /\ UNCHANGED <<grpVars, group, taskVars, devVars, unload>>

-----------------------------------------------------------------------------
\* rtw_coop_rx_init() has published an empty group, the adapters are probed.
Init ==
  /\ state = "IDLE"
  /\ primary = NULL
  /\ helpers = EmptySlots
  /\ num_helpers = 0
  /\ group = "published"
  /\ pc = [t \in Tasks |-> "idle"]
  /\ dev = [t \in Tasks |-> NULL]
  /\ snap = [t \in Tasks |-> {}]
  /\ ndev = [a \in Adapters |-> "registered"]
  /\ rtnl = NULL
  /\ unplug = [a \in Adapters |-> "no"]
  /\ unload = "no"
  /\ queued = FALSE

Sysfs(t) ==
  \/ \E a, h \in Adapters : StorePair(t, a, h)
  \/ PairAddHelper(t)
  \/ \E a \in Adapters : StoreAutoPair(t, a)
  \/ DiscoverStart(t)
  \/ DiscoverHelper(t)
  \/ DiscoverDone(t)
  \/ \E h \in Adapters : StoreUnpair(t, h)
  \/ \E a \in Adapters : StoreBind(t, a)
  \/ BindLock(t)
  \/ BindCrypto(t)
  \/ BindMonitor(t)
  \/ BindDone(t)
  \/ \E a \in Adapters : StoreUnbind(t, a)
  \/ UnbindLock(t)
  \/ UnbindDrain(t)

Disconnect(a) ==
  \/ RemoveAsHelper(a)
  \/ RemoveCheckPrimary(a)
  \/ RemoveTeardown(a)
  \/ RemoveAttributes(a)
  \/ Unregister(a)
  \/ FreeAdapter(a)

DelInterface(a) == DelStart(a) \/ DelUnregister(a)

Deinit == DeinitKill \/ DeinitLock \/ DeinitUnpublish \/ DeinitFree

Next ==
  \/ \E t \in Tasks : Sysfs(t)
  \/ \E a \in Adapters : Disconnect(a) \/ DelInterface(a)
  \/ Deinit
  \/ Submit \/ FramesLeave

Spec == Init /\ [][Next]_vars

(***************************************************************************)
(* A store function that was entered runs on, a disconnect that began goes *)
(* on, a loop that finds the queue not empty takes frames from it, and     *)
(* rtnl_lock is a fair mutex: who waits for it gets it, unless it is held  *)
(* for ever.                                                               *)
(***************************************************************************)
RunOn(t) ==
  \/ PairAddHelper(t) \/ DiscoverHelper(t) \/ DiscoverDone(t)
  \/ BindLock(t) \/ BindCrypto(t) \/ BindDone(t) \/ UnbindLock(t) \/ UnbindDrain(t)

TakeRtnl(t) == DiscoverStart(t) \/ BindMonitor(t)

GoOn(a) ==
  \/ RemoveCheckPrimary(a) \/ RemoveTeardown(a) \/ RemoveAttributes(a)
  \/ FreeAdapter(a) \/ DelUnregister(a)

Fairness ==
  /\ \A t \in Tasks : WF_vars(RunOn(t)) /\ SF_vars(TakeRtnl(t))
  /\ \A a \in Adapters : WF_vars(GoOn(a))
  /\ \A a \in Unplugged : SF_vars(Unregister(a))
  /\ WF_vars(FramesLeave)

FairSpec == Spec /\ Fairness

-----------------------------------------------------------------------------
(***************************************************************************)
(* Properties.                                                             *)
(***************************************************************************)
TypeOK ==
  /\ state \in CoopState
  /\ primary \in Adapters \cup {NULL}
  /\ helpers \in [Slots -> Adapters \cup {NULL}]
  /\ num_helpers \in 0..COOP_MAX_HELPERS
  /\ group \in {"published", "unpublished", "freed"}
  /\ pc \in [Tasks -> {"idle", "pair", "autopair", "discover", "bind", "crypto",
                        "monitor", "unbind", "drain"}]
  /\ dev \in [Tasks -> Adapters \cup {NULL}]
  /\ snap \in [Tasks -> SUBSET Adapters]
  /\ ndev \in [Adapters -> {"registered", "draining", "gone"}]
  /\ rtnl \in Tasks \cup Adapters \cup {NULL}
  /\ unplug \in [Adapters -> {"no", "helper", "teardown", "removed", "freed"}]
  /\ unload \in {"no", "kill", "lock", "unpublish", "done"}
  /\ queued \in BOOLEAN

\* The helpers in use are adapters, each of them once.
HelpersDistinct ==
  \A i, j \in 1..num_helpers :
    helpers[i] # NULL /\ (helpers[i] = helpers[j] => i = j)

\* What the hot path relies on without taking grp->lock: an ACTIVE group has a
\* primary and at least one helper, helpers exist only under a primary, and a
\* session that is being set up has the primary it is set up for.  Bind, the
\* removal of the last helper and the teardown of the primary all rewrite
\* these fields in separate lock sections.
GroupConsistent ==
  /\ state = "ACTIVE" => num_helpers > 0
  /\ num_helpers > 0 => primary # NULL
  /\ state = "BINDING" => primary # NULL
  /\ state = "DISABLED" => primary = NULL

GroupInv == HelpersDistinct /\ GroupConsistent

\* rtw_coop_rx_remove_adapter() drops grp->lock between seeing that it removes
\* the primary and clearing the group.  Whatever runs in between, the primary
\* it clears is its own: outside of the module's unload a primary leaves the
\* role only by its own disconnect, and never by being replaced.
PrimaryStepsDown ==
  [][primary # NULL /\ primary' # primary =>
       primary' = NULL /\ (unload # "no" \/ unplug[primary] = "teardown")]_vars

\* Interface removal holds rtnl_lock and waits for a store function that waits
\* for rtnl_lock.
LockCycle ==
  \E t \in Tasks : /\ rtnl # NULL
                   /\ rtnl = dev[t]
                   /\ pc[t] = "autopair" \/ (pc[t] = "monitor" /\ snap[t] # {})

\* A store function that has read the group pointer, or a disconnect that is
\* between two uses of it.
UsesGroup ==
  \/ \E t \in Tasks : pc[t] \in {"bind", "crypto", "monitor", "unbind", "drain"}
  \/ \E a \in Adapters : unplug[a] \in {"helper", "teardown"}

\* A bind still has to put a freed helper into monitor mode.
UsesFreedHelper ==
  \E t \in Tasks : pc[t] = "monitor" /\ \E h \in snap[t] : unplug[h] = "freed"

UseAfterFree == (group = "freed" /\ UsesGroup) \/ UsesFreedHelper

\* A disconnect that has begun frees the adapter, whatever the sysfs writers,
\* the other disconnects and rtnl_lock do.  What can keep it from doing so is
\* the lock cycle, the use after free, and helpers that feed the queue for ever:
\* the primary is removed while the session is still ACTIVE.
DisconnectCompletes ==
  <>[][~Submit]_vars =>
    \A a \in Unplugged :
      unplug[a] # "no" ~> (unplug[a] = "freed" \/ LockCycle \/ UseAfterFree)

\* rtw_coop_rx_remove_adapter() "safely removes it from the cooperative group
\* regardless of role": a freed adapter is in no role of the published group.
\* An adapter that was removed can be paired again until its net_device is gone.
RemovedStaysOut ==
  \A a \in Adapters :
    unplug[a] = "freed" /\ group = "published" => a # primary /\ a \notin Members

\* rtw_coop_rx_deinit() "NULL[s] the pointer first, then wait[s] for readers,
\* then free[s]", and a helper's unplug is a "clean fallback, no crash": what is
\* freed, an adapter or the group itself, is in no role of the group and in the
\* hands of no store function and no disconnect.  The code keeps none of it: a
\* removed adapter comes back, bind works through its copy of the helpers
\* without the lock and without a reference, and the store functions and the
\* disconnect read the group pointer without rcu_read_lock(), so that
\* synchronize_rcu() does not wait for them.
NothingFreedInUse == RemovedStaysOut /\ ~UseAfterFree

\* "No deadlock on USB disconnect/reset/suspend of either adapter": a disconnect
\* that has begun frees the adapter as long as nothing uses freed memory.  The
\* code does not keep it when cfg80211 deletes an interface meanwhile: auto_pair
\* and bind take rtnl_lock inside a sysfs attribute that the deletion removes
\* under rtnl_lock, and the disconnect waits for rtnl_lock behind them.
DisconnectNeverDeadlocks ==
  \A a \in Unplugged : unplug[a] # "no" ~> (unplug[a] = "freed" \/ UseAfterFree)
=============================================================================
