---------------------------- MODULE CoopRxQueue ----------------------------
(***************************************************************************)
(* The data plane of cooperative RX: helper frames are moved into          *)
(* recv_frames of the primary's pool, queued on grp->pending_queue, and    *)
(* processed by the drain tasklet, while bind, unbind, the loss of the     *)
(* last helper and the removal of the primary change the session.          *)
(*                                                                         *)
(* Every helper's receive softirq, the drain tasklet and the writers of    *)
(* the session run concurrently: each netdev has its own sysfs files, and  *)
(* nothing keeps two of their stores, or a store and a USB disconnect,     *)
(* apart.  The queue operations and the atomic counter are atomic one by   *)
(* one and never together.  What a frame holds, and why one is a           *)
(* duplicate, is abstracted to the choice of what becomes of it.           *)
(***************************************************************************)
EXTENDS Integers, Sequences, FiniteSets

CONSTANTS
  Frames,             \* the recv_frames of the primary's free_recv_queue
  Helpers,            \* the helper adapters that receive
  Writers,            \* the threads that change the session
  NULL,
  COOP_PENDING_MAX,   \* limit of grp->pending_count
  COOP_BATCH_SIZE,    \* frames one run of the tasklet processes at most
  MayLoseHelpers,     \* whether the last helper may be removed
  MayLosePrimary      \* whether the primary may be removed

ASSUME QueueAssumption ==
  /\ COOP_PENDING_MAX \in Nat
  /\ COOP_BATCH_SIZE \in Nat \ {0}
  /\ NULL \notin Frames
  /\ IsFiniteSet(Helpers) /\ IsFiniteSet(Writers)
  /\ MayLoseHelpers \in BOOLEAN
  /\ MayLosePrimary \in BOOLEAN

VARIABLES
  active,     \* grp->state = COOP_STATE_ACTIVE
  primary,    \* grp->primary # NULL
  free,       \* primary->recvpriv.free_recv_queue
  pending,    \* grp->pending_queue
  count,      \* grp->pending_count
  stack,      \* frames in the primary's receive path
  lost,       \* frames that are in no queue and that nobody will free
  spc,        \* where each helper is in rtw_coop_rx_submit_helper_frame()
  sframe,     \* its pframe_primary
  sched,      \* TASKLET_STATE_SCHED of coop_rx_tasklet
  disabled,   \* its disable count
  tpc,        \* where the tasklet is
  tframe,     \* its pframe
  processed,  \* its loop counter
  cpc,        \* where each writer is in the function that changes the session
  cframe      \* its pframe

session == <<active, primary>>
subVars == <<spc, sframe>>
tskVars == <<sched, disabled, tpc, tframe, processed>>
ctlVars == <<cpc, cframe>>
vars    == <<session, free, pending, count, stack, lost, subVars, tskVars, ctlVars>>

-----------------------------------------------------------------------------
(***************************************************************************)
(* rtw_coop_rx_submit_helper_frame(), in the softirq of helper s.          *)
(***************************************************************************)

\* Faulty variant: a helper's frame is taken whatever the state of the session.
SubmitCheckAny(s) ==
  /\ spc[s] = "idle"
  /\ primary
  /\ spc' = [spc EXCEPT ![s] = "checked"]
  /\ UNCHANGED <<session, free, pending, count, stack, lost, sframe, tskVars, ctlVars>>

\* The state and the primary are read once; the checks on the frame follow.
SubmitCheck(s) ==
  /\ spc[s] = "idle"
  /\ active /\ primary
  /\ spc' = [spc EXCEPT ![s] = "checked"]
  /\ UNCHANGED <<session, free, pending, count, stack, lost, sframe, tskVars, ctlVars>>

\* A check fails, or the pool is empty: the helper keeps its frame.
SubmitReject(s) ==
  /\ spc[s] = "checked"
  /\ spc' = [spc EXCEPT ![s] = "idle"]
  /\ UNCHANGED <<session, free, pending, count, stack, lost, sframe, tskVars, ctlVars>>

\* The skb moves into a frame of the primary's pool.
SubmitAlloc(s) ==
  /\ spc[s] = "checked"
  /\ \E f \in free :
       /\ free' = free \ {f}
       /\ sframe' = [sframe EXCEPT ![s] = f]
  /\ spc' = [spc EXCEPT ![s] = "owned"]
  /\ UNCHANGED <<session, pending, count, stack, lost, tskVars, ctlVars>>

SubmitEnqueue(s) ==
  /\ spc[s] = "owned"
  /\ pending' = Append(pending, sframe[s])
  /\ sframe' = [sframe EXCEPT ![s] = NULL]
  /\ spc' = [spc EXCEPT ![s] = "queued"]
  /\ UNCHANGED <<session, free, count, stack, lost, tskVars, ctlVars>>

\* atomic_inc_return() against the limit.
SubmitCount(s) ==
  /\ spc[s] = "queued"
  /\ count' = count + 1
  /\ spc' = [spc EXCEPT ![s] = IF count + 1 > COOP_PENDING_MAX THEN "over" ELSE "counted"]
  /\ UNCHANGED <<session, free, pending, stack, lost, sframe, tskVars, ctlVars>>

SubmitSchedule(s) ==
  /\ spc[s] = "counted"
  /\ sched' = TRUE
  /\ spc' = [spc EXCEPT ![s] = "idle"]
  /\ UNCHANGED <<session, free, pending, count, stack, lost, sframe,
                 disabled, tpc, tframe, processed, ctlVars>>

\* Faulty variant: the head is read but stays in the queue.
SubmitDequeuePeek(s) ==
  /\ spc[s] = "over"
  /\ pending # <<>>
  /\ sframe' = [sframe EXCEPT ![s] = Head(pending)]
  /\ spc' = [spc EXCEPT ![s] = "drop"]
  /\ UNCHANGED <<session, free, pending, count, stack, lost, tskVars, ctlVars>>

\* Over the limit: the frame at the head is dropped, if there still is one ...
SubmitDequeue(s) ==
  /\ spc[s] = "over"
  /\ IF pending = <<>>
     THEN UNCHANGED <<pending, sframe>>
     ELSE /\ pending' = Tail(pending)
          /\ sframe' = [sframe EXCEPT ![s] = Head(pending)]
  /\ spc' = [spc EXCEPT ![s] = "drop"]
  /\ UNCHANGED <<session, free, count, stack, lost, tskVars, ctlVars>>

\* Faulty variant: the drop does not lower the counter.
SubmitDropUncounted(s) ==
  /\ spc[s] = "drop"
  /\ free' = free \cup ({sframe[s]} \ {NULL})
  /\ sframe' = [sframe EXCEPT ![s] = NULL]
  /\ spc' = [spc EXCEPT ![s] = "idle"]
  /\ UNCHANGED <<session, pending, count, stack, lost, tskVars, ctlVars>>

\* ... and the counter goes down whether there was one or not.
SubmitDrop(s) ==
  /\ spc[s] = "drop"
  /\ count' = count - 1
  /\ free' = free \cup ({sframe[s]} \ {NULL})
  /\ sframe' = [sframe EXCEPT ![s] = NULL]
  /\ spc' = [spc EXCEPT ![s] = "idle"]
  /\ UNCHANGED <<session, pending, stack, lost, tskVars, ctlVars>>

-----------------------------------------------------------------------------
(***************************************************************************)
(* _coop_rx_drain_tasklet().  A tasklet runs on one CPU at a time and only *)
(* while its disable count is zero.                                        *)
(***************************************************************************)
TaskletRun ==
  /\ sched /\ disabled = 0 /\ tpc = "idle"
  /\ sched' = FALSE
  /\ tpc' = IF active /\ primary THEN "pop" ELSE "idle"
  /\ processed' = 0
  /\ UNCHANGED <<session, free, pending, count, stack, lost, subVars, disabled,
                 tframe, ctlVars>>

\* rtw_is_drv_stopped(primary): the run returns at once and the frames stay.
TaskletStopped ==
  /\ sched /\ disabled = 0 /\ tpc = "idle"
  /\ active /\ primary
  /\ sched' = FALSE
  /\ UNCHANGED <<session, free, pending, count, stack, lost, subVars, disabled,
                 tpc, tframe, processed, ctlVars>>

TaskletPop ==
  /\ tpc = "pop"
  /\ processed < COOP_BATCH_SIZE /\ pending # <<>>
  /\ tframe' = Head(pending)
  /\ pending' = Tail(pending)
  /\ tpc' = "dec"
  /\ UNCHANGED <<session, free, count, stack, lost, subVars, sched, disabled,
                 processed, ctlVars>>

TaskletDec ==
  /\ tpc = "dec"
  /\ count' = count - 1
  /\ tpc' = "process"
  /\ UNCHANGED <<session, free, pending, stack, lost, subVars, sched, disabled,
                 tframe, processed, ctlVars>>

NextFrame ==
  /\ tpc = "process"
  /\ tframe' = NULL
  /\ processed' = processed + 1
  /\ tpc' = "pop"
  /\ UNCHANGED <<session, pending, count, subVars, sched, disabled, ctlVars>>

\* A duplicate of what the primary received, or a frame that does not decrypt.
TaskletDup == NextFrame /\ free' = free \cup {tframe} /\ UNCHANGED <<stack, lost>>

\* The frame is indicated, or buffered in a reorder window.
TaskletDeliver == NextFrame /\ stack' = stack \cup {tframe} /\ UNCHANGED <<free, lost>>

\* A QoS frame that needs no software decryption goes straight to
\* recv_indicatepkt_reorder().  When that returns _FAIL (late, or already in the
\* window) or _SUCCESS (no reordering for this TID) the frame is the caller's,
\* and the tasklet only counts it.
TaskletRefused == NextFrame /\ lost' = lost \cup {tframe} /\ UNCHANGED <<free, stack>>

\* "If queue still has frames, reschedule": it is the counter that is read.
TaskletResched ==
  /\ tpc = "pop"
  /\ processed >= COOP_BATCH_SIZE \/ pending = <<>>
  /\ sched' = (sched \/ count > 0)
  /\ tpc' = "idle"
  /\ UNCHANGED <<session, free, pending, count, stack, lost, subVars, disabled,
                 tframe, processed, ctlVars>>

\* External: the primary's receive path gives a frame back to its pool.
StackFree(f) ==
  /\ f \in stack
  /\ stack' = stack \ {f}
  /\ free' = free \cup {f}
  /\ UNCHANGED <<session, pending, count, lost, subVars, tskVars, ctlVars>>

-----------------------------------------------------------------------------
(***************************************************************************)
(* The writers of the session.                                             *)
(***************************************************************************)
Bind(w) ==
  /\ cpc[w] = "idle" /\ primary /\ ~active
  /\ active' = TRUE
  /\ UNCHANGED <<primary, free, pending, count, stack, lost, subVars, tskVars, ctlVars>>

\* Faulty variant: the tasklet is disabled twice and enabled once.
UnbindDisableTwice(w) ==
  /\ cpc[w] = "idle"
  /\ disabled' = disabled + 2
  /\ cpc' = [cpc EXCEPT ![w] = "unbind"]
  /\ UNCHANGED <<session, free, pending, count, stack, lost, subVars, sched, tpc,
                 tframe, processed, cframe>>

\* rtw_coop_rx_unbind_session(): tasklet_disable() counts the callers.
UnbindDisable(w) ==
  /\ cpc[w] = "idle"
  /\ disabled' = disabled + 1
  /\ cpc' = [cpc EXCEPT ![w] = "unbind"]
  /\ UNCHANGED <<session, free, pending, count, stack, lost, subVars, sched, tpc,
                 tframe, processed, cframe>>

\* It has waited for a running tasklet; the state is cleared under the lock.
UnbindLock(w) ==
  /\ cpc[w] = "unbind"
  /\ tpc = "idle"
  /\ active' = FALSE
  /\ cpc' = [cpc EXCEPT ![w] = "unlocked"]
  /\ UNCHANGED <<primary, free, pending, count, stack, lost, subVars, tskVars, cframe>>

\* grp->primary is read after the unlock, once for the whole loop.
UnbindPrimary(w) ==
  /\ cpc[w] = "unlocked"
  /\ cpc' = [cpc EXCEPT ![w] = IF primary THEN "flush" ELSE "orphan"]
  /\ UNCHANGED <<session, free, pending, count, stack, lost, subVars, tskVars, cframe>>

\* The loop over the pending queue, of unbind and of the primary's removal.
Flushing == {"flush", "orphan", "teardown"}

FlushPop(w) ==
  /\ cpc[w] \in Flushing /\ cframe[w] = NULL
  /\ pending # <<>>
  /\ cframe' = [cframe EXCEPT ![w] = Head(pending)]
  /\ pending' = Tail(pending)
  /\ UNCHANGED <<session, free, count, stack, lost, subVars, tskVars, cpc>>

\* Without a primary only the skb of the frame is freed.
FlushFree(w) ==
  /\ cframe[w] # NULL
  /\ count' = count - 1
  /\ IF cpc[w] = "orphan"
     THEN lost' = lost \cup {cframe[w]} /\ UNCHANGED free
     ELSE free' = free \cup {cframe[w]} /\ UNCHANGED lost
  /\ cframe' = [cframe EXCEPT ![w] = NULL]
  /\ UNCHANGED <<session, pending, stack, subVars, tskVars, cpc>>

UnbindEnable(w) ==
  /\ cpc[w] \in {"flush", "orphan"} /\ cframe[w] = NULL
  /\ pending = <<>>
  /\ disabled' = disabled - 1
  /\ cpc' = [cpc EXCEPT ![w] = "idle"]
  /\ UNCHANGED <<session, free, pending, count, stack, lost, subVars, sched, tpc,
                 tframe, processed, cframe>>

\* rtw_coop_rx_remove_helper() of the last helper.
LoseHelpers(w) ==
  /\ MayLoseHelpers
  /\ cpc[w] = "idle" /\ active
  /\ active' = FALSE
  /\ UNCHANGED <<primary, free, pending, count, stack, lost, subVars, tskVars, ctlVars>>

\* rtw_coop_rx_remove_adapter() of the primary, which one thread calls:
\* tasklet_kill() waits until the tasklet is neither scheduled nor running, the
\* queue is flushed, and only then the state is cleared.
RemoveKill(w) ==
  /\ MayLosePrimary
  /\ cpc[w] = "idle" /\ primary
  /\ \A v \in Writers : cpc[v] # "teardown"
  /\ ~sched /\ tpc = "idle"
  /\ cpc' = [cpc EXCEPT ![w] = "teardown"]
  /\ UNCHANGED <<session, free, pending, count, stack, lost, subVars, tskVars, cframe>>

RemoveClear(w) ==
  /\ cpc[w] = "teardown" /\ cframe[w] = NULL
  /\ pending = <<>>
  /\ active' = FALSE
  /\ primary' = FALSE
  /\ cpc' = [cpc EXCEPT ![w] = "idle"]
  /\ UNCHANGED <<free, pending, count, stack, lost, subVars, tskVars, cframe>>

-----------------------------------------------------------------------------
\* A primary and its helpers are paired; nothing has been received yet.
Init ==
  /\ active = FALSE
  /\ primary = TRUE
  /\ free = Frames
  /\ pending = <<>>
  /\ count = 0
  /\ stack = {}
  /\ lost = {}
  /\ spc = [s \in Helpers |-> "idle"]
  /\ sframe = [s \in Helpers |-> NULL]
  /\ sched = FALSE
  /\ disabled = 0
  /\ tpc = "idle"
  /\ tframe = NULL
  /\ processed = 0
  /\ cpc = [w \in Writers |-> "idle"]
  /\ cframe = [w \in Writers |-> NULL]

SubmitStep(s) ==
  \/ SubmitReject(s) \/ SubmitAlloc(s) \/ SubmitEnqueue(s) \/ SubmitCount(s)
  \/ SubmitSchedule(s) \/ SubmitDequeue(s) \/ SubmitDrop(s)

Tasklet ==
  \/ TaskletRun \/ TaskletStopped \/ TaskletPop \/ TaskletDec
  \/ TaskletDup \/ TaskletDeliver \/ TaskletRefused \/ TaskletResched

UnbindStep(w) ==
  \/ UnbindLock(w) \/ UnbindPrimary(w) \/ FlushPop(w) \/ FlushFree(w) \/ UnbindEnable(w)

Session(w) ==
  \/ Bind(w) \/ UnbindDisable(w) \/ UnbindStep(w)
  \/ LoseHelpers(w) \/ RemoveKill(w) \/ RemoveClear(w)

Next ==
  \/ \E s \in Helpers : SubmitCheck(s) \/ SubmitStep(s)
  \/ Tasklet
  \/ \E f \in Frames : StackFree(f)
  \/ \E w \in Writers : Session(w)

Spec == Init /\ [][Next]_vars

(***************************************************************************)
(* A softirq that was entered runs to its end, a scheduled tasklet is run, *)
(* and a writer that entered unbind runs on.                               *)
(***************************************************************************)
Fairness ==
  /\ \A s \in Helpers : WF_vars(SubmitStep(s))
  /\ WF_vars(Tasklet)
  /\ \A w \in Writers : WF_vars(UnbindStep(w))

FairSpec == Spec /\ Fairness

-----------------------------------------------------------------------------
(***************************************************************************)
(* Properties.                                                             *)
(***************************************************************************)
FrameOrNull == Frames \cup {NULL}

TypeOK ==
  /\ active \in BOOLEAN /\ primary \in BOOLEAN
  /\ free \in SUBSET Frames /\ stack \in SUBSET Frames /\ lost \in SUBSET Frames
  /\ pending \in Seq(Frames)
  /\ count \in Int
  /\ spc \in [Helpers -> {"idle", "checked", "owned", "queued", "counted", "over", "drop"}]
  /\ sframe \in [Helpers -> FrameOrNull]
  /\ sched \in BOOLEAN /\ disabled \in 0..Cardinality(Writers)
  /\ tpc \in {"idle", "pop", "dec", "process"}
  /\ tframe \in FrameOrNull
  /\ processed \in 0..COOP_BATCH_SIZE
  /\ cpc \in [Writers -> {"idle", "unbind", "unlocked"} \cup Flushing]
  /\ cframe \in [Writers -> FrameOrNull]

Queued == {pending[i] : i \in 1..Len(pending)}
Held   == {sframe[s] : s \in Helpers} \cup {cframe[w] : w \in Writers} \cup {tframe}

\* No frame is in two places.  The submitters, the tasklet and the flush loops
\* move frames between the queues without a common lock; a frame in two queues
\* would be freed twice, or be processed after it is freed.
OneOwner ==
  /\ \A i, j \in 1..Len(pending) : pending[i] = pending[j] => i = j
  /\ \A s, r \in Helpers : sframe[s] = sframe[r] /\ sframe[s] # NULL => s = r
  /\ \A v, w \in Writers : cframe[v] = cframe[w] /\ cframe[v] # NULL => v = w
  /\ \A s \in Helpers, w \in Writers : sframe[s] = cframe[w] => sframe[s] = NULL
  /\ tframe # NULL => /\ \A s \in Helpers : tframe # sframe[s]
                      /\ \A w \in Writers : tframe # cframe[w]
  /\ Queued \cap Held = {}
  /\ free \cap (Queued \cup Held) = {}
  /\ stack \cap (Queued \cup Held \cup free) = {}
  /\ lost \cap (Queued \cup Held \cup free \cup stack) = {}

\* ... and a frame is free, queued, in someone's hands, in the primary's receive
\* path, or one of those that FramesComeBack is about.
NoneVanishes == Frames \subseteq free \cup Queued \cup Held \cup stack \cup lost

FrameOwned == OneOwner /\ NoneVanishes

\* Frames taken from the pending queue whose atomic_dec() is still to come.
Popped ==
  Cardinality({s \in Helpers : spc[s] = "drop" /\ sframe[s] # NULL})
  + (IF tpc = "dec" THEN 1 ELSE 0)
  + Cardinality({w \in Writers : cframe[w] # NULL})

Uncounted == Cardinality({s \in Helpers : spc[s] = "queued"})

\* pending_count and pending_queue are updated separately, by all actors.  The
\* counter never claims more frames than there are, so that a helper's frame
\* meets backpressure only when COOP_PENDING_MAX frames really wait.
CountNeverOverstates == count + Uncounted <= Len(pending) + Popped

\* rtw_coop_rx_unbind_session() ends while helpers go on receiving: the tasklet
\* it waits for stops after a batch, and with the state cleared before the
\* flush loop only the submitters already past the check can still feed it.
\* That is so unless another writer binds the session again under the loop.
UnbindCompletes ==
  \A w \in Writers :
    cpc[w] = "unbind" ~> cpc[w] = "idle" \/ (active /\ cpc[w] # "unbind")

\* No softirq is in the middle of a submit, and the tasklet is at rest.
Quiet == /\ \A s \in Helpers : spc[s] = "idle"
         /\ ~sched /\ tpc = "idle"
         /\ \A w \in Writers : cpc[w] = "idle"

\* "Set state first so submit_helper_frame() rejects new frames during the drain
\* window (fixes orphaned frame race)": when the session is unbound and nothing
\* runs, no frame is left behind.
NoOrphans == Quiet /\ ~active => pending = <<>>

\* "The primary frame is freed back to the primary's pool when done": no frame is
\* forgotten, neither in nobody's hands nor in the queue of a session that is
\* over.  The code does not keep it: a QoS frame that recv_indicatepkt_reorder()
\* leaves to the tasklet is counted and forgotten, a flush without a primary
\* frees only the skb, and a submitter past the check enqueues after the flush,
\* for a tasklet that returns early.
FramesComeBack == lost = {} /\ NoOrphans
=============================================================================
