------------------------- MODULE CoopRxQueueProofs -------------------------
(***************************************************************************)
(* Theorems about CoopRxQueue for any pool, any number of helpers and of   *)
(* writers of the session, and any limits: a recv_frame has one owner at a *)
(* time, the counter never overstates the queue, and the tasklet is        *)
(* disabled once for every unbind that is under way.                       *)
(***************************************************************************)
EXTENDS CoopRxQueue, FiniteSetTheorems, SequenceTheorems, TLAPS

(***************************************************************************)
(* Who holds a frame, by the place where it is in its function.            *)
(***************************************************************************)
HolderInv ==
  /\ \A s \in Helpers : /\ spc[s] = "owned" => sframe[s] # NULL
                        /\ spc[s] \notin {"owned", "drop"} => sframe[s] = NULL
  /\ tframe # NULL <=> tpc \in {"dec", "process"}
  /\ tpc \in {"dec", "process"} => processed < COOP_BATCH_SIZE
  /\ \A w \in Writers : cframe[w] # NULL => cpc[w] \in Flushing

\* The writers between tasklet_disable() and tasklet_enable().
Disabling == {w \in Writers : cpc[w] \in {"unbind", "unlocked", "flush", "orphan"}}

DisabledByEach == disabled = Cardinality(Disabling)

\* What is said of one variable at a time, and of who holds a frame.
Types == TypeOK /\ HolderInv

IInv == Types /\ DisabledByEach /\ FrameOwned /\ CountNeverOverstates

-----------------------------------------------------------------------------
(***************************************************************************)
(* The two operations on the pending queue, as sets of frames.             *)
(***************************************************************************)
NoRepeat(q) == \A i, j \in 1..Len(q) : q[i] = q[j] => i = j

Elems(q) == {q[i] : i \in 1..Len(q)}

\* rtw_enqueue_recvframe() of a frame that is not in the queue.
LEMMA EnqueueLemma ==
  ASSUME NEW q \in Seq(Frames), NEW f \in Frames, f \notin Elems(q), NoRepeat(q)
  PROVE  /\ Append(q, f) \in Seq(Frames)
         /\ Len(Append(q, f)) = Len(q) + 1
         /\ Elems(Append(q, f)) = Elems(q) \cup {f}
         /\ NoRepeat(Append(q, f))
<1> DEFINE r == Append(q, f)
<1>1. /\ r \in Seq(Frames) /\ Len(r) = Len(q) + 1 /\ Len(q) \in Nat
      /\ \A i \in 1..Len(q) : r[i] = q[i]
      /\ r[Len(q) + 1] = f
  BY AppendProperties
<1> HIDE DEF r
<1>2. \A i \in 1..Len(r) : i \in 1..Len(q) \/ i = Len(q) + 1
  BY <1>1
<1>3. Elems(r) = Elems(q) \cup {f}
  <2>1. Elems(r) \subseteq Elems(q) \cup {f}
    BY <1>1, <1>2 DEF Elems
  <2>2. Elems(q) \cup {f} \subseteq Elems(r)
    BY <1>1 DEF Elems
  <2>3. QED BY <2>1, <2>2
<1>4. NoRepeat(r)
  BY <1>1, <1>2 DEF NoRepeat, Elems
<1>5. QED BY <1>1, <1>3, <1>4 DEF r

\* rtw_alloc_recvframe() on a queue that is not empty takes its head.
LEMMA DequeueLemma ==
  ASSUME NEW q \in Seq(Frames), q # <<>>, NoRepeat(q)
  PROVE  /\ Tail(q) \in Seq(Frames)
         /\ Len(Tail(q)) = Len(q) - 1
         /\ Head(q) \in Frames /\ Head(q) \in Elems(q)
         /\ Elems(Tail(q)) = Elems(q) \ {Head(q)}
         /\ NoRepeat(Tail(q))
<1> DEFINE r == Tail(q)
<1>1. /\ r \in Seq(Frames) /\ Len(r) = Len(q) - 1
      /\ Head(q) \in Frames
      /\ \A i \in 1..Len(r) : r[i] = q[i + 1]
  BY HeadTailProperties
<1>2. Len(q) \in Nat \ {0} /\ Head(q) = q[1]
  BY EmptySeq
<1> HIDE DEF r
<1>3. \A i \in 1..Len(q) : i = 1 \/ (i - 1 \in 1..Len(r) /\ r[i - 1] = q[i])
  BY <1>1, <1>2
<1>4. Elems(r) = Elems(q) \ {Head(q)}
  <2>1. ASSUME NEW i \in 1..Len(r) PROVE r[i] \in Elems(q) \ {Head(q)}
    <3>1. i + 1 \in 1..Len(q) /\ 1 \in 1..Len(q) /\ i + 1 # 1 /\ r[i] = q[i + 1]
      BY <1>1, <1>2
    <3>2. QED BY <1>2, <3>1 DEF Elems, NoRepeat
  <2>2. ASSUME NEW i \in 1..Len(q), q[i] # Head(q) PROVE q[i] \in Elems(r)
    <3>1. i - 1 \in 1..Len(r) /\ r[i - 1] = q[i]
      BY <1>2, <1>3, <2>2
    <3>2. QED BY <3>1 DEF Elems
  <2>3. QED BY <2>1, <2>2 DEF Elems
<1>5. NoRepeat(r)
  BY <1>1, <1>2 DEF NoRepeat
<1>6. Head(q) \in Elems(q)
  BY <1>2 DEF Elems
<1>7. QED BY <1>1, <1>4, <1>5, <1>6 DEF r

-----------------------------------------------------------------------------
Dropping == {s \in Helpers : spc[s] = "drop" /\ sframe[s] # NULL}
Queueing == {s \in Helpers : spc[s] = "queued"}
Freeing  == {w \in Writers : cframe[w] # NULL}

\* Helpers and writers are finitely many, so these sets have sizes.
LEMMA SetsFinite ==
  /\ IsFiniteSet(Dropping) /\ Cardinality(Dropping) \in Nat
  /\ IsFiniteSet(Queueing) /\ Cardinality(Queueing) \in Nat
  /\ IsFiniteSet(Freeing) /\ Cardinality(Freeing) \in Nat
  /\ IsFiniteSet(Disabling) /\ Cardinality(Disabling) \in Nat
  /\ Cardinality(Writers) \in Nat
<1>1. /\ Dropping \in SUBSET Helpers /\ Queueing \in SUBSET Helpers
      /\ Freeing \in SUBSET Writers /\ Disabling \in SUBSET Writers
  BY DEF Dropping, Queueing, Freeing, Disabling
<1>. QED
  BY <1>1, QueueAssumption, FS_Subset, FS_CardinalityType

\* Nothing has been received yet, and nobody changes the session.
LEMMA InitIInv == Init => IInv
<1>. SUFFICES ASSUME Init PROVE IInv
  OBVIOUS
<1>1. TypeOK
  <2>1. pending \in Seq(Frames)
    BY DEF Init
  <2>2. active \in BOOLEAN /\ primary \in BOOLEAN /\ sched \in BOOLEAN
    BY Zenon DEF Init
  <2>3. disabled \in 0..Cardinality(Writers)
    BY SetsFinite DEF Init
  <2>. QED
    BY <2>1, <2>2, <2>3, QueueAssumption DEF Init, TypeOK, FrameOrNull
<1>2. HolderInv
  BY DEF Init, HolderInv
<1>3. Dropping = {} /\ Queueing = {} /\ Freeing = {} /\ Disabling = {}
  BY DEF Init, Dropping, Queueing, Freeing, Disabling
<1>4. /\ Cardinality(Dropping) = 0 /\ Cardinality(Queueing) = 0
      /\ Cardinality(Freeing) = 0 /\ Cardinality(Disabling) = 0
  BY <1>3, FS_EmptySet
<1>5. DisabledByEach
  BY <1>4 DEF DisabledByEach, Init
<1>6. FrameOwned
  <2>1. Queued = {}
    BY DEF Init, Queued
  <2>. QED
    BY <2>1, QueueAssumption DEF Init, FrameOwned, OneOwner, NoneVanishes, Held
<1>7. CountNeverOverstates
  BY <1>4 DEF CountNeverOverstates, Popped, Uncounted, Dropping, Queueing, Freeing, Init
<1>. QED
  BY <1>1, <1>2, <1>5, <1>6, <1>7 DEF IInv, Types

-----------------------------------------------------------------------------
(***************************************************************************)
(* The types and the holders.                                              *)
(***************************************************************************)
SubmitPlaces == {"idle", "checked", "owned", "queued", "counted", "over", "drop"}

\* The head of the pending queue is a frame, and so is the rest.
LEMMA TakeHead ==
  ASSUME TypeOK, pending # <<>>
  PROVE  /\ Head(pending) \in Frames /\ Head(pending) # NULL
         /\ Tail(pending) \in Seq(Frames)
  BY QueueAssumption, HeadTailProperties DEF TypeOK

\* A helper's softirq.
LEMMA HelperTypes ==
  ASSUME Types, NEW s \in Helpers, SubmitCheck(s) \/ SubmitStep(s)
  PROVE  Types' /\ UNCHANGED <<disabled, cpc>>
<1>. USE QueueAssumption DEF Types, session, subVars, tskVars, ctlVars
<1>1. UNCHANGED <<active, primary, stack, lost, disabled, tpc, tframe, processed, cpc, cframe>>
  BY DEF SubmitCheck, SubmitStep, SubmitReject, SubmitAlloc, SubmitEnqueue, SubmitCount,
     SubmitSchedule, SubmitDequeue, SubmitDrop
<1>2. sched' \in BOOLEAN
  BY Zenon DEF TypeOK, SubmitCheck, SubmitStep, SubmitReject, SubmitAlloc, SubmitEnqueue,
     SubmitCount, SubmitSchedule, SubmitDequeue, SubmitDrop
<1>3. sframe[s] \in FrameOrNull /\ (spc[s] = "owned" => sframe[s] \in Frames)
  BY DEF TypeOK, HolderInv, FrameOrNull
<1>4. pending' \in Seq(Frames)
  <2>1. CASE SubmitEnqueue(s)
    BY <1>3, <2>1, AppendProperties DEF TypeOK, SubmitEnqueue
  <2>2. CASE SubmitDequeue(s)
    BY <2>2, TakeHead DEF TypeOK, SubmitDequeue
  <2>3. CASE ~SubmitEnqueue(s) /\ ~SubmitDequeue(s)
    BY <2>3 DEF TypeOK, SubmitCheck, SubmitStep, SubmitReject, SubmitAlloc, SubmitCount,
       SubmitSchedule, SubmitDrop
  <2>. QED
    BY <2>1, <2>2, <2>3
<1>5. free' \in SUBSET Frames /\ count' \in Int
  BY <1>3 DEF TypeOK, FrameOrNull, SubmitCheck, SubmitStep, SubmitReject, SubmitAlloc,
     SubmitEnqueue, SubmitCount, SubmitSchedule, SubmitDequeue, SubmitDrop
<1>6. PICK at \in SubmitPlaces, f \in FrameOrNull :
        /\ spc' = [spc EXCEPT ![s] = at]
        /\ sframe' = [sframe EXCEPT ![s] = f]
        /\ at = "owned" => f # NULL
        /\ at \notin {"owned", "drop"} => f = NULL
  <2>. DEFINE Places(at, f) == /\ spc' = [spc EXCEPT ![s] = at]
                               /\ sframe' = [sframe EXCEPT ![s] = f]
  <2>1. sframe = [sframe EXCEPT ![s] = sframe[s]] /\ NULL \in FrameOrNull
    BY DEF TypeOK, FrameOrNull
  <2>2. spc[s] \in {"idle", "checked", "queued", "counted", "over"} => sframe[s] = NULL
    BY DEF HolderInv
  <2>3. CASE SubmitCheck(s) \/ SubmitReject(s) \/ SubmitEnqueue(s) \/ SubmitCount(s)
             \/ SubmitSchedule(s) \/ SubmitDrop(s)
    <3>1. \E at \in SubmitPlaces \ {"owned", "drop"} : Places(at, NULL)
      BY <2>1, <2>2, <2>3 DEF SubmitPlaces, SubmitCheck, SubmitReject, SubmitEnqueue, SubmitCount,
         SubmitSchedule, SubmitDrop
    <3>. QED
      BY <2>1, <3>1
  <2>4. CASE SubmitAlloc(s)
    <3>1. \E f \in Frames : Places("owned", f)
      BY <2>4 DEF SubmitAlloc, TypeOK
    <3>. QED
      BY <3>1 DEF SubmitPlaces, FrameOrNull
  <2>5. CASE SubmitDequeue(s)
    <3>1. \E f \in FrameOrNull : Places("drop", f)
      <4>1. CASE pending = <<>>
        BY <2>1, <2>2, <2>5, <4>1 DEF SubmitDequeue
      <4>2. CASE pending # <<>>
        BY <2>5, <4>2, TakeHead DEF SubmitDequeue, FrameOrNull
      <4>. QED
        BY <4>1, <4>2
    <3>. QED
      BY <3>1 DEF SubmitPlaces
  <2>. QED
    BY <2>3, <2>4, <2>5 DEF SubmitStep
<1>7. spc' \in [Helpers -> SubmitPlaces] /\ sframe' \in [Helpers -> FrameOrNull]
  BY <1>6 DEF TypeOK, SubmitPlaces
<1>8. TypeOK'
  BY <1>1, <1>2, <1>4, <1>5, <1>7, Zenon DEF TypeOK, SubmitPlaces
<1>9. HolderInv'
  BY <1>1, <1>6 DEF HolderInv, TypeOK
<1>. QED
  BY <1>1, <1>8, <1>9

\* The tasklet, and the primary's receive path.
LEMMA TaskletTypes ==
  ASSUME Types, Tasklet \/ \E f \in Frames : StackFree(f)
  PROVE  Types' /\ UNCHANGED <<disabled, cpc>>
<1>. USE QueueAssumption DEF Types, session, subVars, tskVars, ctlVars, NextFrame
<1>1. UNCHANGED <<active, primary, spc, sframe, disabled, cpc, cframe>>
  BY DEF Tasklet, StackFree, TaskletRun, TaskletStopped, TaskletPop, TaskletDec, TaskletDup,
     TaskletDeliver, TaskletRefused, TaskletResched
<1>2. sched' \in BOOLEAN
  BY Zenon DEF TypeOK, Tasklet, StackFree, TaskletRun, TaskletStopped, TaskletPop, TaskletDec,
     TaskletDup, TaskletDeliver, TaskletRefused, TaskletResched
<1>3. tpc = "process" => tframe \in Frames
  BY DEF TypeOK, HolderInv, FrameOrNull
<1>4. /\ pending' \in Seq(Frames) /\ count' \in Int
      /\ free' \in SUBSET Frames /\ stack' \in SUBSET Frames /\ lost' \in SUBSET Frames
      /\ tpc' \in {"idle", "pop", "dec", "process"} /\ tframe' \in FrameOrNull
      /\ processed' \in 0..COOP_BATCH_SIZE
      /\ tframe' # NULL <=> tpc' \in {"dec", "process"}
      /\ tpc' \in {"dec", "process"} => processed' < COOP_BATCH_SIZE
  <2>1. CASE TaskletRun \/ TaskletStopped \/ TaskletResched
    BY <2>1 DEF TypeOK, HolderInv, FrameOrNull, TaskletRun, TaskletStopped, TaskletResched
  <2>2. CASE TaskletPop
    BY <2>2, TakeHead DEF TypeOK, HolderInv, FrameOrNull, TaskletPop
  <2>3. CASE TaskletDec
    BY <2>3 DEF TypeOK, HolderInv, TaskletDec
  <2>4. CASE TaskletDup \/ TaskletDeliver \/ TaskletRefused
    BY <1>3, <2>4 DEF TypeOK, HolderInv, FrameOrNull, TaskletDup, TaskletDeliver, TaskletRefused
  <2>5. CASE \E f \in Frames : StackFree(f)
    BY <2>5 DEF TypeOK, HolderInv, StackFree
  <2>. QED
    BY <2>1, <2>2, <2>3, <2>4, <2>5 DEF Tasklet
<1>5. TypeOK'
  BY <1>1, <1>2, <1>4, Zenon DEF TypeOK
<1>6. HolderInv'
  BY <1>1, <1>4 DEF HolderInv
<1>. QED
  BY <1>1, <1>5, <1>6

\* A writer of the session; what it does to the disable count comes with the places.
LEMMA WriterTypes ==
  ASSUME Types, DisabledByEach, NEW w \in Writers, Session(w)
  PROVE  Types' /\ DisabledByEach'
<1>. USE QueueAssumption DEF Types, session, subVars, tskVars, ctlVars, Session, UnbindStep
<1>1. UNCHANGED <<stack, spc, sframe, sched, tpc, tframe, processed>>
  BY DEF Bind, UnbindDisable, UnbindLock, UnbindPrimary, FlushPop, FlushFree, UnbindEnable,
     LoseHelpers, RemoveKill, RemoveClear
<1>2. active' \in BOOLEAN /\ primary' \in BOOLEAN
  BY Zenon DEF TypeOK, Bind, UnbindDisable, UnbindLock, UnbindPrimary, FlushPop, FlushFree,
     UnbindEnable, LoseHelpers, RemoveKill, RemoveClear
<1>3. pending' \in Seq(Frames)
  BY TakeHead DEF TypeOK, Bind, UnbindDisable, UnbindLock, UnbindPrimary, FlushPop, FlushFree,
     UnbindEnable, LoseHelpers, RemoveKill, RemoveClear
<1>4. count' \in Int /\ free' \in SUBSET Frames /\ lost' \in SUBSET Frames
  <2>1. cframe[w] # NULL => cframe[w] \in Frames
    BY DEF TypeOK, FrameOrNull
  <2>. QED
    BY <2>1 DEF TypeOK, Bind, UnbindDisable, UnbindLock, UnbindPrimary, FlushPop, FlushFree,
       UnbindEnable, LoseHelpers, RemoveKill, RemoveClear
<1>5. PICK at \in {"idle", "unbind", "unlocked"} \cup Flushing, f \in FrameOrNull :
        /\ cpc' = [cpc EXCEPT ![w] = at]
        /\ cframe' = [cframe EXCEPT ![w] = f]
        /\ f # NULL => at \in Flushing
  <2>. DEFINE Places(at, f) == /\ cpc' = [cpc EXCEPT ![w] = at]
                               /\ cframe' = [cframe EXCEPT ![w] = f]
  <2>1. /\ cpc = [cpc EXCEPT ![w] = cpc[w]] /\ cframe = [cframe EXCEPT ![w] = cframe[w]]
        /\ NULL \in FrameOrNull /\ cpc[w] \in {"idle", "unbind", "unlocked"} \cup Flushing
        /\ cframe[w] \in FrameOrNull /\ (cframe[w] # NULL => cpc[w] \in Flushing)
    BY DEF TypeOK, HolderInv, FrameOrNull
  <2>2. CASE FlushPop(w)
    <3>1. Places(cpc[w], Head(pending)) /\ cpc[w] \in Flushing
      BY <2>1, <2>2 DEF FlushPop
    <3>. QED
      BY <2>1, <2>2, <3>1, TakeHead DEF FlushPop, FrameOrNull
  <2>3. CASE FlushFree(w)
    <3>1. Places(cpc[w], NULL)
      BY <2>1, <2>3 DEF FlushFree
    <3>. QED
      BY <2>1, <3>1
  <2>4. CASE Bind(w) \/ LoseHelpers(w)
    <3>1. Places(cpc[w], cframe[w])
      BY <2>1, <2>4 DEF Bind, LoseHelpers
    <3>. QED
      BY <2>1, <3>1
  <2>5. CASE UnbindDisable(w) \/ UnbindLock(w) \/ UnbindPrimary(w) \/ UnbindEnable(w)
             \/ RemoveKill(w) \/ RemoveClear(w)
    <3>1. cframe[w] = NULL
      BY <2>1, <2>5 DEF Flushing, UnbindDisable, UnbindLock, UnbindPrimary, UnbindEnable,
         RemoveKill, RemoveClear
    <3>2. \E at \in {"idle", "unbind", "unlocked"} \cup Flushing : Places(at, NULL)
      BY <2>1, <2>5, <3>1 DEF Flushing, UnbindDisable, UnbindLock, UnbindPrimary, UnbindEnable,
         RemoveKill, RemoveClear
    <3>. QED
      BY <2>1, <3>2
  <2>. QED
    BY <2>2, <2>3, <2>4, <2>5
<1>6. /\ cpc' \in [Writers -> {"idle", "unbind", "unlocked"} \cup Flushing]
      /\ cframe' \in [Writers -> FrameOrNull]
  BY <1>5 DEF TypeOK
<1>7. HolderInv'
  BY <1>1, <1>5 DEF HolderInv, TypeOK
<1>8. disabled' = Cardinality(Disabling')
  <2>1. disabled = Cardinality(Disabling) /\ cpc \in [Writers -> {"idle", "unbind", "unlocked"} \cup Flushing]
    BY DEF DisabledByEach, TypeOK
  <2>2. CASE UnbindDisable(w)
    <3>1. Disabling' = Disabling \cup {w} /\ w \notin Disabling
      BY <2>1, <2>2 DEF UnbindDisable, Disabling
    <3>2. Cardinality(Disabling') = Cardinality(Disabling) + 1
      BY <3>1, SetsFinite, FS_AddElement
    <3>. QED
      BY <2>1, <2>2, <3>2 DEF UnbindDisable
  <2>3. CASE UnbindEnable(w)
    <3>1. Disabling' = Disabling \ {w} /\ w \in Disabling
      BY <2>1, <2>3 DEF UnbindEnable, Disabling
    <3>2. Cardinality(Disabling') = Cardinality(Disabling) - 1
      BY <3>1, SetsFinite, FS_RemoveElement
    <3>. QED
      BY <2>1, <2>3, <3>2 DEF UnbindEnable
  <2>4. CASE ~UnbindDisable(w) /\ ~UnbindEnable(w)
    <3>1. disabled' = disabled
      BY <2>4 DEF Bind, UnbindLock, UnbindPrimary, FlushPop, FlushFree, LoseHelpers,
         RemoveKill, RemoveClear
    <3>2. Disabling' = Disabling
      BY <2>1, <2>4 DEF Disabling, Flushing, Bind, UnbindLock, UnbindPrimary, FlushPop,
         FlushFree, LoseHelpers, RemoveKill, RemoveClear
    <3>. QED
      BY <2>1, <3>1, <3>2
  <2>. QED
    BY <2>2, <2>3, <2>4
<1>9. disabled' \in 0..Cardinality(Writers)
  <2>1. Disabling' \in SUBSET Writers
    BY DEF Disabling
  <2>2. Cardinality(Disabling') \in Nat /\ Cardinality(Disabling') <= Cardinality(Writers)
    BY <2>1, FS_Subset, FS_CardinalityType
  <2>. QED
    BY <1>8, <2>2, SetsFinite
<1>10. TypeOK'
  <2>1. disabled' \in 0..Cardinality(Writers) /\ stack' \in SUBSET Frames
    BY <1>1, <1>9 DEF TypeOK
  <2>. QED
    BY <1>1, <1>2, <1>3, <1>4, <1>6, <2>1, Zenon DEF TypeOK
<1>. QED
  BY <1>7, <1>8, <1>10 DEF DisabledByEach

-----------------------------------------------------------------------------
(***************************************************************************)
(* The ownership of the frames.  OneOwner is that hands hold different     *)
(* frames and that five sets are disjoint: what is queued, what is in some *)
(* hand, and the three sets of the primary.                                *)
(***************************************************************************)
HandsApart ==
  /\ \A s, r \in Helpers : sframe[s] = sframe[r] /\ sframe[s] # NULL => s = r
  /\ \A v, w \in Writers : cframe[v] = cframe[w] /\ cframe[v] # NULL => v = w
  /\ \A s \in Helpers, w \in Writers : sframe[s] = cframe[w] => sframe[s] = NULL
  /\ tframe # NULL => /\ \A s \in Helpers : tframe # sframe[s]
                      /\ \A w \in Writers : tframe # cframe[w]

InHand == Held \ {NULL}

Parted(Q, H, F, S, L) ==
  /\ Q \cap H = {}
  /\ F \cap (Q \cup H) = {}
  /\ S \cap (Q \cup H \cup F) = {}
  /\ L \cap (Q \cup H \cup F \cup S) = {}
  /\ Frames \subseteq F \cup Q \cup H \cup S \cup L

Owned == /\ NoRepeat(pending)
         /\ HandsApart
         /\ Parted(Queued, InHand, free, stack, lost)

\* The two readings of FrameOwned agree, since NULL is no frame.
LEMMA OwnedSame == TypeOK => (FrameOwned <=> Owned)
<1>. SUFFICES ASSUME TypeOK PROVE FrameOwned <=> Owned
  OBVIOUS
<1>1. Queued \subseteq Frames
  BY DEF TypeOK, Queued
<1>2. NULL \notin Queued \cup free \cup stack \cup lost \cup Frames
  BY <1>1, QueueAssumption DEF TypeOK
<1>3. OneOwner <=> /\ NoRepeat(pending)
                    /\ HandsApart
                    /\ Queued \cap Held = {}
                    /\ free \cap (Queued \cup Held) = {}
                    /\ stack \cap (Queued \cup Held \cup free) = {}
                    /\ lost \cap (Queued \cup Held \cup free \cup stack) = {}
  BY DEF OneOwner, NoRepeat, HandsApart
<1>4. /\ Queued \cap Held = Queued \cap InHand
      /\ free \cap (Queued \cup Held) = free \cap (Queued \cup InHand)
      /\ stack \cap (Queued \cup Held \cup free) = stack \cap (Queued \cup InHand \cup free)
      /\ lost \cap (Queued \cup Held \cup free \cup stack)
           = lost \cap (Queued \cup InHand \cup free \cup stack)
  BY <1>2 DEF InHand
<1>5. NoneVanishes <=> Frames \subseteq free \cup Queued \cup InHand \cup stack \cup lost
  BY <1>2 DEF NoneVanishes, InHand
<1>. QED
  BY <1>3, <1>4, <1>5 DEF FrameOwned, Owned, Parted

\* The same after a step.
LEMMA OwnedSameAfter == (TypeOK => (FrameOwned <=> Owned))'
  BY OwnedSame, PTL

\* f goes from nobody's hand into one that was empty.
Taken(f) ==
  \/ \E s \in Helpers : /\ sframe[s] = NULL /\ sframe' = [sframe EXCEPT ![s] = f]
                        /\ UNCHANGED <<tframe, cframe>>
  \/ tframe = NULL /\ tframe' = f /\ UNCHANGED <<sframe, cframe>>
  \/ \E w \in Writers : /\ cframe[w] = NULL /\ cframe' = [cframe EXCEPT ![w] = f]
                        /\ UNCHANGED <<sframe, tframe>>

\* The hand that holds f lets it go.
Given(f) ==
  \/ \E s \in Helpers : /\ sframe[s] = f /\ sframe' = [sframe EXCEPT ![s] = NULL]
                        /\ UNCHANGED <<tframe, cframe>>
  \/ tframe = f /\ tframe' = NULL /\ UNCHANGED <<sframe, cframe>>
  \/ \E w \in Writers : /\ cframe[w] = f /\ cframe' = [cframe EXCEPT ![w] = NULL]
                        /\ UNCHANGED <<sframe, tframe>>

LEMMA TakenLemma ==
  ASSUME TypeOK, HandsApart, NEW f \in Frames, f \notin InHand, Taken(f)
  PROVE  HandsApart' /\ InHand' = InHand \cup {f}
<1>. f # NULL
  BY QueueAssumption
<1>1. /\ \A s \in Helpers : sframe[s] # f
      /\ \A w \in Writers : cframe[w] # f
      /\ tframe # f
  BY DEF InHand, Held
<1>2. CASE \E s \in Helpers : /\ sframe[s] = NULL /\ sframe' = [sframe EXCEPT ![s] = f]
                              /\ UNCHANGED <<tframe, cframe>>
  <2>1. HandsApart'
    BY <1>1, <1>2 DEF HandsApart, TypeOK
  <2>2. InHand' = InHand \cup {f}
    BY <1>1, <1>2 DEF InHand, Held, TypeOK
  <2>. QED
    BY <2>1, <2>2
<1>3. CASE tframe = NULL /\ tframe' = f /\ UNCHANGED <<sframe, cframe>>
  BY <1>1, <1>3 DEF HandsApart, InHand, Held
<1>4. CASE \E w \in Writers : /\ cframe[w] = NULL /\ cframe' = [cframe EXCEPT ![w] = f]
                              /\ UNCHANGED <<sframe, tframe>>
  <2>1. HandsApart'
    BY <1>1, <1>4 DEF HandsApart, TypeOK
  <2>2. InHand' = InHand \cup {f}
    BY <1>1, <1>4 DEF InHand, Held, TypeOK
  <2>. QED
    BY <2>1, <2>2
<1>. QED
  BY <1>2, <1>3, <1>4 DEF Taken

LEMMA GivenLemma ==
  ASSUME TypeOK, HandsApart, NEW f \in Frames, Given(f)
  PROVE  HandsApart' /\ InHand' = InHand \ {f} /\ f \in InHand
<1>. f # NULL
  BY QueueAssumption
<1>1. CASE \E s \in Helpers : /\ sframe[s] = f /\ sframe' = [sframe EXCEPT ![s] = NULL]
                              /\ UNCHANGED <<tframe, cframe>>
  <2>. PICK s \in Helpers : sframe[s] = f /\ sframe' = [sframe EXCEPT ![s] = NULL]
    BY <1>1
  <2>1. /\ sframe'[s] = NULL
        /\ \A r \in Helpers \ {s} : sframe'[r] = sframe[r] /\ sframe[r] # f
        /\ \A w \in Writers : cframe[w] # f
        /\ tframe # f /\ tframe' = tframe /\ cframe' = cframe
    BY <1>1 DEF HandsApart, TypeOK
  <2>2. HandsApart'
    BY <2>1 DEF HandsApart
  <2>3. ASSUME NEW y \in InHand' PROVE y \in InHand /\ y # f
    <3>1. y # NULL /\ y \in Held'
      BY DEF InHand
    <3>2. y \in Held /\ y # f
      BY <2>1, <3>1 DEF Held
    <3>. QED
      BY <3>1, <3>2 DEF InHand
  <2>4. \A y \in InHand : y = f \/ y \in InHand'
    BY <2>1 DEF InHand, Held
  <2>5. f \in InHand
    BY DEF InHand, Held
  <2>. QED
    BY <2>2, <2>3, <2>4, <2>5
<1>2. CASE tframe = f /\ tframe' = NULL /\ UNCHANGED <<sframe, cframe>>
  <2>1. /\ \A s \in Helpers : sframe[s] # f
        /\ \A w \in Writers : cframe[w] # f
    BY <1>2 DEF HandsApart
  <2>2. HandsApart'
    BY <1>2 DEF HandsApart
  <2>3. \A y \in InHand' : y \in InHand /\ y # f
    BY <1>2, <2>1 DEF InHand, Held
  <2>4. \A y \in InHand : y = f \/ y \in InHand'
    BY <1>2 DEF InHand, Held
  <2>5. f \in InHand
    BY <1>2 DEF InHand, Held
  <2>. QED
    BY <2>2, <2>3, <2>4, <2>5
<1>3. CASE \E w \in Writers : /\ cframe[w] = f /\ cframe' = [cframe EXCEPT ![w] = NULL]
                              /\ UNCHANGED <<sframe, tframe>>
  <2>. PICK w \in Writers : cframe[w] = f /\ cframe' = [cframe EXCEPT ![w] = NULL]
    BY <1>3
  <2>1. /\ cframe'[w] = NULL
        /\ \A v \in Writers \ {w} : cframe'[v] = cframe[v] /\ cframe[v] # f
        /\ \A s \in Helpers : sframe[s] # f
        /\ tframe # f /\ tframe' = tframe /\ sframe' = sframe
    BY <1>3 DEF HandsApart, TypeOK
  <2>2. HandsApart'
    BY <2>1 DEF HandsApart
  <2>3. ASSUME NEW y \in InHand' PROVE y \in InHand /\ y # f
    <3>1. y # NULL /\ y \in Held'
      BY DEF InHand
    <3>2. y \in Held /\ y # f
      BY <2>1, <3>1 DEF Held
    <3>. QED
      BY <3>1, <3>2 DEF InHand
  <2>4. \A y \in InHand : y = f \/ y \in InHand'
    BY <2>1 DEF InHand, Held
  <2>5. f \in InHand
    BY DEF InHand, Held
  <2>. QED
    BY <2>2, <2>3, <2>4, <2>5
<1>. QED
  BY <1>1, <1>2, <1>3 DEF Given

\* A frame leaves the queue for a hand.
Popping(f) == /\ pending # <<>> /\ f = Head(pending) /\ pending' = Tail(pending)
              /\ Taken(f) /\ UNCHANGED <<free, stack, lost>>

\* What a step may do with a frame.
Move(f) ==
  \/ Popping(f)
  \/ /\ f \in free /\ free' = free \ {f} /\ Taken(f) /\ UNCHANGED <<pending, stack, lost>>
  \/ /\ pending' = Append(pending, f) /\ Given(f) /\ UNCHANGED <<free, stack, lost>>
  \/ /\ free' = free \cup {f} /\ Given(f) /\ UNCHANGED <<pending, stack, lost>>
  \/ /\ stack' = stack \cup {f} /\ Given(f) /\ UNCHANGED <<pending, free, lost>>
  \/ /\ lost' = lost \cup {f} /\ Given(f) /\ UNCHANGED <<pending, free, stack>>
  \/ /\ f \in stack /\ stack' = stack \ {f} /\ free' = free \cup {f}
     /\ UNCHANGED <<pending, lost, sframe, tframe, cframe>>

Still == UNCHANGED <<pending, free, stack, lost, sframe, tframe, cframe>>

\* Each of them leaves every frame with one owner.
LEMMA MoveOwned ==
  ASSUME TypeOK, Owned, Still \/ \E f \in Frames : Move(f)
  PROVE  Owned'
<1>q. pending \in Seq(Frames) /\ NoRepeat(pending) /\ Queued = Elems(pending) /\ Queued' = Elems(pending')
  BY DEF TypeOK, Owned, Queued, Elems
<1>1. CASE Still
  BY <1>1, <1>q DEF Still, Owned, HandsApart, InHand, Held, Elems
<1>2. ASSUME NEW f \in Frames, Move(f) PROVE Owned'
  <2>. DEFINE P == Parted(Queued, InHand, free, stack, lost)
  <2>0. P /\ HandsApart
    BY DEF Owned
  <2>1. CASE Popping(f)
    <3>1. NoRepeat(pending') /\ f \in Queued /\ Queued' = Queued \ {f}
      BY <1>q, <2>1, DequeueLemma DEF Popping
    <3>2. HandsApart' /\ InHand' = InHand \cup {f}
      BY <2>0, <2>1, <3>1, TakenLemma DEF Popping, Parted
    <3>3. Parted(Queued', InHand', free', stack', lost')
      BY <2>0, <2>1, <3>1, <3>2 DEF Popping, Parted
    <3>. QED
      BY <3>1, <3>2, <3>3 DEF Owned
  <2>2. CASE f \in free /\ free' = free \ {f} /\ Taken(f) /\ UNCHANGED <<pending, stack, lost>>
    <3>1. NoRepeat(pending') /\ Queued' = Queued
      BY <1>q, <2>2
    <3>2. HandsApart' /\ InHand' = InHand \cup {f}
      BY <2>0, <2>2, TakenLemma DEF Parted
    <3>3. Parted(Queued', InHand', free', stack', lost')
      BY <2>0, <2>2, <3>1, <3>2 DEF Parted
    <3>. QED
      BY <3>1, <3>2, <3>3 DEF Owned
  <2>3. CASE pending' = Append(pending, f) /\ Given(f) /\ UNCHANGED <<free, stack, lost>>
    <3>1. HandsApart' /\ InHand' = InHand \ {f} /\ f \in InHand
      BY <2>0, <2>3, GivenLemma
    <3>2. NoRepeat(pending') /\ Queued' = Queued \cup {f}
      BY <1>q, <2>0, <2>3, <3>1, EnqueueLemma DEF Parted
    <3>3. Parted(Queued', InHand', free', stack', lost')
      BY <2>0, <2>3, <3>1, <3>2 DEF Parted
    <3>. QED
      BY <3>1, <3>2, <3>3 DEF Owned
  <2>4. CASE \/ free' = free \cup {f} /\ Given(f) /\ UNCHANGED <<pending, stack, lost>>
             \/ stack' = stack \cup {f} /\ Given(f) /\ UNCHANGED <<pending, free, lost>>
             \/ lost' = lost \cup {f} /\ Given(f) /\ UNCHANGED <<pending, free, stack>>
    <3>1. HandsApart' /\ InHand' = InHand \ {f} /\ f \in InHand
      BY <2>0, <2>4, GivenLemma
    <3>2. NoRepeat(pending') /\ Queued' = Queued
      BY <1>q, <2>4
    <3>3. Parted(Queued', InHand', free', stack', lost')
      BY <2>0, <2>4, <3>1, <3>2 DEF Parted
    <3>. QED
      BY <3>1, <3>2, <3>3 DEF Owned
  <2>5. CASE /\ f \in stack /\ stack' = stack \ {f} /\ free' = free \cup {f}
             /\ UNCHANGED <<pending, lost, sframe, tframe, cframe>>
    <3>1. NoRepeat(pending') /\ Queued' = Queued
      BY <1>q, <2>5
    <3>2. HandsApart' /\ InHand' = InHand
      BY <2>0, <2>5 DEF HandsApart, InHand, Held
    <3>3. Parted(Queued', InHand', free', stack', lost')
      BY <2>0, <2>5, <3>1, <3>2 DEF Parted
    <3>. QED
      BY <3>1, <3>2, <3>3 DEF Owned
  <2>. QED
    BY <1>2, <2>1, <2>2, <2>3, <2>4, <2>5 DEF Move
<1>. QED
  BY <1>1, <1>2

\* Every action moves one frame, or none.
LEMMA NextMoves ==
  ASSUME Types, Next
  PROVE  Still \/ \E f \in Frames : Move(f)
<1>. USE QueueAssumption DEF Types, session, subVars, tskVars, ctlVars
<1>1. ASSUME NEW s \in Helpers, SubmitCheck(s) \/ SubmitStep(s)
      PROVE  Still \/ \E f \in Frames : Move(f)
  <2>0. sframe[s] \in Frames \/ sframe[s] = NULL
    BY DEF TypeOK, FrameOrNull
  <2>1. CASE SubmitCheck(s) \/ SubmitReject(s) \/ SubmitCount(s) \/ SubmitSchedule(s)
    BY <2>1 DEF Still, SubmitCheck, SubmitReject, SubmitCount, SubmitSchedule
  <2>2. CASE SubmitAlloc(s)
    <3>1. PICK f \in free : free' = free \ {f} /\ sframe' = [sframe EXCEPT ![s] = f]
      BY <2>2 DEF SubmitAlloc
    <3>2. f \in Frames /\ sframe[s] = NULL /\ UNCHANGED <<pending, stack, lost, tframe, cframe>>
      BY <2>2, <3>1 DEF SubmitAlloc, TypeOK, HolderInv
    <3>3. Taken(f)
      BY <3>1, <3>2 DEF Taken
    <3>4. Move(f)
      BY <3>1, <3>2, <3>3, Zenon DEF Move
    <3>. QED
      BY <3>2, <3>4
  <2>3. CASE SubmitEnqueue(s)
    <3>1. sframe[s] \in Frames
      BY <2>0, <2>3 DEF SubmitEnqueue, HolderInv
    <3>2. Given(sframe[s]) /\ pending' = Append(pending, sframe[s]) /\ UNCHANGED <<free, stack, lost>>
      BY <2>3 DEF SubmitEnqueue, Given
    <3>. QED
      BY <3>1, <3>2, Zenon DEF Move
  <2>4. CASE SubmitDequeue(s)
    <3>1. CASE pending = <<>>
      BY <2>4, <3>1 DEF SubmitDequeue, Still
    <3>2. CASE pending # <<>>
      <4>1. Head(pending) \in Frames /\ sframe[s] = NULL
        BY <2>4, <3>2, TakeHead DEF SubmitDequeue, HolderInv
      <4>2. Taken(Head(pending)) /\ pending' = Tail(pending) /\ UNCHANGED <<free, stack, lost>>
        BY <2>4, <3>2, <4>1 DEF SubmitDequeue, Taken
      <4>. QED
        BY <3>2, <4>1, <4>2, Zenon DEF Move, Popping
    <3>. QED
      BY <3>1, <3>2
  <2>5. CASE SubmitDrop(s)
    <3>1. CASE sframe[s] = NULL
      <4>1. free' = free /\ sframe' = sframe
        BY <2>5, <3>1 DEF SubmitDrop, TypeOK
      <4>. QED
        BY <2>5, <4>1 DEF SubmitDrop, Still
    <3>2. CASE sframe[s] # NULL
      <4>1. Given(sframe[s]) /\ free' = free \cup {sframe[s]} /\ UNCHANGED <<pending, stack, lost>>
        BY <2>5, <3>2 DEF SubmitDrop, Given
      <4>. QED
        BY <2>0, <3>2, <4>1, Zenon DEF Move
    <3>. QED
      BY <3>1, <3>2
  <2>. QED
    BY <1>1, <2>1, <2>2, <2>3, <2>4, <2>5 DEF SubmitStep
<1>2. CASE Tasklet
  <2>1. CASE TaskletRun \/ TaskletStopped \/ TaskletDec \/ TaskletResched
    BY <2>1 DEF Still, TaskletRun, TaskletStopped, TaskletDec, TaskletResched
  <2>2. CASE TaskletPop
    <3>1. Head(pending) \in Frames /\ tframe = NULL
      BY <2>2, TakeHead DEF TaskletPop, HolderInv
    <3>2. Taken(Head(pending)) /\ pending # <<>> /\ pending' = Tail(pending)
          /\ UNCHANGED <<free, stack, lost>>
      BY <2>2, <3>1 DEF TaskletPop, Taken
    <3>. QED
      BY <3>1, <3>2, Zenon DEF Move, Popping
  <2>3. CASE TaskletDup \/ TaskletDeliver \/ TaskletRefused
    <3>1. tframe \in Frames /\ Given(tframe) /\ UNCHANGED pending
      BY <2>3 DEF TaskletDup, TaskletDeliver, TaskletRefused, NextFrame, HolderInv, TypeOK,
         FrameOrNull, Given
    <3>2. \/ free' = free \cup {tframe} /\ UNCHANGED <<stack, lost>>
          \/ stack' = stack \cup {tframe} /\ UNCHANGED <<free, lost>>
          \/ lost' = lost \cup {tframe} /\ UNCHANGED <<free, stack>>
      BY <2>3 DEF TaskletDup, TaskletDeliver, TaskletRefused
    <3>. QED
      BY <3>1, <3>2 DEF Move
  <2>. QED
    BY <1>2, <2>1, <2>2, <2>3 DEF Tasklet
<1>3. ASSUME NEW f \in Frames, StackFree(f) PROVE Move(f)
  BY <1>3 DEF StackFree, Move
<1>4. ASSUME NEW w \in Writers, Session(w)
      PROVE  Still \/ \E f \in Frames : Move(f)
  <2>1. CASE FlushPop(w)
    <3>1. Head(pending) \in Frames
      BY <2>1, TakeHead DEF FlushPop
    <3>2. Taken(Head(pending)) /\ pending # <<>> /\ pending' = Tail(pending)
          /\ UNCHANGED <<free, stack, lost>>
      BY <2>1 DEF FlushPop, Taken
    <3>. QED
      BY <3>1, <3>2, Zenon DEF Move, Popping
  <2>2. CASE FlushFree(w)
    <3>1. cframe[w] \in Frames /\ Given(cframe[w]) /\ UNCHANGED <<pending, stack>>
      BY <2>2 DEF FlushFree, TypeOK, FrameOrNull, Given
    <3>2. \/ free' = free \cup {cframe[w]} /\ UNCHANGED lost
          \/ lost' = lost \cup {cframe[w]} /\ UNCHANGED free
      BY <2>2 DEF FlushFree
    <3>. QED
      BY <3>1, <3>2 DEF Move
  <2>3. CASE ~FlushPop(w) /\ ~FlushFree(w)
    BY <1>4, <2>3 DEF Session, UnbindStep, Still, Bind, UnbindDisable, UnbindLock, UnbindPrimary,
       UnbindEnable, LoseHelpers, RemoveKill, RemoveClear
  <2>. QED
    BY <2>1, <2>2, <2>3
<1>. QED
  BY <1>1, <1>2, <1>3, <1>4 DEF Next

-----------------------------------------------------------------------------
(***************************************************************************)
(* The counter.  A frame in transit is counted or popped by one actor.     *)
(***************************************************************************)
\* The frame the tasklet has popped and not yet counted off.
Decrementing == IF tpc = "dec" THEN 1 ELSE 0

LEMMA NextCounts ==
  ASSUME Types, CountNeverOverstates, Next
  PROVE  CountNeverOverstates'
<1>. USE QueueAssumption DEF Types, session, subVars, tskVars, ctlVars
<1>. DEFINE Q == Cardinality(Queueing)
            D == Cardinality(Dropping)
            T == Decrementing
            F == Cardinality(Freeing)
            N == Len(pending)
<1>0. /\ CountNeverOverstates <=> count + Q <= N + (D + T + F)
      /\ CountNeverOverstates' <=> count' + Q' <= N' + (D' + T' + F')
  BY DEF CountNeverOverstates, Popped, Uncounted, Queueing, Dropping, Freeing, Decrementing
<1>1. count \in Int /\ Q \in Nat /\ D \in Nat /\ T \in Nat /\ F \in Nat /\ N \in Nat
  BY SetsFinite DEF TypeOK, Decrementing
<1>2. count + Q <= N + (D + T + F)
  BY <1>0
<1>3. pending # <<>> /\ pending' = Tail(pending) => N' = N - 1
  BY HeadTailProperties DEF TypeOK
<1>. SUFFICES count' + Q' <= N' + (D' + T' + F')
  BY <1>0
<1>4. CASE UNCHANGED <<count, spc, sframe, tpc, cframe, pending>>
  <2>1. Queueing' = Queueing /\ Dropping' = Dropping /\ Freeing' = Freeing
    BY <1>4 DEF Queueing, Dropping, Freeing
  <2>. QED
    BY <1>2, <1>4, <2>1 DEF Decrementing
<1>5. ASSUME NEW s \in Helpers, SubmitCheck(s) \/ SubmitStep(s)
      PROVE  count' + Q' <= N' + (D' + T' + F')
  <2>1. T' = T /\ F' = F
    <3>1. UNCHANGED <<tpc, cframe>>
      BY <1>5 DEF SubmitCheck, SubmitStep, SubmitReject, SubmitAlloc, SubmitEnqueue, SubmitCount,
         SubmitSchedule, SubmitDequeue, SubmitDrop
    <3>. QED
      BY <3>1 DEF Freeing, Decrementing
  <2>2. CASE SubmitCheck(s) \/ SubmitReject(s) \/ SubmitAlloc(s) \/ SubmitSchedule(s)
    <3>1. Queueing' = Queueing /\ Dropping' = Dropping /\ count' = count /\ pending' = pending
      BY <2>2 DEF Queueing, Dropping, TypeOK, SubmitCheck, SubmitReject, SubmitAlloc, SubmitSchedule
    <3>. QED
      BY <1>2, <2>1, <3>1
  <2>3. CASE SubmitEnqueue(s)
    <3>1. Queueing' = Queueing \cup {s} /\ s \notin Queueing /\ Dropping' = Dropping
      BY <2>3 DEF Queueing, Dropping, TypeOK, SubmitEnqueue
    <3>2. Q' = Q + 1 /\ D' = D
      BY <3>1, SetsFinite, FS_AddElement
    <3>3. sframe[s] \in Frames
      BY <2>3 DEF TypeOK, HolderInv, FrameOrNull, SubmitEnqueue
    <3>4. N' = N + 1 /\ count' = count
      BY <2>3, <3>3, AppendProperties DEF TypeOK, SubmitEnqueue
    <3>. QED
      BY <1>1, <1>2, <2>1, <3>2, <3>4
  <2>4. CASE SubmitCount(s)
    <3>1. Queueing' = Queueing \ {s} /\ s \in Queueing /\ Dropping' = Dropping
      BY <2>4 DEF Queueing, Dropping, TypeOK, SubmitCount
    <3>2. Q' = Q - 1 /\ D' = D
      BY <3>1, SetsFinite, FS_RemoveElement
    <3>3. N' = N /\ count' = count + 1
      BY <2>4 DEF SubmitCount
    <3>. QED
      BY <1>1, <1>2, <2>1, <3>2, <3>3
  <2>5. CASE SubmitDequeue(s)
    <3>0. Queueing' = Queueing /\ count' = count
      BY <2>5 DEF Queueing, TypeOK, SubmitDequeue
    <3>1. CASE pending = <<>>
      <4>1. Dropping' = Dropping /\ pending' = pending
        BY <2>5, <3>1 DEF Dropping, TypeOK, HolderInv, SubmitDequeue
      <4>. QED
        BY <1>2, <2>1, <3>0, <4>1
    <3>2. CASE pending # <<>>
      <4>1. Dropping' = Dropping \cup {s} /\ s \notin Dropping
        BY <2>5, <3>2, TakeHead DEF Dropping, TypeOK, SubmitDequeue
      <4>2. D' = D + 1
        BY <4>1, SetsFinite, FS_AddElement
      <4>3. N' = N - 1
        BY <1>3, <2>5, <3>2 DEF SubmitDequeue
      <4>. QED
        BY <1>1, <1>2, <2>1, <3>0, <4>2, <4>3
    <3>. QED
      BY <3>1, <3>2
  <2>6. CASE SubmitDrop(s)
    <3>1. Queueing' = Queueing /\ Dropping' = Dropping \ {s} /\ count' = count - 1 /\ pending' = pending
      BY <2>6 DEF Queueing, Dropping, TypeOK, SubmitDrop
    <3>2. D' >= D - 1 /\ D' \in Int
      <4>1. CASE s \in Dropping
        <5>1. D' = D - 1
          BY <3>1, <4>1, SetsFinite, FS_RemoveElement
        <5>. QED
          BY <1>1, <5>1
      <4>2. CASE s \notin Dropping
        <5>1. Dropping' = Dropping
          BY <3>1, <4>2
        <5>. QED
          BY <1>1, <5>1
      <4>. QED
        BY <4>1, <4>2
    <3>3. Q' = Q /\ N' = N /\ count' = count - 1
      BY <3>1
    <3>. QED
      BY <1>1, <1>2, <2>1, <3>2, <3>3
  <2>7. \/ SubmitCheck(s) \/ SubmitReject(s) \/ SubmitAlloc(s) \/ SubmitSchedule(s)
        \/ SubmitEnqueue(s) \/ SubmitCount(s) \/ SubmitDequeue(s) \/ SubmitDrop(s)
    BY <1>5 DEF SubmitStep
  <2>. HIDE DEF Q, D, T, F, N
  <2>. QED
    BY <2>2, <2>3, <2>4, <2>5, <2>6, <2>7
<1>6. CASE Tasklet
  <2>1. Q' = Q /\ D' = D /\ F' = F
    <3>1. UNCHANGED <<spc, sframe, cframe>>
      BY <1>6 DEF Tasklet, TaskletRun, TaskletStopped, TaskletPop, TaskletDec, TaskletDup,
         TaskletDeliver, TaskletRefused, TaskletResched, NextFrame
    <3>. QED
      BY <3>1 DEF Queueing, Dropping, Freeing
  <2>2. CASE TaskletPop
    <3>1. N' = N - 1 /\ T = 0 /\ T' = 1 /\ count' = count
      BY <1>3, <2>2 DEF TaskletPop, Decrementing
    <3>. QED
      BY <1>1, <1>2, <2>1, <3>1
  <2>3. CASE TaskletDec
    <3>1. N' = N /\ T = 1 /\ T' = 0 /\ count' = count - 1
      BY <2>3 DEF TaskletDec, Decrementing
    <3>. QED
      BY <1>1, <1>2, <2>1, <3>1
  <2>4. CASE ~TaskletPop /\ ~TaskletDec
    <3>1. N' = N /\ T' = T /\ count' = count
      BY <1>6, <2>4 DEF Tasklet, TaskletRun, TaskletStopped, TaskletDup, TaskletDeliver,
         TaskletRefused, TaskletResched, NextFrame, Decrementing
    <3>. QED
      BY <1>2, <2>1, <3>1
  <2>. QED
    BY <2>2, <2>3, <2>4
<1>7. ASSUME NEW f \in Frames, StackFree(f)
      PROVE  UNCHANGED <<count, spc, sframe, tpc, cframe, pending>>
  BY <1>7 DEF StackFree
<1>8. ASSUME NEW w \in Writers, Session(w)
      PROVE  count' + Q' <= N' + (D' + T' + F')
  <2>1. Q' = Q /\ D' = D /\ T' = T
    <3>1. UNCHANGED <<spc, sframe, tpc>>
      BY <1>8 DEF Session, UnbindStep, Bind, UnbindDisable, UnbindLock, UnbindPrimary, FlushPop,
         FlushFree, UnbindEnable, LoseHelpers, RemoveKill, RemoveClear
    <3>. QED
      BY <3>1 DEF Queueing, Dropping, Decrementing
  <2>2. CASE FlushPop(w)
    <3>1. Freeing' = Freeing \cup {w} /\ w \notin Freeing
      BY <2>2, TakeHead DEF Freeing, TypeOK, FlushPop
    <3>2. F' = F + 1
      BY <3>1, SetsFinite, FS_AddElement
    <3>3. N' = N - 1 /\ count' = count
      BY <1>3, <2>2 DEF FlushPop
    <3>. QED
      BY <1>1, <1>2, <2>1, <3>2, <3>3
  <2>3. CASE FlushFree(w)
    <3>1. Freeing' = Freeing \ {w} /\ w \in Freeing
      BY <2>3 DEF Freeing, TypeOK, FlushFree
    <3>2. F' = F - 1
      BY <3>1, SetsFinite, FS_RemoveElement
    <3>3. N' = N /\ count' = count - 1
      BY <2>3 DEF FlushFree
    <3>. QED
      BY <1>1, <1>2, <2>1, <3>2, <3>3
  <2>4. CASE ~FlushPop(w) /\ ~FlushFree(w)
    <3>1. N' = N /\ F' = F /\ count' = count
      <4>1. UNCHANGED <<count, cframe, pending>>
        BY <1>8, <2>4 DEF Session, UnbindStep, Bind, UnbindDisable, UnbindLock, UnbindPrimary,
           UnbindEnable, LoseHelpers, RemoveKill, RemoveClear
      <4>. QED
        BY <4>1 DEF Freeing
    <3>. QED
      BY <1>2, <2>1, <3>1
  <2>. QED
    BY <2>2, <2>3, <2>4
<1>. QED
  BY <1>4, <1>5, <1>6, <1>7, <1>8 DEF Next

-----------------------------------------------------------------------------
LEMMA StepIInv == IInv /\ [Next]_vars => IInv'
<1>. SUFFICES ASSUME IInv, [Next]_vars PROVE IInv'
  OBVIOUS
<1>1. CASE Next
  <2>1. Types' /\ DisabledByEach'
    <3>1. ASSUME Types' /\ UNCHANGED <<disabled, cpc>> PROVE DisabledByEach'
      BY <3>1 DEF IInv, DisabledByEach, Disabling
    <3>. QED
      BY <1>1, <3>1, HelperTypes, TaskletTypes, WriterTypes DEF IInv, Next
  <2>2. FrameOwned'
    <3>1. Owned
      BY OwnedSame DEF IInv, Types
    <3>2. Owned'
      BY <1>1, <3>1, NextMoves, MoveOwned DEF IInv, Types
    <3>. QED
      BY <2>1, <3>2, OwnedSameAfter DEF Types
  <2>3. CountNeverOverstates'
    BY <1>1, NextCounts DEF IInv
  <2>. QED
    BY <2>1, <2>2, <2>3 DEF IInv
<1>2. CASE UNCHANGED vars
  <2>. USE <1>2 DEF vars, session, subVars, tskVars, ctlVars
  <2>1. Types'
    BY DEF IInv, Types, TypeOK, HolderInv
  <2>2. DisabledByEach'
    BY DEF IInv, DisabledByEach, Disabling
  <2>3. FrameOwned'
    <3>1. Queued' = Queued /\ Held' = Held
      BY DEF Queued, Held
    <3>. QED
      BY <3>1 DEF IInv, FrameOwned, OneOwner, NoneVanishes
  <2>4. CountNeverOverstates'
    BY DEF IInv, CountNeverOverstates, Popped, Uncounted
  <2>. QED
    BY <2>1, <2>2, <2>3, <2>4 DEF IInv
<1>. QED
  BY <1>1, <1>2

\* The inductive invariant holds in every reachable state.
LEMMA InvariantIInv == Spec => []IInv
  BY InitIInv, StepIInv, PTL DEF Spec

(***************************************************************************)
(* The variables keep their types.  The tasklet's disable count is bounded *)
(* by the writers of the session and by nothing smaller: two stores of     *)
(* bind=0, or a store and a module parameter, may unbind at once.          *)
(***************************************************************************)
THEOREM QueueTypeCorrect == Spec => []TypeOK
<1>1. IInv => TypeOK
  BY DEF IInv, Types
<1>. QED
  BY <1>1, InvariantIInv, PTL

(***************************************************************************)
(* Every unbind that is under way has disabled the tasklet once, and       *)
(* nobody else has: tasklet_enable() of one does not let the tasklet run   *)
(* under the flush loop of another, and the last one does.                 *)
(***************************************************************************)
THEOREM DisabledWhileUnbinding ==
  Spec => [](disabled = Cardinality({w \in Writers : cpc[w] \in {"unbind", "unlocked", "flush", "orphan"}}))
<1>1. IInv => disabled = Cardinality({w \in Writers : cpc[w] \in {"unbind", "unlocked", "flush", "orphan"}})
  BY DEF IInv, DisabledByEach, Disabling
<1>. QED
  BY <1>1, InvariantIInv, PTL

(***************************************************************************)
(* No recv_frame of the primary's pool has two owners, and none is in a    *)
(* place that is not named, however submitters, the tasklet and the flush  *)
(* loops interleave.                                                       *)
(***************************************************************************)
THEOREM FramesHaveOneOwner == Spec => []FrameOwned
<1>1. IInv => FrameOwned
  BY DEF IInv
<1>. QED
  BY <1>1, InvariantIInv, PTL

(***************************************************************************)
(* pending_count never claims more frames than pending_queue holds.        *)
(***************************************************************************)
THEOREM CounterNeverOverstates == Spec => []CountNeverOverstates
<1>1. IInv => CountNeverOverstates
  BY DEF IInv
<1>. QED
  BY <1>1, InvariantIInv, PTL
=============================================================================
