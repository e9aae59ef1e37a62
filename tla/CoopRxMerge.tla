---------------------------- MODULE CoopRxMerge ----------------------------
(***************************************************************************)
(* Duplicate detection of cooperative RX: the copies of one station's      *)
(* frames that the primary and the helpers hear, on their way into the     *)
(* reorder window (RecvReorder, which this module extends by the caches    *)
(* rxseq, iv and the non-QoS ring) or straight up the stack.               *)
(*                                                                         *)
(* The primary's receive softirq, the helpers' softirqs and the drain      *)
(* tasklet read and write the caches without a common lock; every access   *)
(* is a step of its own.  Frame n of the stream carries the sequence       *)
(* number n % SN_MOD and the packet number n + 1, and so do its            *)
(* retransmissions.  Frames are unicast, whole, and of one TID.            *)
(***************************************************************************)
EXTENDS RecvReorder

CONSTANTS
  Primary, Drain,             \* the two callers of the window
  Helpers,                    \* the helper adapters
  Flows,                      \* the kinds of traffic looked at
  COOP_NONQOS_SEQ_CACHE_SZ,   \* slots of the non-QoS ring
  QueueMax                    \* bound: frames in pending_queue

ASSUME MergeAssumption ==
  /\ Contexts = {Primary, Drain} /\ Primary # Drain
  /\ Primary \notin Helpers
  /\ Flows \subseteq [qos : BOOLEAN, ba : BOOLEAN, crypt : {"open", "kernel", "soft"}]
  /\ \A f \in Flows : f.ba => f.qos
  /\ COOP_NONQOS_SEQ_CACHE_SZ \in Nat \ {0}
  /\ QueueMax \in Nat \ {0}

VARIABLES
  flow,      \* qos: QoS data; ba: recvreorder_ctrl[tid].enable; crypt: who decrypts
             \* a helper's copy (nobody, the kernel's AEAD, the driver's decryptor)
  heard,     \* the last number each radio has handed over (environment)
  rxseq,     \* tid_rxseq[tid], or nonqos_rxseq
  iv,        \* the packet number in rxcache.iv[tid]
  ring,      \* grp->nonqos_cache, oldest entry first
  ppc, pnum, \* the primary's softirq and its frame
  spc, snum, \* the helpers' softirqs and their frames
  queue,     \* grp->pending_queue
  tpc, tnum, \* the drain tasklet and its frame
  received,  \* numbers a copy of which has reached the window or the stack (history)
  late,      \* the number the tasklet last claimed and then dropped for the window (history)
  renewed    \* another Block Ack agreement has followed the first (history)

windowVars == <<indicate_seq, pending, timerVars, reset, stopped, pc, newest, last>>
cacheVars  == <<rxseq, iv, ring>>
primVars   == <<ppc, pnum>>
helpVars   == <<spc, snum>>
drainVars  == <<queue, tpc, tnum>>
history    == <<received, late, renewed>>
mergeVars  == <<windowVars, flow, heard, cacheVars, primVars, helpVars, drainVars, history>>

None  == -1
Radio == Helpers \cup {Primary}
Encrypted == flow.crypt # "open"

\* The number a frame carries in its IV, and VALID_PN_CHK().
PN(n) == n + 1
ValidPN(new, old) == old = 0 \/ new > old

\* External: a radio hands over a copy of n.  Outside a Block Ack agreement the
\* sender ends with one frame before it begins with the next, so a radio hears
\* them in order; inside one, retransmissions come in any order.
Hears(r, n) ==
  IF flow.ba THEN UNCHANGED heard
  ELSE n >= heard[r] /\ heard' = [heard EXCEPT ![r] = n]

-----------------------------------------------------------------------------
(***************************************************************************)
(* The primary's own copy: validate_recv_data_frame() with recv_decache()  *)
(* and recv_ucast_pn_decache(), then recv_func_posthandle().               *)
(***************************************************************************)
PrimaryDup(n) ==
  /\ ppc = "idle" /\ pc[Primary] = "idle"
  /\ Hears(Primary, n)
  /\ rxseq = Sn(n)
  /\ UNCHANGED <<windowVars, flow, cacheVars, primVars, helpVars, drainVars, history>>

PrimaryPass(n) ==
  /\ ppc = "idle" /\ pc[Primary] = "idle"
  /\ Hears(Primary, n)
  /\ rxseq # Sn(n)
  /\ ppc' = "write" /\ pnum' = n
  /\ UNCHANGED <<windowVars, flow, cacheVars, helpVars, drainVars, history>>

PrimaryWrite ==
  /\ ppc = "write"
  /\ rxseq' = Sn(pnum)
  /\ ppc' = "pn"
  /\ UNCHANGED <<windowVars, flow, heard, iv, ring, pnum, helpVars, drainVars, history>>

\* An old packet number is not cached, and the frame goes on all the same.
PrimaryPN ==
  /\ ppc = "pn"
  /\ iv' = IF Encrypted /\ ValidPN(PN(pnum), iv) THEN PN(pnum) ELSE iv
  /\ ppc' = "deliver"
  /\ UNCHANGED <<windowVars, flow, heard, rxseq, ring, pnum, helpVars, drainVars, history>>

\* The primary's frames come decrypted: those its hardware could not decrypt do
\* not get here (usb/rtl8822eu_recv.c:124).
PrimaryDeliver ==
  /\ ppc = "deliver"
  /\ IF flow.ba THEN Indicate(Primary, pnum) ELSE UNCHANGED windowVars
  /\ received' = received \cup {pnum}
  /\ ppc' = "idle" /\ pnum' = None
  /\ UNCHANGED <<flow, heard, cacheVars, helpVars, drainVars, late, renewed>>

-----------------------------------------------------------------------------
(***************************************************************************)
(* A helper's copy, first half: rtw_coop_rx_submit_helper_frame().         *)
(***************************************************************************)

\* Faulty variant: the first frame of the window counts as behind it.
BehindOrAt(n) ==
  /\ flow.qos /\ flow.ba
  /\ indicate_seq # Unset
  /\ SN_LESS(Sn(n), indicate_seq) \/ Sn(n) = indicate_seq

\* The comparison with the window start, without the window's lock; submit and
\* drain make the same one.
Behind(n) ==
  /\ flow.qos /\ flow.ba
  /\ indicate_seq # Unset
  /\ SN_LESS(Sn(n), indicate_seq)

\* Faulty variant: the ring grows.
RecordedForEver(n) == Append(ring, Sn(n))

\* coop_nonqos_check_and_record(), under grp->lock: a full ring forgets its
\* oldest entry.
InRing(n) == \E i \in 1..Len(ring) : ring[i] = Sn(n)
Recorded(n) ==
  LET r == Append(ring, Sn(n))
  IN  IF Len(r) > COOP_NONQOS_SEQ_CACHE_SZ THEN Tail(r) ELSE r

\* Faulty variant: the frame is claimed before it has a place in the queue.
SubmitPassClaims(h, n) ==
  /\ spc[h] = "idle"
  /\ Hears(h, n)
  /\ ~Behind(n)
  /\ flow.qos \/ ~InRing(n)
  /\ ring' = IF flow.qos THEN ring ELSE Recorded(n)
  /\ rxseq' = Sn(n)
  /\ spc' = [spc EXCEPT ![h] = "pn"]
  /\ snum' = [snum EXCEPT ![h] = n]
  /\ UNCHANGED <<windowVars, flow, iv, primVars, drainVars, history>>

\* Late for the window start that was read; the window moves on meanwhile.
SubmitLook(h, n) ==
  /\ spc[h] = "idle"
  /\ Hears(h, n)
  /\ Behind(n)
  /\ spc' = [spc EXCEPT ![h] = "late"]
  /\ snum' = [snum EXCEPT ![h] = n]
  /\ UNCHANGED <<windowVars, flow, cacheVars, primVars, drainVars, history>>

\* Known to the ring.
SubmitDup(h, n) ==
  /\ spc[h] = "idle"
  /\ Hears(h, n)
  /\ ~flow.qos /\ InRing(n)
  /\ UNCHANGED <<windowVars, flow, cacheVars, primVars, helpVars, drainVars, history>>

SubmitPass(h, n) ==
  /\ spc[h] = "idle"
  /\ Hears(h, n)
  /\ ~Behind(n)
  /\ flow.qos \/ ~InRing(n)
  /\ ring' = IF flow.qos THEN ring ELSE Recorded(n)
  /\ spc' = [spc EXCEPT ![h] = "pn"]
  /\ snum' = [snum EXCEPT ![h] = n]
  /\ UNCHANGED <<windowVars, flow, rxseq, iv, primVars, drainVars, history>>

SubmitEnd(h) ==
  /\ spc' = [spc EXCEPT ![h] = "idle"]
  /\ snum' = [snum EXCEPT ![h] = None]
  /\ UNCHANGED <<windowVars, flow, heard, cacheVars, primVars, tpc, tnum, history>>

SubmitLate(h) ==
  /\ spc[h] = "late"
  /\ SubmitEnd(h)
  /\ UNCHANGED queue

\* The packet number is not above the one the primary has cached.
SubmitReplay(h) ==
  /\ spc[h] = "pn"
  /\ Encrypted /\ ~ValidPN(PN(snum[h]), iv)
  /\ SubmitEnd(h)
  /\ UNCHANGED queue

SubmitEnqueue(h) ==
  /\ spc[h] = "pn"
  /\ Encrypted => ValidPN(PN(snum[h]), iv)
  /\ Len(queue) < QueueMax
  /\ queue' = Append(queue, snum[h])
  /\ SubmitEnd(h)

\* The primary's pool is empty, or the pending queue is at its limit.
SubmitNoFrame(h) ==
  /\ spc[h] = "pn"
  /\ Encrypted => ValidPN(PN(snum[h]), iv)
  /\ SubmitEnd(h)
  /\ UNCHANGED queue

-----------------------------------------------------------------------------
(***************************************************************************)
(* Second half: the loop body of _coop_rx_drain_tasklet().                 *)
(***************************************************************************)
DrainDup ==
  /\ tpc = "idle" /\ pc[Drain] = "idle" /\ queue # <<>>
  /\ rxseq = Sn(Head(queue))
  /\ queue' = Tail(queue)
  /\ UNCHANGED <<windowVars, flow, heard, cacheVars, primVars, helpVars, tpc, tnum, history>>

DrainTake ==
  /\ tpc = "idle" /\ pc[Drain] = "idle" /\ queue # <<>>
  /\ rxseq # Sn(Head(queue))
  /\ tnum' = Head(queue)
  /\ queue' = Tail(queue)
  /\ tpc' = "claim"
  /\ UNCHANGED <<windowVars, flow, heard, cacheVars, primVars, helpVars, history>>

\* WRITE_ONCE() on rxseq: from here on the primary drops its own copy.
DrainClaim ==
  /\ tpc = "claim"
  /\ rxseq' = Sn(tnum)
  /\ tpc' = "check"
  /\ UNCHANGED <<windowVars, flow, heard, iv, ring, primVars, helpVars, queue, tnum, history>>

DrainEnd ==
  /\ tpc' = "idle" /\ tnum' = None
  /\ UNCHANGED <<flow, heard, cacheVars, primVars, helpVars, queue, renewed>>

\* The second comparison with the window start, and the drop: the claim stands.
DrainLook ==
  /\ tpc = "check" /\ Behind(tnum)
  /\ tpc' = "late"
  /\ UNCHANGED <<windowVars, flow, heard, cacheVars, primVars, helpVars, queue, tnum, history>>

DrainLate ==
  /\ tpc = "late"
  /\ DrainEnd
  /\ late' = tnum
  /\ UNCHANGED <<windowVars, received>>

\* Decrypted by the kernel: the packet number goes into the primary's cache,
\* newer or older than what is there.  The driver's decryptor, which also gets
\* what the kernel's AEAD has failed on, leaves the cache alone.
DrainDecrypt ==
  /\ tpc = "check" /\ ~Behind(tnum)
  /\ \E by \in {flow.crypt} \cup (IF flow.crypt = "kernel" THEN {"soft"} ELSE {}) :
       /\ iv' = IF by = "kernel" THEN PN(tnum) ELSE iv
       /\ tpc' = by
  /\ UNCHANGED <<windowVars, flow, heard, rxseq, ring, primVars, helpVars, queue, tnum, history>>

\* The driver cannot decrypt it either (a MIC error, a key that is being
\* changed): the claim stands, and the frame is gone.
DrainUndecryptable ==
  /\ tpc = "soft"
  /\ DrainEnd
  /\ UNCHANGED <<windowVars, received, late>>

\* Outside an agreement recv_indicatepkt_reorder() leaves a QoS frame to its
\* caller.  recv_func_posthandle() (the driver's decryptor) passes it up, the
\* tasklet only counts it: the claim stands, and nobody gets the frame.
CountedOnly == flow.qos /\ ~flow.ba /\ tpc # "soft"

\* Into the window, or up the stack.
DrainDeliver ==
  /\ tpc \in {"open", "kernel", "soft"}
  /\ IF flow.ba THEN Indicate(Drain, tnum) ELSE UNCHANGED windowVars
  /\ received' = IF CountedOnly THEN received ELSE received \cup {tnum}
  /\ DrainEnd
  /\ UNCHANGED late

-----------------------------------------------------------------------------
\* The window's own steps: the timer and its cancelling, a new agreement.
Window ==
  /\ flow.ba
  /\ Timer \/ \E c \in Contexts : CancelTimer(c)
  /\ UNCHANGED <<flow, heard, cacheVars, primVars, helpVars, drainVars, history>>

Renew ==
  /\ flow.ba
  /\ AddBaRsp
  /\ renewed' = TRUE
  /\ UNCHANGED <<flow, heard, cacheVars, primVars, helpVars, drainVars, received, late>>

\* rtw_coop_rx_bind_session(), also of a session that is bound: it empties the
\* ring while helpers and tasklet go on.
Rebind ==
  /\ ring # <<>>
  /\ ring' = <<>>
  /\ UNCHANGED <<windowVars, flow, heard, rxseq, iv, primVars, helpVars, drainVars, history>>

\* The station has just been allocated: rxseq is 0xffff, the IVs are zero.
MergeInit ==
  /\ Init
  /\ flow \in Flows
  /\ heard = [r \in Radio |-> None]
  /\ rxseq = None /\ iv = 0 /\ ring = <<>>
  /\ ppc = "idle" /\ pnum = None
  /\ spc = [h \in Helpers |-> "idle"]
  /\ snum = [h \in Helpers |-> None]
  /\ queue = <<>> /\ tpc = "idle" /\ tnum = None
  /\ received = {} /\ late = None /\ renewed = FALSE

PrimaryStep ==
  \/ \E n \in Numbers : PrimaryDup(n) \/ PrimaryPass(n)
  \/ PrimaryWrite \/ PrimaryPN \/ PrimaryDeliver

HelperStep(h) ==
  \/ \E n \in Numbers : SubmitLook(h, n) \/ SubmitDup(h, n) \/ SubmitPass(h, n)
  \/ SubmitLate(h) \/ SubmitReplay(h) \/ SubmitEnqueue(h) \/ SubmitNoFrame(h)

DrainStep ==
  \/ DrainDup \/ DrainTake \/ DrainClaim \/ DrainLook \/ DrainLate
  \/ DrainDecrypt \/ DrainUndecryptable \/ DrainDeliver

MergeNext ==
  \/ PrimaryStep \/ DrainStep \/ \E h \in Helpers : HelperStep(h)
  \/ Window \/ Renew \/ Rebind

MergeSpec == MergeInit /\ [][MergeNext]_mergeVars

-----------------------------------------------------------------------------
(***************************************************************************)
(* Properties.                                                             *)
(***************************************************************************)
MaybeNumber == Numbers \cup {None}

MergeTypeOK ==
  /\ flow \in Flows
  /\ heard \in [Radio -> MaybeNumber]
  /\ rxseq \in (0..(SN_MOD - 1)) \cup {None}
  /\ iv \in 0..(MaxSN + 1)
  /\ ring \in Seq(0..(SN_MOD - 1)) /\ Len(ring) <= COOP_NONQOS_SEQ_CACHE_SZ
  /\ ppc \in {"idle", "write", "pn", "deliver"} /\ pnum \in MaybeNumber
  /\ spc \in [Helpers -> {"idle", "late", "pn"}] /\ snum \in [Helpers -> MaybeNumber]
  /\ queue \in Seq(Numbers) /\ Len(queue) <= QueueMax
  /\ tpc \in {"idle", "claim", "check", "late", "open", "kernel", "soft"} /\ tnum \in MaybeNumber
  /\ received \subseteq Numbers /\ late \in MaybeNumber /\ renewed \in BOOLEAN

\* The numbers a copy of which has reached the window or the stack, or is on its
\* way there past the comparison with rxseq.
Received == received \cup {pnum, tnum}

\* Traffic of which nothing is lost between that comparison and the window or
\* the stack: it need not be decrypted, and the tasklet passes it on.
Lossless == ~Encrypted /\ (flow.qos => flow.ba)

\* "Whoever updates rxseq first wins; the other path sees seq_ctrl == *prxseq and
\* drops": where no frame is lost after the claim, a copy that either path drops
\* for the number in rxseq is not the only one, unless the tasklet has found its
\* own copy behind the window (WindowDropsOnlyOld).
ClaimHonoured ==
  Lossless => \A n \in Numbers : rxseq = Sn(n) => n \in Received \cup {late}

\* The frame n is dropped for a window start that was read without the lock.
DroppedForWindow(n) ==
  \/ \E h \in Helpers : SubmitLate(h) /\ snum[h] = n
  \/ DrainLate /\ tnum = n

\* "it only advances monotonically, so a stale read = false negative (miss a dup),
\* never false positive (drop a valid frame)": while the first agreement stands,
\* a frame that submit or drain drop for the window start they have read is one
\* that the window would refuse at that moment.
WindowDropsOnlyOld ==
  [][\A n \in Numbers :
       DroppedForWindow(n) /\ ~renewed => Late(Start, Sn(n))]_mergeVars

\* "Frames rejected because the primary already received them", "if they match, the
\* primary already processed this frame", "never false positive (drop a valid
\* frame)": a frame n that a step drops ...
\* ... for its packet number has been received before, or is behind the window,
ReplayWasSeen(n) ==
  \A h \in Helpers :
    SubmitReplay(h) /\ snum[h] = n /\ ~Behind(n) => n \in Received

\* ... for the number in rxseq has reached the window or the stack, is on its way
\* there, or was found behind the window,
DupWasProcessed(n) ==
  PrimaryDup(n) \/ (DrainDup /\ Head(queue) = n) => n \in Received \cup {late}

\* ... for the window start has been received too, or the window would refuse it.
LateIsRefused(n) == DroppedForWindow(n) => n \in Received \/ Late(Start, Sn(n))

\* The code keeps none of the three: the cached packet number is the highest one,
\* and the gap in the window that the helper could fill is below it; a frame is
\* claimed in rxseq before it is decrypted, and a claim is not taken back when
\* that fails; a new agreement takes the window start back, while the start that
\* was read, or that still stands until the next frame consumes the reset, is
\* ahead of frames the window would take.
DropsAreDuplicates ==
  [][\A n \in Numbers :
       ReplayWasSeen(n) /\ DupWasProcessed(n) /\ LateIsRefused(n)]_mergeVars
=============================================================================
