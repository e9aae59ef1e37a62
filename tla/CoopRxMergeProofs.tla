------------------------- MODULE CoopRxMergeProofs -------------------------
(***************************************************************************)
(* Theorems about CoopRxMerge for any number of helpers, any ring and any  *)
(* queue: where no frame is lost after its claim, a copy that is dropped   *)
(* because of rxseq is not the only one; the window gets what its          *)
(* specification allows, so that the merged copies leave it in order; and  *)
(* until an agreement is renewed, what the comparison with its start drops *)
(* without its lock is what the window would refuse.                       *)
(***************************************************************************)
EXTENDS CoopRxMerge, RecvReorderProofs

\* The softirqs and the tasklet have a frame exactly while they work on one, and
\* only encrypted frames are decrypted.
PlaceInv ==
  /\ ppc = "idle" <=> pnum = None
  /\ tpc = "idle" <=> tnum = None
  /\ \A h \in Helpers : spc[h] # "idle" => snum[h] # None
  /\ tpc \in {"kernel", "soft"} => Encrypted

\* What a claim of n comes to: a copy of n has reached the window or the stack or
\* is on its way there, or the tasklet's last claim was dropped for the window.
Settled(n) == n \in Received \/ (late = n /\ tpc \in {"idle", "claim"})

\* The number in rxseq, whatever the round, is that of such a frame.
ClaimInv ==
  Lossless /\ rxseq # None => \E n \in Numbers : Settled(n) /\ rxseq = Sn(n)

IInv == MergeTypeOK /\ PlaceInv /\ ClaimInv

-----------------------------------------------------------------------------
\* Within one round the sequence number is the number.
LEMMA SnLemma ==
  ASSUME NEW n \in Numbers
  PROVE  /\ Sn(n) \in 0..(SN_MOD - 1)
         /\ Sn(n) # None
         /\ MaxSN < SN_MOD => Sn(n) = n
  BY ReorderAssumption DEF Numbers, Sn, None

\* The ring keeps to its size.
LEMMA RecordedLemma ==
  ASSUME NEW n \in Numbers, MergeTypeOK
  PROVE  /\ Recorded(n) \in Seq(0..(SN_MOD - 1))
         /\ Len(Recorded(n)) <= COOP_NONQOS_SEQ_CACHE_SZ
<1> DEFINE r == Append(ring, Sn(n))
<1>1. /\ r \in Seq(0..(SN_MOD - 1)) /\ Len(r) = Len(ring) + 1
      /\ Len(ring) \in Nat /\ Len(ring) <= COOP_NONQOS_SEQ_CACHE_SZ
  BY SnLemma DEF MergeTypeOK
<1> HIDE DEF r
<1>2. /\ Len(r) > COOP_NONQOS_SEQ_CACHE_SZ =>
           /\ Tail(r) \in Seq(0..(SN_MOD - 1))
           /\ Len(Tail(r)) = Len(r) - 1
  BY <1>1, MergeAssumption
<1>3. Recorded(n) = IF Len(r) > COOP_NONQOS_SEQ_CACHE_SZ THEN Tail(r) ELSE r
  BY DEF Recorded, r
<1>4. COOP_NONQOS_SEQ_CACHE_SZ \in Nat
  BY MergeAssumption
<1>5. CASE Len(r) > COOP_NONQOS_SEQ_CACHE_SZ
  <2>1. Len(Recorded(n)) = Len(ring)
    BY <1>1, <1>2, <1>3, <1>5
  <2>. QED
    BY <1>1, <1>2, <1>3, <1>5, <2>1
<1>6. CASE ~(Len(r) > COOP_NONQOS_SEQ_CACHE_SZ)
  <2>1. Recorded(n) = r /\ Len(r) <= COOP_NONQOS_SEQ_CACHE_SZ
    BY <1>1, <1>3, <1>4, <1>6
  <2>. QED
    BY <1>1, <2>1
<1>. QED
  BY <1>5, <1>6

\* The caches are empty and nobody has a frame.
LEMMA InitIInv == MergeInit => IInv
<1>. SUFFICES ASSUME MergeInit PROVE IInv
  OBVIOUS
<1>. USE MergeAssumption, ReorderAssumption DEF MergeInit, None, Encrypted
<1>1. MergeTypeOK
  <2>1. /\ ring \in Seq(0..(SN_MOD - 1)) /\ Len(ring) <= COOP_NONQOS_SEQ_CACHE_SZ
        /\ queue \in Seq(Numbers) /\ Len(queue) <= QueueMax
    OBVIOUS
  <2>2. iv \in 0..(MaxSN + 1)
    OBVIOUS
  <2>3. heard \in [Radio -> MaybeNumber] /\ snum \in [Helpers -> MaybeNumber]
    BY DEF MaybeNumber
  <2>4. spc \in [Helpers -> {"idle", "late", "pn"}]
    OBVIOUS
  <2>. QED
    BY <2>1, <2>2, <2>3, <2>4, Zenon DEF MergeTypeOK, MaybeNumber
<1>2. PlaceInv
  BY DEF PlaceInv
<1>3. ClaimInv
  BY DEF ClaimInv
<1>. QED
  BY <1>1, <1>2, <1>3 DEF IInv

-----------------------------------------------------------------------------
(***************************************************************************)
(* The steps.  heard and the window do not matter here.                    *)
(***************************************************************************)
\* What a radio has heard last is a number of the sender.
LEMMA HeardType ==
  ASSUME MergeTypeOK, NEW r \in Radio, NEW n \in Numbers, Hears(r, n)
  PROVE  heard' \in [Radio -> MaybeNumber]
  BY DEF MergeTypeOK, Hears, MaybeNumber

\* A step that leaves rxseq alone has to settle what it was settled by.
LEMMA StillSettled ==
  ASSUME ClaimInv, UNCHANGED <<flow, rxseq>>,
         Lossless => \A n \in Numbers : Settled(n) => Settled(n)'
  PROVE  ClaimInv'
  BY DEF ClaimInv, Lossless, Encrypted

\* The primary's own copy.
LEMMA PrimaryStepInv == ASSUME IInv, PrimaryStep PROVE IInv'
<1>. USE DEF IInv, cacheVars, primVars, helpVars, drainVars, history, Encrypted
<1>1. ASSUME NEW n \in Numbers, PrimaryDup(n) \/ PrimaryPass(n) PROVE IInv'
  <2>1. /\ UNCHANGED <<flow, rxseq, iv, ring, spc, snum, queue, tpc, tnum, received, late, renewed>>
        /\ \/ UNCHANGED <<ppc, pnum>>
           \/ ppc = "idle" /\ ppc' = "write" /\ pnum' = n
    BY <1>1 DEF PrimaryDup, PrimaryPass
  <2>2. heard' \in [Radio -> MaybeNumber]
    BY <1>1, HeardType DEF PrimaryDup, PrimaryPass, Radio
  <2>3. ppc' \in {"idle", "write", "pn", "deliver"} /\ pnum' \in MaybeNumber
    BY <2>1 DEF MergeTypeOK, MaybeNumber
  <2>4. MergeTypeOK'
    BY <2>1, <2>2, <2>3, Zenon DEF MergeTypeOK
  <2>5. PlaceInv'
    BY <2>1, ReorderAssumption DEF PlaceInv, None, Numbers
  <2>6. \A m \in Numbers : Settled(m) => Settled(m)'
    BY <2>1, ReorderAssumption DEF Settled, Received, PlaceInv, None, Numbers
  <2>7. ClaimInv'
    BY <2>1, <2>6, StillSettled
  <2>. QED
    BY <2>4, <2>5, <2>7
<1>2. CASE PrimaryWrite
  <2>. USE <1>2 DEF PrimaryWrite
  <2>1. pnum \in Numbers /\ Sn(pnum) \in 0..(SN_MOD - 1)
    BY SnLemma DEF MergeTypeOK, MaybeNumber, PlaceInv
  <2>2. MergeTypeOK'
    BY <2>1, Zenon DEF MergeTypeOK
  <2>3. PlaceInv'
    BY DEF PlaceInv
  <2>4. ClaimInv'
    BY <2>1, SnLemma DEF ClaimInv, Settled, Received
  <2>. QED
    BY <2>2, <2>3, <2>4
<1>3. CASE PrimaryPN
  <2>. USE <1>3 DEF PrimaryPN
  <2>1. pnum \in Numbers
    BY DEF MergeTypeOK, MaybeNumber, PlaceInv
  <2>2. iv' \in 0..(MaxSN + 1)
    BY <2>1, ReorderAssumption DEF MergeTypeOK, PN, Numbers
  <2>3. MergeTypeOK'
    BY <2>2, Zenon DEF MergeTypeOK
  <2>4. PlaceInv'
    BY DEF PlaceInv
  <2>5. ClaimInv'
    BY StillSettled DEF Settled, Received
  <2>. QED
    BY <2>3, <2>4, <2>5
<1>4. CASE PrimaryDeliver
  <2>1. /\ UNCHANGED <<flow, heard, rxseq, iv, ring, spc, snum, queue, tpc, tnum, late, renewed>>
        /\ ppc = "deliver" /\ ppc' = "idle" /\ pnum' = None
        /\ received' = received \cup {pnum}
    BY <1>4 DEF PrimaryDeliver
  <2>2. pnum \in Numbers
    BY <2>1 DEF MergeTypeOK, MaybeNumber, PlaceInv
  <2>3. received' \subseteq Numbers /\ pnum' \in MaybeNumber
    BY <2>1, <2>2 DEF MergeTypeOK, MaybeNumber
  <2>4. MergeTypeOK'
    BY <2>1, <2>3, Zenon DEF MergeTypeOK
  <2>5. PlaceInv'
    BY <2>1 DEF PlaceInv
  <2>6. ClaimInv'
    BY <2>1, StillSettled DEF Settled, Received
  <2>. QED
    BY <2>4, <2>5, <2>6
<1>. QED
  BY <1>1, <1>2, <1>3, <1>4 DEF PrimaryStep

\* A helper's copy, up to the pending queue.
LEMMA HelperStepInv == ASSUME IInv, NEW h \in Helpers, HelperStep(h) PROVE IInv'
<1>. USE DEF IInv, cacheVars, primVars, helpVars, drainVars, history, Encrypted
<1>1. ASSUME NEW n \in Numbers, SubmitLook(h, n) \/ SubmitDup(h, n) \/ SubmitPass(h, n)
      PROVE  IInv'
  <2>1. /\ UNCHANGED <<flow, rxseq, iv, ppc, pnum, queue, tpc, tnum, received, late, renewed>>
        /\ ring' = ring \/ ring' = Recorded(n)
        /\ \/ UNCHANGED <<spc, snum>>
           \/ \E at \in {"late", "pn"} :
                /\ spc' = [spc EXCEPT ![h] = at]
                /\ snum' = [snum EXCEPT ![h] = n]
    BY <1>1 DEF SubmitLook, SubmitDup, SubmitPass
  <2>2. heard' \in [Radio -> MaybeNumber]
    BY <1>1, HeardType DEF SubmitLook, SubmitDup, SubmitPass, Radio
  <2>3. ring' \in Seq(0..(SN_MOD - 1)) /\ Len(ring') <= COOP_NONQOS_SEQ_CACHE_SZ
    BY <2>1, RecordedLemma DEF MergeTypeOK
  <2>4. spc' \in [Helpers -> {"idle", "late", "pn"}] /\ snum' \in [Helpers -> MaybeNumber]
    BY <2>1 DEF MergeTypeOK, MaybeNumber
  <2>5. MergeTypeOK'
    BY <2>1, <2>2, <2>3, <2>4, Zenon DEF MergeTypeOK
  <2>6. PlaceInv'
    BY <2>1, ReorderAssumption DEF PlaceInv, None, Numbers, MergeTypeOK
  <2>7. ClaimInv'
    BY <2>1, StillSettled DEF Settled, Received
  <2>. QED
    BY <2>5, <2>6, <2>7
<1>2. ASSUME SubmitLate(h) \/ SubmitReplay(h) \/ SubmitEnqueue(h) \/ SubmitNoFrame(h) PROVE IInv'
  <2>1. /\ UNCHANGED <<flow, heard, rxseq, iv, ring, ppc, pnum, tpc, tnum, received, late, renewed>>
        /\ spc[h] # "idle"
        /\ spc' = [spc EXCEPT ![h] = "idle"]
        /\ snum' = [snum EXCEPT ![h] = None]
        /\ queue' = queue \/ (Len(queue) < QueueMax /\ queue' = Append(queue, snum[h]))
    BY <1>2 DEF SubmitLate, SubmitReplay, SubmitEnqueue, SubmitNoFrame, SubmitEnd
  <2>2. snum[h] \in Numbers
    BY <2>1 DEF MergeTypeOK, MaybeNumber, PlaceInv
  <2>3. queue' \in Seq(Numbers) /\ Len(queue') <= QueueMax
    <3>1. queue \in Seq(Numbers) /\ Len(queue) \in Nat /\ Len(queue) <= QueueMax /\ QueueMax \in Nat
      BY MergeAssumption DEF MergeTypeOK
    <3>2. Append(queue, snum[h]) \in Seq(Numbers) /\ Len(Append(queue, snum[h])) = Len(queue) + 1
      BY <2>2, <3>1
    <3>. QED
      BY <2>1, <3>1, <3>2
  <2>4. spc' \in [Helpers -> {"idle", "late", "pn"}] /\ snum' \in [Helpers -> MaybeNumber]
    BY <2>1 DEF MergeTypeOK, MaybeNumber
  <2>5. MergeTypeOK'
    BY <2>1, <2>3, <2>4, Zenon DEF MergeTypeOK
  <2>6. PlaceInv'
    BY <2>1 DEF PlaceInv, MergeTypeOK
  <2>7. ClaimInv'
    BY <2>1, StillSettled DEF Settled, Received
  <2>. QED
    BY <2>5, <2>6, <2>7
<1>. QED
  BY <1>1, <1>2 DEF HelperStep

\* The tasklet.
LEMMA DrainStepInv == ASSUME IInv, DrainStep PROVE IInv'
<1>. USE DEF IInv, cacheVars, primVars, helpVars, drainVars, history, Encrypted
<1>1. CASE DrainDup \/ DrainTake
  <2>1. queue # <<>> /\ queue \in Seq(Numbers) /\ queue' = Tail(queue)
    BY <1>1 DEF DrainDup, DrainTake, MergeTypeOK
  <2>2. Head(queue) \in Numbers /\ Tail(queue) \in Seq(Numbers) /\ Len(Tail(queue)) = Len(queue) - 1
        /\ Len(queue) \in Nat
    BY <2>1
  <2>3. queue' \in Seq(Numbers) /\ Len(queue') <= QueueMax
    BY <2>1, <2>2, MergeAssumption DEF MergeTypeOK
  <2>4. /\ UNCHANGED <<flow, heard, rxseq, iv, ring, ppc, pnum, spc, snum, received, late, renewed>>
        /\ \/ UNCHANGED <<tpc, tnum>>
           \/ tpc = "idle" /\ tpc' = "claim" /\ tnum' = Head(queue)
    BY <1>1 DEF DrainDup, DrainTake
  <2>5. tnum' \in MaybeNumber /\ tpc' \in {"idle", "claim", "check", "late", "open", "kernel", "soft"}
    BY <2>2, <2>4 DEF MergeTypeOK, MaybeNumber
  <2>6. MergeTypeOK'
    BY <2>3, <2>4, <2>5, Zenon DEF MergeTypeOK
  <2>7. PlaceInv'
    BY <2>2, <2>4, ReorderAssumption DEF PlaceInv, None, Numbers
  <2>8. \A m \in Numbers : Settled(m) => Settled(m)'
    BY <2>4, ReorderAssumption DEF Settled, Received, PlaceInv, None, Numbers
  <2>9. ClaimInv'
    BY <2>4, <2>8, StillSettled
  <2>. QED
    BY <2>6, <2>7, <2>9
<1>2. CASE DrainClaim
  <2>. USE <1>2 DEF DrainClaim
  <2>1. tnum \in Numbers /\ Sn(tnum) \in 0..(SN_MOD - 1)
    BY SnLemma DEF MergeTypeOK, MaybeNumber, PlaceInv
  <2>2. MergeTypeOK'
    BY <2>1, Zenon DEF MergeTypeOK
  <2>3. PlaceInv'
    BY DEF PlaceInv
  <2>4. ClaimInv'
    BY <2>1, SnLemma DEF ClaimInv, Settled, Received
  <2>. QED
    BY <2>2, <2>3, <2>4
<1>3. CASE DrainDecrypt \/ DrainLook
  <2>1. /\ UNCHANGED <<flow, heard, rxseq, ring, ppc, pnum, spc, snum, queue, tnum, received, late, renewed>>
        /\ tpc = "check" /\ tpc' \in {"late", "open", "kernel", "soft"}
        /\ iv' = iv \/ iv' = PN(tnum)
        /\ tpc' \in {"kernel", "soft"} => Encrypted
    <3>1. flow.crypt \in {"open", "kernel", "soft"}
      BY MergeAssumption DEF MergeTypeOK
    <3>. QED
      BY <1>3, <3>1 DEF DrainDecrypt, DrainLook
  <2>2. tnum \in Numbers
    BY <2>1 DEF MergeTypeOK, MaybeNumber, PlaceInv
  <2>3. iv' \in 0..(MaxSN + 1)
    BY <2>1, <2>2, ReorderAssumption DEF MergeTypeOK, PN, Numbers
  <2>4. MergeTypeOK'
    BY <2>1, <2>3, Zenon DEF MergeTypeOK
  <2>5. PlaceInv'
    BY <2>1 DEF PlaceInv
  <2>6. ClaimInv'
    BY <2>1, StillSettled DEF Settled, Received
  <2>. QED
    BY <2>4, <2>5, <2>6
<1>4. CASE DrainLate \/ DrainUndecryptable \/ DrainDeliver
  <2>1. /\ UNCHANGED <<flow, heard, rxseq, iv, ring, ppc, pnum, spc, snum, queue, renewed>>
        /\ tpc \in {"late", "open", "kernel", "soft"} /\ tpc' = "idle" /\ tnum' = None
        /\ received' \in {received, received \cup {tnum}}
        /\ late' \in {late, tnum}
    BY <1>4 DEF DrainLate, DrainUndecryptable, DrainDeliver, DrainEnd
  <2>2. tnum \in Numbers
    BY <2>1 DEF MergeTypeOK, MaybeNumber, PlaceInv
  <2>3. received' \subseteq Numbers /\ tnum' \in MaybeNumber /\ late' \in MaybeNumber
    BY <2>1, <2>2 DEF MergeTypeOK, MaybeNumber
  <2>4. MergeTypeOK'
    BY <2>1, <2>3, Zenon DEF MergeTypeOK
  <2>5. PlaceInv'
    BY <2>1 DEF PlaceInv
  <2>6. ASSUME Lossless PROVE tnum \in received' \/ late' = tnum
    <3>1. CASE DrainLate
      BY <3>1 DEF DrainLate
    <3>2. CASE DrainUndecryptable
      BY <2>6, <3>2 DEF DrainUndecryptable, Lossless, PlaceInv
    <3>3. CASE DrainDeliver
      BY <2>6, <3>3 DEF DrainDeliver, Lossless, CountedOnly
    <3>. QED
      BY <1>4, <3>1, <3>2, <3>3
  <2>7. ClaimInv'
    BY <2>1, <2>6, StillSettled DEF Settled, Received
  <2>. QED
    BY <2>4, <2>5, <2>7
<1>. QED
  BY <1>1, <1>2, <1>3, <1>4 DEF DrainStep

\* The window's own steps, a new agreement, a session bound again, or none at all.
LEMMA WindowStepInv ==
  ASSUME IInv, Window \/ Renew \/ Rebind \/ UNCHANGED mergeVars
  PROVE  IInv'
<1>1. /\ UNCHANGED <<flow, heard, rxseq, iv, ppc, pnum, spc, snum, queue, tpc, tnum, received, late>>
      /\ ring' \in {ring, <<>>} /\ renewed' \in {renewed, TRUE}
  BY DEF Window, Renew, Rebind, mergeVars, cacheVars, primVars, helpVars, drainVars, history
<1>2. /\ ring' \in Seq(0..(SN_MOD - 1)) /\ Len(ring') <= COOP_NONQOS_SEQ_CACHE_SZ
      /\ renewed' \in BOOLEAN
  <2>1. <<>> \in Seq(0..(SN_MOD - 1)) /\ Len(<<>>) <= COOP_NONQOS_SEQ_CACHE_SZ
    BY MergeAssumption
  <2>2. CASE ring' = ring
    BY <1>1, <2>2 DEF IInv, MergeTypeOK
  <2>3. CASE ring' = <<>>
    BY <1>1, <2>1, <2>3 DEF IInv, MergeTypeOK
  <2>. QED
    BY <1>1, <2>2, <2>3
<1>3. MergeTypeOK'
  BY <1>1, <1>2, Zenon DEF IInv, MergeTypeOK
<1>4. PlaceInv' /\ ClaimInv'
  BY <1>1, StillSettled DEF IInv, PlaceInv, Settled, Received, Encrypted
<1>. QED
  BY <1>3, <1>4 DEF IInv

\* The invariant of the caches holds throughout.
LEMMA InductiveIInv == MergeSpec => []IInv
<1>1. IInv /\ [MergeNext]_mergeVars => IInv'
  BY PrimaryStepInv, HelperStepInv, DrainStepInv, WindowStepInv DEF MergeNext
<1>. QED
  BY <1>1, InitIInv, PTL DEF MergeSpec

-----------------------------------------------------------------------------
\* The caches, the ring, the queue and the frames in hand stay in their types and
\* sizes, for every modulus and however long the stream is.
THEOREM MergeTypeCorrect == MergeSpec => []MergeTypeOK
<1>1. IInv => MergeTypeOK
  BY DEF IInv
<1>. QED
  BY <1>1, InductiveIInv, PTL

\* recv_decache() and the tasklet race on rxseq without a lock; still, however
\* often the numbers wrap, where no frame is lost after its claim rxseq is never
\* the number of a frame of which no copy has got or will get any further.
THEOREM ClaimsAreReal == MergeSpec => []ClaimInv
<1>1. IInv => ClaimInv
  BY DEF IInv
<1>. QED
  BY <1>1, InductiveIInv, PTL

\* Within one round of the sequence numbers, where the number names the frame, and
\* for traffic that needs no decryption and, if it is QoS, has its agreement: a
\* copy dropped for the number in rxseq is not the only one, unless the tasklet
\* dropped that one for the window start.
THEOREM ClaimsAreHonoured == ASSUME MaxSN < SN_MOD PROVE MergeSpec => []ClaimHonoured
<1>1. IInv => ClaimHonoured
  <2>. SUFFICES ASSUME IInv, Lossless, NEW n \in Numbers, rxseq = Sn(n)
                PROVE  n \in Received \cup {late}
    BY DEF ClaimHonoured
  <2>1. PICK m \in Numbers : Settled(m) /\ rxseq = Sn(m)
    BY SnLemma DEF IInv, ClaimInv
  <2>2. m = n
    BY <2>1, SnLemma
  <2>. QED
    BY <2>1, <2>2 DEF Settled
<1>. QED
  BY <1>1, InductiveIInv, PTL

-----------------------------------------------------------------------------
(***************************************************************************)
(* The window behind the caches is the window of RecvReorder: whatever the *)
(* caches let through, its two callers call it as its specification says.  *)
(***************************************************************************)
\* A step of the caches is a step of the window or leaves it alone.
LEMMA MergeStepIsWindowStep == IInv /\ [MergeNext]_mergeVars => [Next]_vars
<1>. SUFFICES ASSUME IInv, [MergeNext]_mergeVars PROVE [Next]_vars
  OBVIOUS
<1>. USE DEF windowVars, vars
<1>1. CASE PrimaryStep
  <2>1. CASE PrimaryDeliver
    <3>1. ppc = "deliver" /\ pnum \in MaybeNumber /\ (ppc = "idle" <=> pnum = None)
      BY <2>1 DEF PrimaryDeliver, IInv, MergeTypeOK, PlaceInv
    <3>2. pnum \in Numbers /\ Primary \in Contexts
      BY <3>1, MergeAssumption DEF MaybeNumber
    <3>3. Indicate(Primary, pnum) \/ UNCHANGED windowVars
      BY <2>1 DEF PrimaryDeliver
    <3>. QED
      BY <3>2, <3>3 DEF Next
  <2>2. CASE ~PrimaryDeliver
    BY <1>1, <2>2 DEF PrimaryStep, PrimaryDup, PrimaryPass, PrimaryWrite, PrimaryPN
  <2>. QED
    BY <2>1, <2>2
<1>2. ASSUME NEW h \in Helpers, HelperStep(h) PROVE [Next]_vars
  BY <1>2 DEF HelperStep, SubmitLook, SubmitLate, SubmitDup, SubmitPass, SubmitReplay, SubmitEnqueue,
     SubmitNoFrame, SubmitEnd
<1>3. CASE DrainStep
  <2>1. CASE DrainDeliver
    <3>1. tpc # "idle" /\ tnum \in MaybeNumber /\ (tpc = "idle" <=> tnum = None)
      BY <2>1 DEF DrainDeliver, IInv, MergeTypeOK, PlaceInv
    <3>2. tnum \in Numbers /\ Drain \in Contexts
      BY <3>1, MergeAssumption DEF MaybeNumber
    <3>3. Indicate(Drain, tnum) \/ UNCHANGED windowVars
      BY <2>1 DEF DrainDeliver
    <3>. QED
      BY <3>2, <3>3 DEF Next
  <2>2. CASE ~DrainDeliver
    BY <1>3, <2>2 DEF DrainStep, DrainDup, DrainTake, DrainClaim, DrainLook, DrainLate,
       DrainUndecryptable, DrainDecrypt
  <2>. QED
    BY <2>1, <2>2
<1>4. CASE Window \/ Renew \/ Rebind
  BY <1>4 DEF Window, Renew, Rebind, Next
<1>5. CASE UNCHANGED mergeVars
  BY <1>5 DEF mergeVars
<1>. QED
  BY <1>1, <1>2, <1>3, <1>4, <1>5 DEF MergeNext

\* Cooperative RX drives the window only as its specification allows, so that
\* all that is proved of the window holds with the caches in front of it.
THEOREM MergeUsesWindow == MergeSpec => Spec
<1>1. MergeInit => Init
  BY DEF MergeInit
<1>. QED
  BY <1>1, MergeStepIsWindowStep, InductiveIInv, PTL DEF MergeSpec, Spec

\* The primary's copies and the helpers' copies, merged by two callers on two
\* CPUs, leave the window as one stream: in the sender's order, none twice.
THEOREM MergeImplementsStream == MergeSpec => PassedUpInOrder
  BY MergeUsesWindow, WindowImplementsStream, PTL
-----------------------------------------------------------------------------
(***************************************************************************)
(* The comparison with the window start that submit and drain make without *)
(* the window's lock.  As long as the stream is shorter than half a round, *)
(* the window start is a number of the sender (or the one after the last), *)
(* and until an agreement is renewed it only grows: what was behind the    *)
(* start that was read is behind every later one.                          *)
(***************************************************************************)
ShortStream == MaxSN + 1 < SN_MOD \div 2

\* The reset bit stands for the first agreement, and what is held lies in the
\* window, behind its first frame.
RangeInv ==
  /\ reset => indicate_seq = Unset
  /\ indicate_seq # Unset =>
       \A x \in Elems(pending) : indicate_seq < x /\ x <= indicate_seq + WSize - 1

\* What has been found late is behind the window.
LateInv ==
  /\ \A h \in Helpers : spc[h] = "late" => indicate_seq # Unset /\ snum[h] < indicate_seq
  /\ tpc = "late" => indicate_seq # Unset /\ tnum < indicate_seq

MonoInv == ~renewed => RangeInv /\ LateInv

\* In a short stream a sequence number is the number.
LEMMA ShortSn ==
  ASSUME ShortStream
  PROVE  /\ MaxSN \in Nat /\ MaxSN + 1 < Half /\ Half \in Nat
         /\ \A n \in 0..(MaxSN + 1) : Sn(n) = n
<1>1. MaxSN \in Nat /\ MaxSN + 1 < Half
  BY ReorderAssumption DEF ShortStream, Half
<1>2. ASSUME NEW n \in 0..(MaxSN + 1) PROVE Sn(n) = n
  <2>1. n \in (-Half)..(Half - 1) /\ n >= 0
    BY <1>1, HalfLemma
  <2>. QED
    BY <2>1, SmallMod DEF Sn
<1>. QED
  BY <1>1, <1>2, HalfLemma

\* So is the window start, and what is held can be compared with anything.
LEMMA ShortWindow ==
  ASSUME WindowInv, ShortStream
  PROVE  /\ indicate_seq = Unset => reset /\ pending = <<>>
         /\ indicate_seq # Unset => indicate_seq \in 0..(MaxSN + 1)
         /\ pending \in Seq(Numbers) /\ Increasing(pending) /\ Elems(pending) \subseteq Numbers
         /\ \A n \in Numbers : n \in 0..MaxSN /\ Sn(n) = n /\ Near(pending, n)
<1>. USE ShortSn, HalfLemma
<1>1. /\ newest \in -1..MaxSN /\ last \in -1..MaxSN
      /\ pending \in Seq(Numbers) /\ Increasing(pending) /\ Elems(pending) \subseteq Numbers
  BY HeldType DEF WindowInv, TypeOK, HeldInv
<1>2. ASSUME indicate_seq # Unset PROVE indicate_seq \in 0..(MaxSN + 1)
  <2>1. PICK w \in (newest + 1 - Reach)..(newest + 1) : w > last /\ indicate_seq = Sn(w)
    BY <1>2 DEF WindowInv, StartInv
  <2>2. w \in 0..(MaxSN + 1)
    BY <1>1, <2>1, ReachLemma
  <2>. QED
    BY <2>1, <2>2
<1>3. ASSUME NEW n \in Numbers PROVE n \in 0..MaxSN /\ Sn(n) = n /\ Near(pending, n)
  <2>1. n \in 0..MaxSN
    BY DEF Numbers
  <2>2. \A i \in 1..Len(pending) : pending[i] \in 0..MaxSN
    BY <1>1 DEF Elems, Numbers
  <2>. QED
    BY <2>1, <2>2 DEF Near
<1>. QED
  BY <1>1, <1>2, <1>3 DEF WindowInv, StartInv

\* What recv_indicatepkts_in_order() makes of a list q and a window start w: a
\* start that is not smaller, with only larger numbers left.
LEMMA DeliverGrows ==
  ASSUME ShortStream, NEW w \in 0..(MaxSN + 1), NEW q \in Seq(Numbers), Increasing(q)
  PROVE  \E v \in w..(MaxSN + 1) :
           InOrder(w, q).start = v /\ Elems(InOrder(w, q).left) = {x \in Elems(q) : x > v}
<1>1. /\ Numbers \in SUBSET Int /\ w \in Int /\ MaxSN \in Int /\ w <= MaxSN + 1
      /\ Sn(w) = w
  BY ShortSn DEF Numbers
<1>2. \A i \in 1..Len(q) : q[i] \in 0..MaxSN
  <2>1. \A i \in 1..Len(q) : q[i] \in Numbers
    OBVIOUS
  <2>. QED
    BY <2>1 DEF Numbers
<1>3. PICK from \in Int : from = -1
  OBVIOUS
<1>4. from < w /\ \A i \in 1..Len(q) : q[i] > from
  BY <1>2, <1>3
<1>5. \A i \in 1..Len(q) : q[i] <= MaxSN /\ w - q[i] >= -Half /\ MaxSN + 1 - q[i] < Half
  BY <1>2, ShortSn
<1>. DEFINE r == InOrder(Sn(w), q)
            l == LastUp(from, r.up)
<1>6. \E v \in w..(MaxSN + 1) :
        /\ r.start = Sn(v)
        /\ r.left \in Seq(Numbers) /\ Increasing(r.left)
        /\ Elems(r.left) = {x \in Elems(q) : x > v}
        /\ Elems(r.up) = {x \in Elems(q) : x < v}
        /\ Elems(r.left) = Elems(q) \ Elems(r.up)
        /\ l = IF Elems(r.up) = {} THEN from ELSE Max(Elems(r.up))
        /\ l \in {from} \cup Elems(q)
        /\ l < v
  BY <1>1, <1>4, <1>5, DeliverLemma
<1>. HIDE DEF r, l
<1>7. PICK v \in w..(MaxSN + 1) :
        r.start = Sn(v) /\ Elems(r.left) = {x \in Elems(q) : x > v}
  BY <1>6
<1>8. Sn(v) = v
  BY <1>1, ShortSn
<1>9. r = InOrder(w, q)
  BY <1>1 DEF r
<1>. QED
  BY <1>7, <1>8, <1>9
\* A frame arrives: the window start does not go back, and RangeInv is kept.
LEMMA IndicateGrows ==
  ASSUME WindowInv, ShortStream, RangeInv, NEW c \in Contexts, NEW n \in Numbers, Indicate(c, n)
  PROVE  /\ RangeInv'
         /\ indicate_seq # Unset => indicate_seq' # Unset /\ indicate_seq <= indicate_seq'
<1>. USE ShortSn, HalfLemma
<1>1. /\ indicate_seq = Unset => pending = <<>>
      /\ indicate_seq # Unset => indicate_seq \in 0..(MaxSN + 1)
      /\ pending \in Seq(Numbers) /\ Increasing(pending) /\ Elems(pending) \subseteq Numbers
      /\ n \in 0..MaxSN /\ Sn(n) = n /\ Near(pending, n)
  BY ShortWindow
<1>2. Start = indicate_seq /\ reset' = FALSE /\ (Refuse(c, n) \/ Accept(c, n))
  BY DEF Start, RangeInv, Indicate
<1>3. pending \in Seq(Int) /\ n \in Int /\ \A x \in Elems(pending) : x \in 0..MaxSN
  BY <1>1, SeqMonotonic DEF Numbers
<1>4. ASSUME indicate_seq # Unset
      PROVE  /\ Late(Start, Sn(n)) <=> n < indicate_seq
             /\ n >= indicate_seq => Slide(Start, Sn(n)) = Moved(indicate_seq, n)
  <2>1. indicate_seq \in Int /\ Sn(indicate_seq) = indicate_seq
        /\ n - indicate_seq >= -Half /\ n - indicate_seq < Half /\ n - indicate_seq - WSize < Half
    BY <1>1, <1>4
  <2>2. Late(Start, Sn(n)) <=> n < indicate_seq
    BY <1>2, <1>3, <2>1, LateIsBehind
  <2>3. ASSUME n >= indicate_seq PROVE Slide(Start, Sn(n)) = Moved(indicate_seq, n)
    <3>1. Slide(Start, Sn(n)) = Sn(Moved(indicate_seq, n))
      BY <1>2, <1>3, <2>1, <2>3, SlideMoves
    <3>2. Moved(indicate_seq, n) \in 0..(MaxSN + 1)
      BY <1>1, <1>4, <2>3 DEF Moved
    <3>. QED
      BY <3>1, <3>2
  <2>. QED
    BY <2>2, <2>3
<1>5. CASE Refuse(c, n)
  <2>1. /\ Late(Start, Sn(n)) \/ Taken(pending, Sn(n))
        /\ indicate_seq' = IF Late(Start, Sn(n)) THEN Start ELSE Slide(Start, Sn(n))
        /\ pending' = pending
    BY <1>5 DEF Refuse
  <2>2. ASSUME ~Late(Start, Sn(n))
        PROVE  indicate_seq # Unset /\ Slide(Start, Sn(n)) = indicate_seq
    <3>1. n \in Elems(pending)
      BY <1>1, <1>3, <2>1, <2>2, TakenLemma
    <3>2. indicate_seq # Unset
      BY <1>1, <3>1 DEF Elems
    <3>3. indicate_seq < n /\ n <= indicate_seq + WSize - 1
      BY <3>1, <3>2 DEF RangeInv
    <3>4. Moved(indicate_seq, n) = indicate_seq
      BY <1>1, <3>2, <3>3 DEF Moved
    <3>. QED
      BY <1>1, <1>4, <3>2, <3>3, <3>4
  <2>3. indicate_seq' = indicate_seq
    BY <1>2, <2>1, <2>2
  <2>. QED
    BY <1>1, <1>2, <2>1, <2>3 DEF RangeInv, Elems
<1>6. CASE Accept(c, n)
  <2>. DEFINE q == Insert(pending, n)
              m == IF indicate_seq = Unset THEN n + 1 ELSE Moved(indicate_seq, n)
  <2>1. /\ ~Late(Start, Sn(n)) /\ ~Taken(pending, Sn(n))
        /\ indicate_seq' = InOrder(Slide(Start, Sn(n)), q).start
        /\ pending' = InOrder(Slide(Start, Sn(n)), q).left
    BY <1>6 DEF Accept
  <2>2. n \notin Elems(pending)
    BY <1>1, <1>3, <2>1, TakenLemma
  <2>3. q \in Seq(Numbers) /\ Increasing(q) /\ Elems(q) = Elems(pending) \cup {n}
    <3>1. Numbers \in SUBSET Int
      BY DEF Numbers
    <3>. QED
      BY <1>1, <2>2, <3>1, InsertLemma
  <2>4. indicate_seq # Unset => indicate_seq <= n
    BY <1>1, <1>4, <2>1
  <2>5. Slide(Start, Sn(n)) = m
    <3>1. CASE indicate_seq = Unset
      <4>1. Slide(Start, Sn(n)) = Sn(n + 1) /\ n + 1 \in 0..(MaxSN + 1)
        BY <1>1, <1>2, <1>3, <3>1, FirstOfWindow
      <4>. QED
        BY <3>1, <4>1
    <3>2. CASE indicate_seq # Unset
      BY <1>1, <1>4, <2>4, <3>2
    <3>. QED
      BY <3>1, <3>2
  <2>6. /\ m \in 0..(MaxSN + 1) /\ n <= m + WSize - 1
        /\ indicate_seq # Unset => indicate_seq <= m
    BY <1>1, <2>4 DEF Moved
  <2>. HIDE DEF q, m
  <2>7. PICK v \in m..(MaxSN + 1) :
          InOrder(m, q).start = v /\ Elems(InOrder(m, q).left) = {x \in Elems(q) : x > v}
    BY <2>3, <2>6, DeliverGrows
  <2>8. /\ indicate_seq' = v /\ Elems(pending') = {x \in Elems(q) : x > v}
        /\ v \in 0..(MaxSN + 1) /\ m <= v
    BY <2>1, <2>5, <2>6, <2>7
  <2>9. ASSUME NEW x \in Elems(pending') PROVE indicate_seq' < x /\ x <= indicate_seq' + WSize - 1
    <3>1. x > v /\ x \in Elems(pending) \cup {n}
      BY <2>3, <2>8
    <3>2. ASSUME x # n PROVE x <= v + WSize - 1
      <4>1. x \in Elems(pending) /\ indicate_seq # Unset
        BY <1>1, <3>1, <3>2 DEF Elems
      <4>2. x <= indicate_seq + WSize - 1 /\ x \in 0..MaxSN /\ indicate_seq \in 0..(MaxSN + 1)
        BY <1>1, <1>3, <4>1 DEF RangeInv
      <4>. QED
        BY <2>6, <2>8, <4>1, <4>2
    <3>. QED
      BY <1>1, <2>6, <2>8, <3>1, <3>2
  <2>10. RangeInv'
    BY <1>2, <2>9 DEF RangeInv
  <2>11. indicate_seq' # Unset /\ (indicate_seq # Unset => indicate_seq <= indicate_seq')
    BY <1>1, <2>6, <2>8 DEF Unset
  <2>. QED
    BY <2>10, <2>11
<1>. QED
  BY <1>2, <1>5, <1>6

\* The timer moves the window on to the first frame held.
LEMMA HandlerGrows ==
  ASSUME WindowInv, ShortStream, RangeInv, Handler
  PROVE  /\ RangeInv'
         /\ indicate_seq # Unset => indicate_seq' # Unset /\ indicate_seq <= indicate_seq'
<1>. USE ShortSn, HalfLemma
<1>1. /\ indicate_seq = Unset => pending = <<>>
      /\ indicate_seq # Unset => indicate_seq \in 0..(MaxSN + 1)
      /\ pending \in Seq(Numbers) /\ Increasing(pending) /\ Elems(pending) \subseteq Numbers
  BY ShortWindow
<1>2. CASE pending = <<>>
  <2>1. UNCHANGED <<indicate_seq, pending, reset>>
    BY <1>2 DEF Handler
  <2>. QED
    BY <1>1, <2>1 DEF RangeInv, Elems
<1>3. CASE pending # <<>>
  <2>. DEFINE w == Head(pending)
  <2>1. /\ reset' = reset
        /\ indicate_seq' = InOrder(Sn(w), pending).start
        /\ pending' = InOrder(Sn(w), pending).left
    BY <1>3 DEF Handler
  <2>2. indicate_seq # Unset /\ ~reset
    BY <1>1, <1>3 DEF RangeInv
  <2>3. w \in Elems(pending) /\ w \in 0..MaxSN
    <3>1. w \in Elems(pending)
      BY <1>1, <1>3 DEF Elems
    <3>. QED
      BY <1>1, <3>1 DEF Numbers
  <2>. HIDE DEF w
  <2>4. indicate_seq < w /\ Sn(w) = w /\ w \in 0..(MaxSN + 1)
    BY <2>2, <2>3 DEF RangeInv
  <2>5. PICK v \in w..(MaxSN + 1) :
          /\ InOrder(w, pending).start = v
          /\ Elems(InOrder(w, pending).left) = {x \in Elems(pending) : x > v}
    BY <1>1, <2>4, DeliverGrows
  <2>6. /\ indicate_seq' = v /\ Elems(pending') = {x \in Elems(pending) : x > v}
        /\ v \in 0..(MaxSN + 1) /\ indicate_seq < v /\ indicate_seq \in 0..(MaxSN + 1)
    BY <1>1, <2>1, <2>2, <2>4, <2>5
  <2>7. ASSUME NEW x \in Elems(pending') PROVE indicate_seq' < x /\ x <= indicate_seq' + WSize - 1
    <3>1. x > v /\ x \in Elems(pending) /\ x \in 0..MaxSN
      BY <1>1, <2>6 DEF Numbers
    <3>2. x <= indicate_seq + WSize - 1
      BY <2>2, <3>1 DEF RangeInv
    <3>. QED
      BY <2>6, <3>1, <3>2
  <2>8. RangeInv'
    BY <2>1, <2>2, <2>7 DEF RangeInv
  <2>. QED
    BY <2>6, <2>8 DEF Unset
<1>. QED
  BY <1>2, <1>3

\* Until an agreement is renewed, so with every step of the window.
LEMMA WindowGrows ==
  ASSUME WindowInv, ShortStream, RangeInv, [Next]_vars, reset' => reset
  PROVE  /\ RangeInv'
         /\ indicate_seq # Unset => indicate_seq' # Unset /\ indicate_seq <= indicate_seq'
<1>1. ASSUME NEW c \in Contexts, NEW n \in Numbers, Indicate(c, n)
      PROVE  /\ RangeInv'
             /\ indicate_seq # Unset => indicate_seq' # Unset /\ indicate_seq <= indicate_seq'
  BY <1>1, IndicateGrows
<1>2. CASE Handler
  BY <1>2, HandlerGrows
<1>3. CASE UNCHANGED <<indicate_seq, pending, reset>>
  <2>1. indicate_seq # Unset => indicate_seq \in 0..(MaxSN + 1)
    BY ShortWindow
  <2>. QED
    BY <1>3, <2>1, ShortSn DEF RangeInv, Elems
<1>4. \/ \E c \in Contexts, n \in Numbers : Indicate(c, n)
      \/ Handler
      \/ UNCHANGED <<indicate_seq, pending, reset>>
  BY DEF Next, Timer, TimerExpires, HandlerStopped, CancelTimer, AddBaRsp, Stop, vars
<1>. QED
  BY <1>1, <1>2, <1>3, <1>4
\* What the unlocked comparison finds late is behind the window start it read,
\* and what is behind the window start is refused by the window.
LEMMA BehindIsLess ==
  ASSUME WindowInv, ShortStream, NEW n \in Numbers
  PROVE  /\ Behind(n) => indicate_seq # Unset /\ n < indicate_seq
         /\ indicate_seq # Unset /\ n < indicate_seq /\ RangeInv => Late(Start, Sn(n))
<1>. USE ShortSn, HalfLemma
<1>1. n \in 0..MaxSN /\ Sn(n) = n /\ (indicate_seq # Unset => indicate_seq \in 0..(MaxSN + 1))
  BY ShortWindow
<1>2. ASSUME indicate_seq # Unset
      PROVE  /\ Sn(indicate_seq) = indicate_seq /\ n \in Int /\ indicate_seq \in Int
             /\ n - indicate_seq >= -Half /\ n - indicate_seq < Half
  BY <1>1, <1>2
<1>3. ASSUME Behind(n) PROVE indicate_seq # Unset /\ n < indicate_seq
  <2>1. indicate_seq # Unset /\ SN_LESS(Sn(n), Sn(indicate_seq))
    BY <1>2, <1>3 DEF Behind
  <2>. QED
    BY <1>2, <2>1, SnLess
<1>4. ASSUME indicate_seq # Unset, n < indicate_seq, RangeInv PROVE Late(Start, Sn(n))
  <2>1. Late(indicate_seq, Sn(n))
    BY <1>2, <1>4, LateIsBehind
  <2>. QED
    BY <1>4, <2>1 DEF Start, RangeInv
<1>. QED
  BY <1>3, <1>4

\* The frame in hand of who has found it late is a number.
LEMMA LateHasFrame ==
  ASSUME IInv
  PROVE  /\ \A h \in Helpers : spc[h] # "idle" => snum[h] \in Numbers
         /\ tpc # "idle" => tnum \in Numbers
  BY DEF IInv, PlaceInv, MergeTypeOK, MaybeNumber

\* No agreement yet, and nobody has a frame.
LEMMA InitMonoInv == MergeInit => MonoInv
<1>. SUFFICES ASSUME MergeInit PROVE RangeInv /\ LateInv
  BY DEF MonoInv
<1>. QED
  BY DEF MergeInit, Init, RangeInv, LateInv

\* A step that brings no new agreement leaves the reset bit off.
LEMMA NoNewAgreement ==
  ASSUME IInv, [MergeNext]_mergeVars, ~renewed'
  PROVE  ~renewed /\ (reset' => reset)
<1>. USE DEF windowVars, helpVars, drainVars, history, DrainEnd, SubmitEnd, Indicate
<1>1. CASE PrimaryStep
  BY <1>1 DEF PrimaryStep, PrimaryDup, PrimaryPass, PrimaryWrite, PrimaryPN, PrimaryDeliver
<1>2. ASSUME NEW h \in Helpers, HelperStep(h) PROVE ~renewed /\ (reset' => reset)
  BY <1>2 DEF HelperStep, SubmitLook, SubmitLate, SubmitDup, SubmitPass, SubmitReplay,
     SubmitEnqueue, SubmitNoFrame
<1>3. CASE DrainStep
  BY <1>3 DEF DrainStep, DrainDup, DrainTake, DrainClaim, DrainLook, DrainLate, DrainDecrypt,
     DrainUndecryptable, DrainDeliver
<1>4. CASE Window
  BY <1>4 DEF Window, Timer, TimerExpires, Handler, HandlerStopped, CancelTimer
<1>5. CASE Renew
  BY <1>5 DEF Renew
<1>6. CASE Rebind \/ UNCHANGED mergeVars
  BY <1>6 DEF Rebind, mergeVars
<1>. QED
  BY <1>1, <1>2, <1>3, <1>4, <1>5, <1>6 DEF MergeNext

\* What was found late stays behind the window, and what is found late is.
LEMMA MonoStep ==
  ASSUME IInv, WindowInv, ShortStream, MonoInv, [MergeNext]_mergeVars
  PROVE  MonoInv'
<1>. SUFFICES ASSUME ~renewed' PROVE RangeInv' /\ LateInv'
  BY DEF MonoInv
<1>1. RangeInv /\ LateInv /\ (reset' => reset)
  BY NoNewAgreement DEF MonoInv
<1>2. /\ RangeInv'
      /\ indicate_seq # Unset => indicate_seq' # Unset /\ indicate_seq <= indicate_seq'
  BY <1>1, MergeStepIsWindowStep, WindowGrows
<1>3. /\ indicate_seq # Unset => indicate_seq \in Int
      /\ indicate_seq' # Unset => indicate_seq' \in Int
  <2>1. WindowInv'
    BY MergeStepIsWindowStep, WindowStep
  <2>. QED
    BY <2>1, HalfLemma DEF WindowInv, TypeOK
<1>4. \A h \in Helpers : snum[h] \in Int
  BY ReorderAssumption DEF IInv, MergeTypeOK, MaybeNumber, Numbers, None
<1>5. tnum \in Int
  BY ReorderAssumption DEF IInv, MergeTypeOK, MaybeNumber, Numbers, None
<1>6. ASSUME UNCHANGED <<spc, snum>>
      PROVE  \A h \in Helpers : spc'[h] = "late" => indicate_seq' # Unset /\ snum'[h] < indicate_seq'
  BY <1>1, <1>2, <1>3, <1>4, <1>6 DEF LateInv
<1>7. ASSUME UNCHANGED <<tpc, tnum>>
      PROVE  tpc' = "late" => indicate_seq' # Unset /\ tnum' < indicate_seq'
  BY <1>1, <1>2, <1>3, <1>5, <1>7 DEF LateInv
<1>8. CASE PrimaryStep \/ Window \/ Renew \/ Rebind \/ UNCHANGED mergeVars
  <2>1. UNCHANGED <<spc, snum, tpc, tnum>>
    BY <1>8 DEF PrimaryStep, PrimaryDup, PrimaryPass, PrimaryWrite, PrimaryPN, PrimaryDeliver, Window,
       Renew, Rebind, mergeVars, helpVars, drainVars
  <2>. QED
    BY <1>2, <1>6, <1>7, <2>1 DEF LateInv
<1>9. ASSUME NEW h \in Helpers, HelperStep(h) PROVE RangeInv' /\ LateInv'
  <2>1. UNCHANGED <<tpc, tnum, indicate_seq>>
    BY <1>9 DEF HelperStep, SubmitLook, SubmitLate, SubmitDup, SubmitPass, SubmitReplay,
       SubmitEnqueue, SubmitNoFrame, SubmitEnd, drainVars, windowVars
  <2>2. CASE UNCHANGED <<spc, snum>>
    BY <1>2, <1>6, <1>7, <2>1, <2>2 DEF LateInv
  <2>3. ASSUME NEW at \in {"idle", "pn", "late"}, NEW n,
               spc' = [spc EXCEPT ![h] = at], snum' = [snum EXCEPT ![h] = n],
               at = "late" => indicate_seq # Unset /\ n < indicate_seq
        PROVE  RangeInv' /\ LateInv'
    <3>1. ASSUME NEW g \in Helpers, spc'[g] = "late"
          PROVE  indicate_seq' # Unset /\ snum'[g] < indicate_seq'
      <4>1. spc \in [Helpers -> {"idle", "late", "pn"}] /\ snum \in [Helpers -> MaybeNumber]
        BY DEF IInv, MergeTypeOK
      <4>2. CASE g = h
        BY <2>1, <2>3, <3>1, <4>1, <4>2
      <4>3. CASE g # h
        BY <1>1, <2>1, <2>3, <3>1, <4>1, <4>3 DEF LateInv
      <4>. QED
        BY <4>2, <4>3
    <3>. QED
      BY <1>2, <1>7, <2>1, <3>1 DEF LateInv
  <2>4. ASSUME NEW n \in Numbers, SubmitLook(h, n) \/ SubmitDup(h, n) \/ SubmitPass(h, n)
        PROVE  RangeInv' /\ LateInv'
    <3>1. CASE SubmitLook(h, n)
      BY <2>3, <3>1, BehindIsLess DEF SubmitLook
    <3>2. CASE SubmitDup(h, n)
      BY <2>2, <3>2 DEF SubmitDup, helpVars
    <3>3. CASE SubmitPass(h, n)
      BY <2>3, <3>3 DEF SubmitPass
    <3>. QED
      BY <2>4, <3>1, <3>2, <3>3
  <2>5. CASE SubmitLate(h) \/ SubmitReplay(h) \/ SubmitEnqueue(h) \/ SubmitNoFrame(h)
    BY <2>3, <2>5 DEF SubmitLate, SubmitReplay, SubmitEnqueue, SubmitNoFrame, SubmitEnd
  <2>. QED
    BY <1>9, <2>4, <2>5 DEF HelperStep
<1>10. CASE DrainStep
  <2>1. UNCHANGED <<spc, snum>>
    BY <1>10 DEF DrainStep, DrainDup, DrainTake, DrainClaim, DrainLook, DrainLate, DrainDecrypt,
       DrainUndecryptable, DrainDeliver, DrainEnd, helpVars
  <2>2. CASE UNCHANGED <<tpc, tnum>>
    BY <1>2, <1>6, <1>7, <2>1, <2>2 DEF LateInv
  <2>3. CASE tpc' # "late"
    BY <1>2, <1>6, <2>1, <2>3 DEF LateInv
  <2>4. CASE DrainLook
    <3>1. tnum \in Numbers /\ UNCHANGED <<tnum, indicate_seq>> /\ Behind(tnum)
      BY <2>4, LateHasFrame DEF DrainLook, windowVars
    <3>. QED
      BY <1>2, <1>6, <2>1, <3>1, BehindIsLess DEF LateInv
  <2>5. \/ UNCHANGED <<tpc, tnum>> \/ tpc' # "late" \/ DrainLook
    <3>1. flow.crypt # "late"
      BY MergeAssumption DEF IInv, MergeTypeOK
    <3>. QED
      BY <1>10, <3>1 DEF DrainStep, DrainDup, DrainTake, DrainClaim, DrainLate, DrainDecrypt,
         DrainUndecryptable, DrainDeliver, DrainEnd
  <2>. QED
    BY <2>2, <2>3, <2>4, <2>5
<1>. QED
  BY <1>8, <1>9, <1>10 DEF MergeNext

\* Within half a round of the sequence numbers, where no frame can be mistaken
\* for one of the next round, and while the first agreement stands: what submit
\* and the tasklet drop for a window start they read without its lock, however
\* long ago that was, is what the window would refuse under its lock.
THEOREM WindowDropsAreOld == ASSUME ShortStream PROVE MergeSpec => WindowDropsOnlyOld
<1>1. IInv /\ WindowInv /\ MonoInv =>
        [\A n \in Numbers : DroppedForWindow(n) /\ ~renewed => Late(Start, Sn(n))]_mergeVars
  <2>. SUFFICES ASSUME IInv, WindowInv, MonoInv, NEW n \in Numbers, DroppedForWindow(n), ~renewed
                PROVE  Late(Start, Sn(n))
    OBVIOUS
  <2>1. RangeInv /\ LateInv
    BY DEF MonoInv
  <2>2. indicate_seq # Unset /\ n < indicate_seq
    BY <2>1 DEF DroppedForWindow, SubmitLate, DrainLate, LateInv
  <2>. QED
    BY <2>1, <2>2, BehindIsLess
<1>2. IInv /\ WindowInv /\ MonoInv /\ [MergeNext]_mergeVars => MonoInv'
  BY MonoStep
<1>. QED
  BY <1>1, <1>2, InductiveIInv, MergeUsesWindow, InductiveWindowInv, InitMonoInv, PTL
     DEF MergeSpec, WindowDropsOnlyOld
=============================================================================
