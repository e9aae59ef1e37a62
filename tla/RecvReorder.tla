---------------------------- MODULE RecvReorder ----------------------------
(***************************************************************************)
(* The receive reorder window of one TID of a station                      *)
(* (recv_indicatepkt_reorder() and the reordering timer, core/rtw_recv.c). *)
(* Cooperative RX merges the helpers' frames into the primary's stream     *)
(* here: the primary's receive softirq and the drain tasklet call it, on   *)
(* different CPUs, while the timer runs on a third.                        *)
(*                                                                         *)
(* A frame is the number n the sender gave it; all the code sees is its    *)
(* 12-bit sequence number n % SN_MOD.  The Block Ack agreement stands      *)
(* (enable is _TRUE); it may be renegotiated.                              *)
(***************************************************************************)
EXTENDS Integers, Sequences, FiniteSetsExt

CONSTANTS
  Contexts,   \* the callers: the primary's softirq, the drain tasklet
  SN_MOD,     \* 4096: sequence numbers are 12 bits wide
  WSize,      \* wsize_b, 64
  Lag,        \* how far behind the newest frame a copy may arrive
  Jump,       \* how far ahead of the newest frame the next one may be
  MaxSN       \* bound: the last number the sender uses

ASSUME ReorderAssumption ==
  /\ SN_MOD \in Nat \ {0} /\ SN_MOD % 2 = 0
  /\ WSize \in Nat \ {0}
  /\ Lag \in Nat /\ Jump \in Nat \ {0} /\ MaxSN \in Nat
  /\ Lag + Jump < SN_MOD \div 2
  /\ WSize + Jump <= SN_MOD \div 2

VARIABLES
  indicate_seq,   \* start of the window, or Unset (0xFFFF)
  pending,        \* pending_recvframe_queue, in list order
  waiting,        \* bReorderWaiting
  reset,          \* RTW_RECV_ACK_OR_TIMEOUT in rec_abba_rsp_ack
  armed,          \* reordering_ctrl_timer is pending
  running,        \* its handler has been called
  stopped,        \* RTW_CANNOT_RUN(padapter)
  pc,             \* "cancel": between the unlock and _cancel_timer_ex()
  newest,         \* the highest number that has arrived (environment)
  last            \* the last number passed up since the window was reset

timerVars == <<waiting, armed, running>>
vars == <<indicate_seq, pending, timerVars, reset, stopped, pc, newest, last>>

Unset   == -1
Numbers == 0..MaxSN
Sn(n)   == n % SN_MOD

-----------------------------------------------------------------------------
(***************************************************************************)
(* Serial number arithmetic and the window.                                *)
(***************************************************************************)

\* Faulty variant: the comparison does not wrap.
SN_LESSPlain(a, b) == a < b

\* Bit 11 of the difference.
SN_LESS(a, b) == (a - b) % SN_MOD >= SN_MOD \div 2

\* check_indicate_seq(): where the window starts when s arrives ...
WinStart(ind, s) == IF ind = Unset THEN s ELSE ind

\* Faulty variant: the frame just before the window start still counts as in it.
LateByTwo(ind, s) == SN_LESS((s + 1) % SN_MOD, WinStart(ind, s))

Late(ind, s) == SN_LESS(s, WinStart(ind, s))

\* Faulty variant: the window start is not wrapped below zero.
SlideNoWrap(ind, s) ==
  LET start == WinStart(ind, s)
      wend  == (start + WSize - 1) % SN_MOD
  IN  IF s = start THEN (start + 1) % SN_MOD
      ELSE IF SN_LESS(wend, s) THEN s + 1 - WSize
      ELSE start

\* ... and where it starts after s has moved it.
Slide(ind, s) ==
  LET start == WinStart(ind, s)
      wend  == (start + WSize - 1) % SN_MOD
  IN  IF s = start THEN (start + 1) % SN_MOD
      ELSE IF ~SN_LESS(wend, s) THEN start
      ELSE IF s >= WSize - 1 THEN s + 1 - WSize
      ELSE (SN_MOD - 1) - (WSize - (s + 1)) + 1

\* Faulty variant: the place in the list is found without wrapping.
PlacePlain(q, s) ==
  Min({k \in 1..Len(q) : Sn(q[k]) >= s} \cup {Len(q) + 1})

\* enqueue_reorder_recvframe(): the place of s in the list q, which may be taken.
Place(q, s) ==
  Min({k \in 1..Len(q) : ~SN_LESS(Sn(q[k]), s)} \cup {Len(q) + 1})

Taken(q, s) == LET k == Place(q, s) IN k <= Len(q) /\ Sn(q[k]) = s

Insert(q, n) ==
  LET k == Place(q, Sn(n))
  IN  SubSeq(q, 1, k - 1) \o <<n>> \o SubSeq(q, k, Len(q))

\* The loop of recv_indicatepkts_in_order() from window start ind over q: the
\* window start once k frames have been looked at, ...
StartAfter(ind, q) ==
  LET start[k \in 0..Len(q)] ==
        IF k = 0 THEN ind
        ELSE IF start[k - 1] = Sn(q[k]) THEN (start[k - 1] + 1) % SN_MOD
        ELSE start[k - 1]
  IN  start

\* ... and, since it ends at the first frame ahead of the window start, the
\* frames passed up, the ones that stay, and the new window start.
InOrder(ind, q) ==
  LET start == StartAfter(ind, q)
      k == Min({j \in 0..(Len(q) - 1) : SN_LESS(start[j], Sn(q[j + 1]))}
               \cup {Len(q)})
  IN  [up |-> SubSeq(q, 1, k), left |-> SubSeq(q, k + 1, Len(q)), start |-> start[k]]

\* The last number passed up after the frames in up, or Disorder once a frame
\* goes up behind another one or for the second time.
Disorder == -2
LastUp(from, up) ==
  IF up = <<>> THEN from
  ELSE IF up[1] > from /\ \A i \in 1..(Len(up) - 1) : up[i] < up[i + 1]
       THEN up[Len(up)] ELSE Disorder

-----------------------------------------------------------------------------
(***************************************************************************)
(* recv_indicatepkt_reorder() in context c: the section under the lock.    *)
(***************************************************************************)
\* The reset bit is consumed; the numbering of the stream starts afresh.
Start == IF reset THEN Unset ELSE indicate_seq
From  == IF reset THEN -1 ELSE last

\* The frame is behind the window, or already in the list (which it has moved
\* the window for): it goes back to the caller.
Refuse(c, n) ==
  /\ Late(Start, Sn(n)) \/ Taken(pending, Sn(n))
  /\ indicate_seq' = IF Late(Start, Sn(n)) THEN Start ELSE Slide(Start, Sn(n))
  /\ last' = From
  /\ UNCHANGED <<pending, timerVars, pc>>

\* The frame joins the list, and what is in order leaves it.  With frames left
\* the timer is set, unless somebody already waits; with none left it will be
\* cancelled, after the unlock.
Accept(c, n) ==
  /\ ~Late(Start, Sn(n)) /\ ~Taken(pending, Sn(n))
  /\ LET r == InOrder(Slide(Start, Sn(n)), Insert(pending, n))
     IN  /\ indicate_seq' = r.start
         /\ pending' = r.left
         /\ last' = LastUp(From, r.up)
         /\ waiting' = (r.left # <<>>)
         /\ armed' = (armed \/ (r.left # <<>> /\ ~waiting))
         /\ pc' = [pc EXCEPT ![c] = IF r.left = <<>> THEN "cancel" ELSE "idle"]
         /\ UNCHANGED running

Indicate(c, n) ==
  /\ pc[c] = "idle"
  /\ n >= newest - Lag /\ n <= newest + Jump
  /\ newest' = IF n > newest THEN n ELSE newest
  /\ reset' = FALSE
  /\ Refuse(c, n) \/ Accept(c, n)
  /\ UNCHANGED stopped

\* del_timer_sync(), without the lock: it waits for a running handler.
CancelTimer(c) ==
  /\ pc[c] = "cancel"
  /\ ~running
  /\ armed' = FALSE
  /\ pc' = [pc EXCEPT ![c] = "idle"]
  /\ UNCHANGED <<indicate_seq, pending, waiting, reset, running, stopped, newest, last>>

-----------------------------------------------------------------------------
(***************************************************************************)
(* The timer: the kernel calls the handler, the handler takes the lock.    *)
(***************************************************************************)
TimerExpires ==
  /\ armed /\ ~running
  /\ armed' = FALSE
  /\ running' = TRUE
  /\ UNCHANGED <<indicate_seq, pending, waiting, reset, stopped, pc, newest, last>>

\* Faulty variant: the handler does not set the timer for what is still held.
HandlerNoRearm ==
  /\ running /\ ~stopped
  /\ running' = FALSE
  /\ waiting' = FALSE
  /\ IF pending = <<>>
     THEN UNCHANGED <<armed, indicate_seq, pending, last>>
     ELSE LET r == InOrder(Sn(Head(pending)), pending)
          IN  /\ indicate_seq' = r.start
              /\ pending' = r.left
              /\ last' = LastUp(last, r.up)
              /\ UNCHANGED armed
  /\ UNCHANGED <<reset, stopped, pc, newest>>

\* Faulty variant: the handler does not force the window up to the first frame.
HandlerUnforced ==
  /\ running /\ ~stopped
  /\ running' = FALSE
  /\ waiting' = FALSE
  /\ LET r == InOrder(indicate_seq, pending)
     IN  /\ indicate_seq' = r.start
         /\ pending' = r.left
         /\ last' = LastUp(last, r.up)
         /\ armed' = TRUE
  /\ UNCHANGED <<reset, stopped, pc, newest>>

\* rtw_reordering_ctrl_timeout_handler(): the window moves to the first frame
\* held.  It sets the timer again if frames are left, and if it found none.
Handler ==
  /\ running /\ ~stopped
  /\ running' = FALSE
  /\ waiting' = FALSE
  /\ IF pending = <<>>
     THEN armed' = TRUE /\ UNCHANGED <<indicate_seq, pending, last>>
     ELSE LET r == InOrder(Sn(Head(pending)), pending)
          IN  /\ indicate_seq' = r.start
              /\ pending' = r.left
              /\ last' = LastUp(last, r.up)
              /\ armed' = (armed \/ r.left # <<>>)
  /\ UNCHANGED <<reset, stopped, pc, newest>>

HandlerStopped ==
  /\ running /\ stopped
  /\ running' = FALSE
  /\ UNCHANGED <<indicate_seq, pending, waiting, armed, reset, stopped, pc, newest, last>>

-----------------------------------------------------------------------------
\* add_ba_rsp_hdl() in the command thread: a new agreement was accepted.
AddBaRsp ==
  /\ ~reset
  /\ reset' = TRUE
  /\ UNCHANGED <<indicate_seq, pending, timerVars, stopped, pc, newest, last>>

\* External: the adapter is removed or the driver stopped.
Stop ==
  /\ ~stopped
  /\ stopped' = TRUE
  /\ UNCHANGED <<indicate_seq, pending, timerVars, reset, pc, newest, last>>

\* The station was allocated and the first agreement accepted.
Init ==
  /\ indicate_seq = Unset
  /\ pending = <<>>
  /\ waiting = FALSE /\ armed = FALSE /\ running = FALSE
  /\ reset = TRUE
  /\ stopped = FALSE
  /\ pc = [c \in Contexts |-> "idle"]
  /\ newest = -1
  /\ last = -1

Timer == TimerExpires \/ Handler \/ HandlerStopped

Next ==
  \/ \E c \in Contexts : CancelTimer(c) \/ \E n \in Numbers : Indicate(c, n)
  \/ Timer
  \/ AddBaRsp
  \/ Stop

Spec == Init /\ [][Next]_vars

(***************************************************************************)
(* The kernel calls the handler of a timer that stays set, the handler     *)
(* ends, and a caller that left the lock goes on to cancel the timer.      *)
(* Nothing is assumed of frames arriving.                                  *)
(***************************************************************************)
Fairness == WF_vars(Timer) /\ \A c \in Contexts : WF_vars(CancelTimer(c))

FairSpec == Spec /\ Fairness

-----------------------------------------------------------------------------
(***************************************************************************)
(* Properties.                                                             *)
(***************************************************************************)
TypeOK ==
  /\ indicate_seq \in (0..(SN_MOD - 1)) \cup {Unset}
  /\ pending \in Seq(Numbers)
  /\ waiting \in BOOLEAN /\ armed \in BOOLEAN /\ running \in BOOLEAN
  /\ reset \in BOOLEAN /\ stopped \in BOOLEAN
  /\ pc \in [Contexts -> {"idle", "cancel"}]
  /\ newest \in -1..MaxSN
  /\ last \in -1..MaxSN

\* The list is in the order the sender used, across the wrap of the sequence
\* numbers and across a reset of the window, it never holds a frame twice, and
\* it never holds more than a window of frames and the reach of a late one.
BufferOrdered ==
  /\ \A i, j \in 1..Len(pending) : i < j => pending[i] < pending[j]
  /\ Len(pending) <= WSize + Lag

\* A frame in the list has the timer behind it: it is set, or its handler is
\* about to run.  The timer is set under the lock and cancelled outside of it,
\* so this rests on there being one caller.
TimerCovers == pending # <<>> => armed \/ running \/ stopped

\* The stack gets the frames in the sender's order and none of them twice,
\* between one agreement and the next: the window on 12-bit numbers implements
\* the stream on the sender's own numbers.
Stream == INSTANCE InOrderStream WITH
            last <- last, renewed <- reset,
            held <- {pending[i] : i \in 1..Len(pending)}
PassedUpInOrder == Stream!Spec

\* "Timer: 50ms timeout forces delivery of buffered frames": every frame in the
\* list leaves it, without another frame having to arrive, unless agreements are
\* renegotiated for ever (each of them may take the window back behind it).
Held(n) == \E i \in 1..Len(pending) : pending[i] = n

BufferedLeaves ==
  <>[][~AddBaRsp]_vars => \A n \in Numbers : Held(n) ~> (stopped \/ ~Held(n))
=============================================================================
