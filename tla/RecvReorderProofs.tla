------------------------- MODULE RecvReorderProofs -------------------------
(***************************************************************************)
(* Theorems about RecvReorder, whatever the window, the frames and the     *)
(* modulus are.  With one caller, the timer stands behind every frame in   *)
(* the list.  With any number of them, the window implements the stream    *)
(* of InOrderStream.                                                       *)
(***************************************************************************)
EXTENDS RecvReorderLemmas

\* Somebody waits only for a timer, and a caller about to cancel the timer has
\* left the list empty and nobody waiting.
TimerInv ==
  /\ TimerCovers
  /\ waiting => armed \/ running \/ stopped
  /\ \A c \in Contexts : pc[c] = "cancel" => pending = <<>> /\ ~waiting
  /\ pc \in [Contexts -> {"idle", "cancel"}]

\* The list is empty and nobody waits.
LEMMA InitTimerInv == Init => TimerInv
  BY DEF Init, TimerInv, TimerCovers

\* A call of recv_indicatepkt_reorder() is the only one: the caller itself is
\* the only context that could be about to cancel the timer.
LEMMA IndicateTimerInv ==
  ASSUME NEW c \in Contexts, Contexts = {c}, NEW n \in Numbers, TimerInv, Indicate(c, n)
  PROVE  TimerInv'
<1>1. CASE Refuse(c, n)
  BY <1>1 DEF Indicate, Refuse, TimerInv, TimerCovers, timerVars
<1>2. CASE Accept(c, n)
  <2> DEFINE left == InOrder(Slide(Start, Sn(n)), Insert(pending, n)).left
  <2>1. /\ pending' = left
        /\ waiting' = (left # <<>>)
        /\ armed' = (armed \/ (left # <<>> /\ ~waiting))
        /\ pc' = [pc EXCEPT ![c] = IF left = <<>> THEN "cancel" ELSE "idle"]
        /\ running' = running
        /\ stopped' = stopped
    BY <1>2 DEF Accept, Indicate
  <2> HIDE DEF left
  <2>2. CASE left = <<>>
    BY <2>1, <2>2 DEF TimerInv, TimerCovers
  <2>3. CASE left # <<>>
    <3>1. armed' \/ running' \/ stopped'
      BY <2>1, <2>3 DEF TimerInv
    <3>2. pc'[c] = "idle"
      BY <2>1, <2>3 DEF TimerInv
    <3>. QED
      BY <2>1, <2>3, <3>1, <3>2 DEF TimerInv, TimerCovers
  <2>. QED
    BY <2>2, <2>3
<1>. QED
  BY <1>1, <1>2 DEF Indicate

\* The handler leaves frames behind only with the timer set.
LEMMA HandlerTimerInv == TimerInv /\ Handler => TimerInv'
<1>. SUFFICES ASSUME TimerInv, Handler
              PROVE  TimerInv'
  OBVIOUS
<1>1. CASE pending = <<>>
  BY <1>1 DEF Handler, TimerInv, TimerCovers
<1>2. CASE pending # <<>>
  <2> DEFINE left == InOrder(Sn(Head(pending)), pending).left
  <2>1. /\ pending' = left
        /\ armed' = (armed \/ left # <<>>)
        /\ waiting' = FALSE
        /\ pc' = pc
    BY <1>2 DEF Handler
  <2> HIDE DEF left
  <2>2. \A d \in Contexts : pc[d] # "cancel"
    BY <1>2 DEF TimerInv
  <2>. QED
    BY <2>1, <2>2 DEF TimerInv, TimerCovers
<1>. QED
  BY <1>1, <1>2

\* Every step keeps the invariant when there is one caller.
LEMMA NextTimerInv ==
  ASSUME NEW c0, Contexts = {c0}
  PROVE  TimerInv /\ [Next]_vars => TimerInv'
<1>. SUFFICES ASSUME TimerInv, [Next]_vars
              PROVE  TimerInv'
  OBVIOUS
<1>1. ASSUME NEW c \in Contexts, NEW n \in Numbers, Indicate(c, n)
      PROVE  TimerInv'
  BY <1>1, IndicateTimerInv
<1>2. ASSUME NEW c \in Contexts, CancelTimer(c)
      PROVE  TimerInv'
  BY <1>2 DEF CancelTimer, TimerInv, TimerCovers
<1>3. CASE TimerExpires
  BY <1>3 DEF TimerExpires, TimerInv, TimerCovers
<1>4. CASE Handler
  BY <1>4, HandlerTimerInv
<1>5. CASE HandlerStopped
  BY <1>5 DEF HandlerStopped, TimerInv, TimerCovers
<1>6. CASE AddBaRsp
  BY <1>6 DEF AddBaRsp, TimerInv, TimerCovers, timerVars
<1>7. CASE Stop
  BY <1>7 DEF Stop, TimerInv, TimerCovers, timerVars
<1>8. CASE UNCHANGED vars
  BY <1>8 DEF vars, TimerInv, TimerCovers, timerVars
<1>. QED
  BY <1>1, <1>2, <1>3, <1>4, <1>5, <1>6, <1>7, <1>8 DEF Next, Timer

\* With a single caller of recv_indicatepkt_reorder(), as in the driver without
\* cooperative RX, no frame is ever left in the list without the timer, for any
\* window size, modulus and arrival of frames.
THEOREM OneCallerTimerCovers ==
  ASSUME NEW c0, Contexts = {c0}
  PROVE  Spec => []TimerCovers
<1>1. Init => TimerInv
  BY InitTimerInv
<1>2. TimerInv /\ [Next]_vars => TimerInv'
  BY NextTimerInv
<1>3. TimerInv => TimerCovers
  BY DEF TimerInv
<1>. QED
  BY <1>1, <1>2, <1>3, PTL DEF Spec

-----------------------------------------------------------------------------
(***************************************************************************)
(* The window.  All that is stored is a sequence number of 12 bits.  The   *)
(* invariant says which of the sender's numbers w it stands for: one no    *)
(* further behind the newest frame than the window is wide, or than the    *)
(* copy that restarted it was late.  The frames held are in that range     *)
(* too, so that every comparison of sequence numbers is one of numbers     *)
(* less than half a round apart.                                           *)
(***************************************************************************)
Reach == IF WSize > Lag THEN WSize ELSE Lag

HeldInv ==
  /\ Increasing(pending)
  /\ \A x \in Elems(pending) : x > last /\ x <= newest /\ newest + 2 - Reach <= x

StartInv ==
  /\ indicate_seq = Unset => reset /\ pending = <<>>
  /\ indicate_seq # Unset =>
       \E w \in (newest + 1 - Reach)..(newest + 1) : w > last /\ indicate_seq = Sn(w)

WindowInv == TypeOK /\ HeldInv /\ StartInv

\* The reach fits into half a round, with a jump ahead of it.
LEMMA ReachLemma ==
  Reach \in Nat \ {0} /\ WSize <= Reach /\ Lag <= Reach /\ Reach + Jump <= Half
  BY HalfLemma DEF Reach

\* The frames held are numbers of the sender.
LEMMA HeldType ==
  ASSUME pending \in Seq(Numbers)
  PROVE  Elems(pending) \subseteq Numbers /\ Len(pending) \in Nat /\ pending \in Seq(Int)
<1>1. Numbers \subseteq Int
  BY DEF Numbers
<1>2. pending \in Seq(Int)
  BY <1>1, SeqMonotonic
<1>. QED
  BY <1>2 DEF Elems

\* No window yet and nothing held.
LEMMA InitWindowInv == Init => WindowInv
<1>. SUFFICES ASSUME Init PROVE WindowInv
  OBVIOUS
<1>1. TypeOK
  <2>1. waiting \in BOOLEAN /\ armed \in BOOLEAN /\ running \in BOOLEAN
        /\ reset \in BOOLEAN /\ stopped \in BOOLEAN
    BY Zenon DEF Init
  <2>2. newest \in -1..MaxSN /\ last \in -1..MaxSN /\ pending \in Seq(Numbers)
        /\ pc \in [Contexts -> {"idle", "cancel"}]
    BY ReorderAssumption DEF Init
  <2>. QED
    BY <2>1, <2>2, Zenon DEF TypeOK, Init
<1>2. HeldInv /\ StartInv
  BY DEF Init, HeldInv, StartInv, Increasing, Elems
<1>. QED
  BY <1>1, <1>2 DEF WindowInv

\* The newest number once n has arrived.
Newest(n) == IF n > newest THEN n ELSE newest

\* A frame n arrives.  It is late only if it is old; otherwise the window moves
\* to a number that stands in the same relation to the newest frame as before.
LEMMA Arrival ==
  ASSUME WindowInv, NEW n \in Numbers, n >= newest - Lag, n <= newest + Jump
  PROVE  /\ Near(pending, n)
         /\ Late(Start, Sn(n)) => n <= newest /\ ~reset
         /\ ~Late(Start, Sn(n)) =>
              /\ n > From
              /\ \E w \in (Newest(n) + 1 - Reach)..(Newest(n) + 1) :
                   w > From /\ Slide(Start, Sn(n)) = Sn(w)
<1>. USE HalfLemma, ReachLemma
<1>1. /\ newest \in Int /\ newest >= -1 /\ last \in Int /\ last >= -1 /\ n \in Nat
      /\ pending \in Seq(Numbers) /\ n \in Int
  BY ReorderAssumption DEF WindowInv, TypeOK, Numbers
<1>2. Near(pending, n)
  <2>. SUFFICES ASSUME NEW i \in 1..Len(pending)
                PROVE  pending[i] - n >= -Half /\ pending[i] - n < Half
    BY DEF Near
  <2>1. pending[i] \in Elems(pending) /\ pending[i] \in Int
    BY <1>1, HeldType DEF Elems
  <2>2. pending[i] <= newest /\ newest + 2 - Reach <= pending[i]
    BY <2>1 DEF WindowInv, HeldInv
  <2>. QED
    BY <1>1, <2>1, <2>2
<1>3. CASE Start = Unset
  <2>1. From = -1
    BY <1>3 DEF Start, From, WindowInv, StartInv
  <2>2. ~Late(Start, Sn(n)) /\ Slide(Start, Sn(n)) = Sn(n + 1)
    BY <1>1, <1>3, FirstOfWindow
  <2>3. n + 1 \in (Newest(n) + 1 - Reach)..(Newest(n) + 1) /\ n + 1 > From /\ n > From
    BY <1>1, <2>1 DEF Newest
  <2>. QED
    BY <1>2, <2>2, <2>3
<1>4. CASE Start # Unset
  <2>1. ~reset /\ Start = indicate_seq /\ From = last
    BY <1>4 DEF Start, From
  <2>2. PICK w \in (newest + 1 - Reach)..(newest + 1) : w > last /\ indicate_seq = Sn(w)
    BY <1>4, <2>1 DEF WindowInv, StartInv
  <2>3. w \in Int /\ n - w >= -Half /\ n - w < Half
    BY <1>1
  <2>4. Late(Start, Sn(n)) <=> n < w
    BY <1>1, <2>1, <2>2, <2>3, LateIsBehind
  <2>5. ASSUME n >= w
        PROVE  \E u \in (Newest(n) + 1 - Reach)..(Newest(n) + 1) :
                 u > From /\ Slide(Start, Sn(n)) = Sn(u)
    <3>1. n - w - WSize < Half
      BY <1>1, <2>3
    <3>2. Slide(Start, Sn(n)) = Sn(Moved(w, n))
      BY <1>1, <2>1, <2>2, <2>3, <2>5, <3>1, SlideMoves
    <3>3. Moved(w, n) \in (Newest(n) + 1 - Reach)..(Newest(n) + 1) /\ Moved(w, n) > From
      BY <1>1, <2>1, <2>2, <2>3, <2>5 DEF Moved, Newest
    <3>. QED
      BY <3>2, <3>3
  <2>. QED
    BY <1>1, <1>2, <2>1, <2>2, <2>3, <2>4, <2>5
<1>. QED
  BY <1>3, <1>4

-----------------------------------------------------------------------------
(***************************************************************************)
(* The steps, each with its step of the abstract stream.                   *)
(***************************************************************************)
StreamVars == <<last, Elems(pending), reset>>

\* A frame has arrived and the frames in up have left.
LEMMA ArriveStep ==
  ASSUME NEW n \in Numbers, NEW up \in SUBSET (Elems(pending) \cup {n}),
         reset \in BOOLEAN, reset' = FALSE,
         \A x \in up : x > From,
         last' = IF up = {} THEN From ELSE Max(up),
         Elems(pending') = (Elems(pending) \cup {n}) \ up,
         \A x \in Elems(pending') : x > last'
  PROVE  Stream!Next
<1>1. Stream!PassUp(From, Elems(pending) \cup {n}, up)
  BY DEF Stream!PassUp, Elems, Max, Stream!Max
<1>2. CASE reset
  <2>1. Stream!PassUp(-1, Elems(pending) \cup {n}, up)
    BY <1>1, <1>2 DEF From
  <2>2. Stream!Restart(n)
    BY <1>2, <2>1 DEF Stream!Restart, Elems
  <2>. QED
    BY <2>2 DEF Stream!Next
<1>3. CASE ~reset
  <2>1. Stream!PassUp(last, Elems(pending) \cup {n}, up)
    BY <1>1, <1>3 DEF From
  <2>2. Stream!Arrive(n)
    BY <1>3, <2>1 DEF Stream!Arrive, Elems
  <2>. QED
    BY <2>2 DEF Stream!Next
<1>. QED
  BY <1>2, <1>3

\* The timer has forced the frames in up to leave.
LEMMA FlushStep ==
  ASSUME NEW up \in SUBSET Elems(pending), UNCHANGED reset,
         \A x \in up : x > last,
         last' = IF up = {} THEN last ELSE Max(up),
         Elems(pending') = Elems(pending) \ up,
         \A x \in Elems(pending') : x > last'
  PROVE  Stream!Next
<1>1. Stream!PassUp(last, Elems(pending), up)
  BY DEF Stream!PassUp, Elems, Max, Stream!Max
<1>2. Stream!Flush
  BY <1>1 DEF Stream!Flush, Elems
<1>. QED
  BY <1>2 DEF Stream!Next

\* The frame goes back to the caller: the window may have moved for it, and an
\* agreement may have begun, but the list is what it was.
LEMMA RefuseStep ==
  ASSUME WindowInv, NEW c \in Contexts, NEW n \in Numbers, Indicate(c, n), Refuse(c, n)
  PROVE  WindowInv' /\ [Stream!Next]_StreamVars
<1>. USE HalfLemma, ReachLemma
<1>1. /\ n >= newest - Lag /\ n <= newest + Jump /\ newest' = Newest(n)
      /\ UNCHANGED <<pending, waiting, armed, running, stopped, pc>>
      /\ reset' = FALSE /\ last' = From
      /\ indicate_seq' = IF Late(Start, Sn(n)) THEN Start ELSE Slide(Start, Sn(n))
      /\ Late(Start, Sn(n)) \/ Taken(pending, Sn(n))
  BY DEF Indicate, Refuse, Newest, timerVars
<1>2. /\ newest \in -1..MaxSN /\ last \in -1..MaxSN /\ n \in 0..MaxSN /\ n \in Int
      /\ pending \in Seq(Numbers) /\ MaxSN \in Nat /\ reset \in BOOLEAN
  BY ReorderAssumption DEF WindowInv, TypeOK, Numbers
<1>3. /\ Near(pending, n)
      /\ Late(Start, Sn(n)) => n <= newest /\ ~reset
      /\ ~Late(Start, Sn(n)) =>
           \E w \in (Newest(n) + 1 - Reach)..(Newest(n) + 1) :
             w > From /\ Slide(Start, Sn(n)) = Sn(w)
  BY <1>1, Arrival
<1>4. Elems(pending) \subseteq Numbers /\ pending \in Seq(Int) /\ Increasing(pending)
  BY <1>2, HeldType DEF WindowInv, HeldInv
<1>5. ~Late(Start, Sn(n)) => n \in Elems(pending)
  BY <1>1, <1>2, <1>3, <1>4, TakenLemma
<1>6. n <= newest /\ Newest(n) = newest
  <2>1. n \in Elems(pending) => n <= newest
    BY DEF WindowInv, HeldInv
  <2>. QED
    BY <1>2, <1>3, <1>5, <2>1 DEF Newest
<1>7. From \in -1..MaxSN /\ From <= last
  BY <1>2 DEF From
<1>8. \A x \in Elems(pending) : x \in Int /\ x > From /\ x <= newest /\ newest + 2 - Reach <= x
  BY <1>2, <1>4, <1>7 DEF WindowInv, HeldInv, Numbers
<1>9. HeldInv'
  <2>1. Increasing(pending') /\ Elems(pending') = Elems(pending) /\ newest' = newest
    BY <1>1, <1>4, <1>6
  <2>. QED
    BY <1>1, <1>8, <2>1 DEF HeldInv
<1>10. CASE Late(Start, Sn(n))
  <2>1. ~reset /\ Start = indicate_seq /\ From = last
    BY <1>3, <1>10 DEF Start, From
  <2>2. UNCHANGED <<indicate_seq, pending, waiting, armed, running, stopped, pc, reset, last, newest>>
    BY <1>1, <1>2, <1>6, <1>10, <2>1
  <2>3. TypeOK'
    BY <2>2, Zenon DEF WindowInv, TypeOK
  <2>4. StartInv'
    BY <2>2 DEF WindowInv, StartInv
  <2>5. UNCHANGED StreamVars
    BY <2>2 DEF StreamVars, Elems
  <2>. QED
    BY <1>9, <2>3, <2>4, <2>5 DEF WindowInv
<1>11. CASE ~Late(Start, Sn(n))
  <2>1. PICK w \in (newest + 1 - Reach)..(newest + 1) : w > From /\ Slide(Start, Sn(n)) = Sn(w)
    BY <1>3, <1>6, <1>11
  <2>2. indicate_seq' = Sn(w) /\ newest' = newest /\ w > last' /\ w \in Int
    BY <1>1, <1>2, <1>6, <1>11, <2>1
  <2>3. Sn(w) \in 0..(SN_MOD - 1) /\ Sn(w) # Unset
    BY <2>2, SnType DEF Unset
  <2>4. StartInv'
    BY <2>2, <2>3 DEF StartInv
  <2>5. TypeOK'
    <3>1. indicate_seq' \in (0..(SN_MOD - 1)) \cup {Unset} /\ last' \in -1..MaxSN
          /\ reset' \in BOOLEAN
      BY <1>1, <1>7, <2>2, <2>3
    <3>. QED
      BY <1>1, <2>2, <3>1, Zenon DEF WindowInv, TypeOK
  <2>6. Stream!Next
    <3>. DEFINE up == {}
    <3>1. Elems(pending) \cup {n} = Elems(pending) /\ Elems(pending') = Elems(pending)
      BY <1>1, <1>5, <1>11
    <3>2. \A x \in Elems(pending') : x > last'
      BY <1>1, <1>8, <3>1
    <3>3. up \in SUBSET (Elems(pending) \cup {n}) /\ \A x \in up : x > From
      OBVIOUS
    <3>4. last' = IF up = {} THEN From ELSE Max(up)
      BY <1>1
    <3>5. Elems(pending') = (Elems(pending) \cup {n}) \ up
      BY <3>1
    <3>6. reset \in BOOLEAN /\ reset' = FALSE
      BY <1>1, <1>2
    <3>. HIDE DEF up
    <3>. QED
      BY <3>2, <3>3, <3>4, <3>5, <3>6, ArriveStep
  <2>. QED
    BY <1>9, <2>4, <2>5, <2>6 DEF WindowInv
<1>. QED
  BY <1>10, <1>11

\* The frame joins the list and the window moves over what is in order.
LEMMA AcceptStep ==
  ASSUME WindowInv, NEW c \in Contexts, NEW n \in Numbers, Indicate(c, n), Accept(c, n)
  PROVE  WindowInv' /\ [Stream!Next]_StreamVars
<1>. USE HalfLemma, ReachLemma
<1>. DEFINE q == Insert(pending, n)
            r == InOrder(Slide(Start, Sn(n)), q)
<1>1. /\ n >= newest - Lag /\ n <= newest + Jump /\ newest' = Newest(n)
      /\ ~Late(Start, Sn(n)) /\ ~Taken(pending, Sn(n))
      /\ reset' = FALSE
      /\ UNCHANGED <<running, stopped>>
      /\ indicate_seq' = r.start /\ pending' = r.left /\ last' = LastUp(From, r.up)
      /\ waiting' = (r.left # <<>>)
      /\ armed' = (armed \/ (r.left # <<>> /\ ~waiting))
      /\ pc' = [pc EXCEPT ![c] = IF r.left = <<>> THEN "cancel" ELSE "idle"]
  BY DEF Indicate, Accept, Newest
<1>2. /\ newest \in -1..MaxSN /\ last \in -1..MaxSN /\ n \in 0..MaxSN /\ n \in Int
      /\ pending \in Seq(Numbers) /\ MaxSN \in Nat /\ reset \in BOOLEAN
  BY ReorderAssumption DEF WindowInv, TypeOK, Numbers
<1>3. /\ Near(pending, n) /\ n > From
      /\ \E w \in (Newest(n) + 1 - Reach)..(Newest(n) + 1) :
           w > From /\ Slide(Start, Sn(n)) = Sn(w)
  BY <1>1, Arrival
<1>4. Elems(pending) \subseteq Numbers /\ pending \in Seq(Int) /\ Increasing(pending)
  BY <1>2, HeldType DEF WindowInv, HeldInv
<1>5. n \notin Elems(pending)
  BY <1>1, <1>2, <1>3, <1>4, TakenLemma
<1>6. /\ q \in Seq(Numbers) /\ Increasing(q) /\ Elems(q) = Elems(pending) \cup {n}
  <2>1. Numbers \in SUBSET Int
    BY DEF Numbers
  <2>. QED
    BY <1>2, <1>3, <1>4, <1>5, <2>1, InsertLemma
<1>7. From \in -1..MaxSN /\ From <= last
  BY <1>2 DEF From
<1>. DEFINE hi == Newest(n)
<1>8. hi \in -1..MaxSN /\ hi \in Int /\ n <= hi /\ newest <= hi /\ hi <= newest + Jump /\ hi <= n + Lag + Jump
      /\ (hi = n \/ hi = newest)
  BY <1>1, <1>2 DEF Newest
<1>. HIDE DEF q, r, hi
<1>9. PICK w \in (hi + 1 - Reach)..(hi + 1) : w > From /\ Slide(Start, Sn(n)) = Sn(w)
  BY <1>3 DEF hi
<1>10. \A x \in Elems(q) : x \in Int /\ x > From /\ x <= hi /\ w - x >= -Half /\ hi + 1 - x < Half
  <2>1. \A x \in Elems(pending) : x \in Int /\ x > last /\ x <= newest /\ newest + 2 - Reach <= x
    BY <1>4 DEF WindowInv, HeldInv, Numbers
  <2>2. \A x \in Elems(pending) : x > From /\ x <= hi /\ w - x >= -Half /\ hi + 1 - x < Half
    BY <1>2, <1>7, <1>8, <1>9, <2>1
  <2>3. n > From /\ n <= hi /\ w - n >= -Half /\ hi + 1 - n < Half
    BY <1>1, <1>2, <1>3, <1>8, <1>9
  <2>. QED
    BY <1>2, <1>6, <2>1, <2>2, <2>3
<1>11. \A i \in 1..Len(q) : q[i] > From /\ q[i] <= hi /\ w - q[i] >= -Half /\ hi + 1 - q[i] < Half
  BY <1>10 DEF Elems
<1>12. PICK v \in w..(hi + 1) :
         /\ r.start = Sn(v)
         /\ r.left \in Seq(Numbers) /\ Increasing(r.left)
         /\ Elems(r.left) = {x \in Elems(q) : x > v}
         /\ Elems(r.up) = {x \in Elems(q) : x < v}
         /\ Elems(r.left) = Elems(q) \ Elems(r.up)
         /\ last' = IF Elems(r.up) = {} THEN From ELSE Max(Elems(r.up))
         /\ last' \in {From} \cup Elems(q)
         /\ last' < v
  <2>1. Numbers \in SUBSET Int /\ w \in Int /\ w <= hi + 1 /\ From \in Int /\ From < w /\ hi \in Int
    BY <1>7, <1>8, <1>9 DEF Numbers
  <2>2. r = InOrder(Sn(w), q) /\ last' = LastUp(From, r.up)
    BY <1>1, <1>9 DEF r
  <2>. QED
    BY <1>6, <1>11, <2>1, <2>2, DeliverLemma
<1>13. v \in Int /\ hi + 1 - Reach <= v /\ v <= hi + 1 /\ newest' = hi
  BY <1>1, <1>8, <1>9 DEF hi
<1>14. Elems(q) \subseteq Numbers
  BY <1>4, <1>6
<1>15. last' \in -1..MaxSN
  BY <1>2, <1>7, <1>12, <1>14 DEF Numbers
<1>16. \A x \in Elems(pending') : x > last' /\ x <= newest' /\ newest' + 2 - Reach <= x
  <2>. SUFFICES ASSUME NEW x \in Elems(pending')
                PROVE  x > last' /\ x <= newest' /\ newest' + 2 - Reach <= x
    OBVIOUS
  <2>1. x \in Elems(q) /\ x > v
    BY <1>1, <1>12
  <2>2. x \in Int /\ x <= hi
    BY <1>10, <2>1
  <2>3. x > last'
    BY <1>12, <1>13, <1>15, <2>1, <2>2
  <2>4. newest' + 2 - Reach <= x
    BY <1>8, <1>13, <2>1, <2>2
  <2>. QED
    BY <1>13, <2>2, <2>3, <2>4
<1>17. HeldInv'
  BY <1>1, <1>12, <1>16 DEF HeldInv
<1>18. StartInv'
  <2>1. indicate_seq' = Sn(v) /\ Sn(v) # Unset
    BY <1>1, <1>12, <1>13, SnType DEF Unset
  <2>2. v > last'
    BY <1>12, <1>13, <1>15
  <2>3. v \in (newest' + 1 - Reach)..(newest' + 1)
    BY <1>8, <1>13
  <2>. QED
    BY <2>1, <2>2, <2>3 DEF StartInv
<1>19. TypeOK'
  <2>1. indicate_seq' \in (0..(SN_MOD - 1)) \cup {Unset}
    BY <1>1, <1>12, <1>13, SnType
  <2>2. newest' \in -1..MaxSN /\ pending' \in Seq(Numbers)
    BY <1>1, <1>8, <1>12, <1>13
  <2>3. waiting' \in BOOLEAN /\ armed' \in BOOLEAN /\ reset' \in BOOLEAN
    BY <1>1, Zenon
  <2>4. pc' \in [Contexts -> {"idle", "cancel"}]
    BY <1>1 DEF WindowInv, TypeOK
  <2>. QED
    BY <1>1, <1>15, <2>1, <2>2, <2>3, <2>4, Zenon DEF WindowInv, TypeOK
<1>20. Stream!Next
  <2>. DEFINE up == Elems(r.up)
  <2>1. up \in SUBSET (Elems(pending) \cup {n}) /\ \A x \in up : x > From
    BY <1>6, <1>10, <1>12
  <2>2. Elems(pending') = (Elems(pending) \cup {n}) \ up
    BY <1>1, <1>6, <1>12
  <2>3. \A x \in Elems(pending') : x > last'
    BY <1>16
  <2>4. last' = IF up = {} THEN From ELSE Max(up)
    BY <1>12
  <2>. HIDE DEF up
  <2>. QED
    BY <1>1, <1>2, <2>1, <2>2, <2>3, <2>4, ArriveStep
<1>. QED
  BY <1>17, <1>18, <1>19, <1>20 DEF WindowInv

\* The timer moves the window to the first frame held, wherever the window was.
LEMMA HandlerStep == ASSUME WindowInv, Handler PROVE WindowInv' /\ [Stream!Next]_StreamVars
<1>. USE HalfLemma, ReachLemma
<1>1. /\ newest \in -1..MaxSN /\ last \in -1..MaxSN
      /\ pending \in Seq(Numbers) /\ MaxSN \in Nat /\ reset \in BOOLEAN
      /\ Elems(pending) \subseteq Numbers /\ pending \in Seq(Int) /\ Increasing(pending)
  BY ReorderAssumption, HeldType DEF WindowInv, TypeOK, HeldInv
<1>2. CASE pending = <<>>
  <2>1. /\ UNCHANGED <<indicate_seq, pending, last, reset, stopped, pc, newest>>
        /\ running' = FALSE /\ waiting' = FALSE /\ armed' = TRUE
    BY <1>2 DEF Handler
  <2>2. TypeOK'
    BY <2>1, Zenon DEF WindowInv, TypeOK
  <2>3. HeldInv' /\ StartInv'
    BY <2>1 DEF WindowInv, HeldInv, StartInv, Elems, Increasing
  <2>4. UNCHANGED StreamVars
    BY <2>1 DEF StreamVars, Elems
  <2>. QED
    BY <2>2, <2>3, <2>4 DEF WindowInv
<1>3. CASE pending # <<>>
  <2>. DEFINE w == Head(pending)
              r == InOrder(Sn(w), pending)
  <2>1. /\ UNCHANGED <<reset, stopped, pc, newest>>
        /\ running' = FALSE /\ waiting' = FALSE
        /\ indicate_seq' = r.start /\ pending' = r.left /\ last' = LastUp(last, r.up)
        /\ armed' = (armed \/ r.left # <<>>)
    BY <1>3 DEF Handler
  <2>2. w \in Elems(pending)
    BY <1>1, <1>3 DEF Elems
  <2>3. \A x \in Elems(pending) : x \in Int /\ x > last /\ x <= newest /\ newest + 2 - Reach <= x
    BY <1>1 DEF WindowInv, HeldInv, Numbers
  <2>. HIDE DEF w, r
  <2>4. w \in Int /\ w > last /\ w <= newest /\ newest + 2 - Reach <= w
    BY <2>2, <2>3
  <2>5. \A x \in Elems(pending) : w - x >= -Half /\ newest + 1 - x < Half
    BY <1>1, <2>3, <2>4
  <2>6. \A i \in 1..Len(pending) :
          pending[i] > last /\ pending[i] <= newest /\ w - pending[i] >= -Half
          /\ newest + 1 - pending[i] < Half
    BY <2>3, <2>5 DEF Elems
  <2>7. PICK v \in w..(newest + 1) :
          /\ r.start = Sn(v)
          /\ r.left \in Seq(Numbers) /\ Increasing(r.left)
          /\ Elems(r.left) = {x \in Elems(pending) : x > v}
          /\ Elems(r.up) = {x \in Elems(pending) : x < v}
          /\ Elems(r.left) = Elems(pending) \ Elems(r.up)
          /\ last' = IF Elems(r.up) = {} THEN last ELSE Max(Elems(r.up))
          /\ last' \in {last} \cup Elems(pending)
          /\ last' < v
    <3>1. Numbers \in SUBSET Int /\ w <= newest + 1 /\ last \in Int /\ newest \in Int
      BY <1>1, <2>4 DEF Numbers
    <3>2. r = InOrder(Sn(w), pending) /\ last' = LastUp(last, r.up)
      BY <2>1 DEF r
    <3>. QED
      BY <1>1, <2>4, <2>6, <3>1, <3>2, DeliverLemma
  <2>8. v \in Int /\ newest + 1 - Reach <= v /\ v <= newest + 1 /\ newest' = newest
    BY <1>1, <2>1, <2>4
  <2>9. last' \in -1..MaxSN
    BY <1>1, <2>7 DEF Numbers
  <2>10. \A x \in Elems(pending') : x > last' /\ x <= newest' /\ newest' + 2 - Reach <= x
    <3>. SUFFICES ASSUME NEW x \in Elems(pending')
                  PROVE  x > last' /\ x <= newest' /\ newest' + 2 - Reach <= x
      OBVIOUS
    <3>1. x \in Elems(pending) /\ x > v
      BY <2>1, <2>7
    <3>2. x \in Int /\ x <= newest
      BY <2>3, <3>1
    <3>3. x > last'
      BY <2>7, <2>8, <2>9, <3>1, <3>2
    <3>4. newest + 2 - Reach <= x
      BY <2>3, <3>1
    <3>. QED
      BY <2>8, <3>2, <3>3, <3>4
  <2>11. HeldInv'
    BY <2>1, <2>7, <2>10 DEF HeldInv
  <2>12. StartInv'
    <3>1. indicate_seq' = Sn(v) /\ Sn(v) # Unset
      BY <2>1, <2>7, <2>8, SnType DEF Unset
    <3>2. v > last'
      BY <2>7, <2>8, <2>9
    <3>3. v \in (newest' + 1 - Reach)..(newest' + 1)
      BY <1>1, <2>8
    <3>. QED
      BY <3>1, <3>2, <3>3 DEF StartInv
  <2>13. TypeOK'
    <3>1. indicate_seq' \in (0..(SN_MOD - 1)) \cup {Unset} /\ pending' \in Seq(Numbers)
      BY <2>1, <2>7, <2>8, SnType
    <3>2. waiting' \in BOOLEAN /\ armed' \in BOOLEAN /\ running' \in BOOLEAN
      BY <2>1, Zenon
    <3>. QED
      BY <2>1, <2>9, <3>1, <3>2, Zenon DEF WindowInv, TypeOK
  <2>14. Stream!Next
    <3>. DEFINE up == Elems(r.up)
    <3>1. up \in SUBSET Elems(pending) /\ \A x \in up : x > last
      BY <2>3, <2>7
    <3>2. Elems(pending') = Elems(pending) \ up
      BY <2>1, <2>7
    <3>3. last' = IF up = {} THEN last ELSE Max(up)
      BY <2>7
    <3>. HIDE DEF up
    <3>. QED
      BY <2>1, <2>10, <3>1, <3>2, <3>3, FlushStep
  <2>. QED
    BY <2>11, <2>12, <2>13, <2>14 DEF WindowInv
<1>. QED
  BY <1>2, <1>3

\* Every step of the window keeps the invariant and is one of the stream, or none.
LEMMA WindowStep ==
  ASSUME WindowInv, [Next]_vars
  PROVE  WindowInv' /\ [Stream!Next]_StreamVars
<1>1. ASSUME NEW c \in Contexts, NEW n \in Numbers, Indicate(c, n)
      PROVE  WindowInv' /\ [Stream!Next]_StreamVars
  BY <1>1, RefuseStep, AcceptStep DEF Indicate
<1>2. CASE Handler
  BY <1>2, HandlerStep
<1>3. CASE \/ \E c \in Contexts : CancelTimer(c)
           \/ TimerExpires \/ HandlerStopped \/ Stop \/ UNCHANGED vars
  <2>1. UNCHANGED <<indicate_seq, pending, reset, newest, last>>
    BY <1>3 DEF CancelTimer, TimerExpires, HandlerStopped, Stop, vars, timerVars
  <2>2. /\ waiting' \in BOOLEAN /\ armed' \in BOOLEAN /\ running' \in BOOLEAN
        /\ stopped' \in BOOLEAN
    BY <1>3, Zenon DEF WindowInv, TypeOK, CancelTimer, TimerExpires, HandlerStopped, Stop,
       vars, timerVars
  <2>3. pc' \in [Contexts -> {"idle", "cancel"}]
    BY <1>3 DEF WindowInv, TypeOK, CancelTimer, TimerExpires, HandlerStopped, Stop, vars,
       timerVars
  <2>4. TypeOK'
    BY <2>1, <2>2, <2>3, Zenon DEF WindowInv, TypeOK
  <2>5. HeldInv' /\ StartInv'
    BY <2>1 DEF WindowInv, HeldInv, StartInv, Elems, Increasing
  <2>6. UNCHANGED StreamVars
    BY <2>1 DEF StreamVars, Elems
  <2>. QED
    BY <2>4, <2>5, <2>6 DEF WindowInv
<1>4. CASE AddBaRsp
  <2>1. /\ UNCHANGED <<indicate_seq, pending, waiting, armed, running, stopped, pc, newest, last>>
        /\ ~reset /\ reset' = TRUE
    BY <1>4 DEF AddBaRsp, timerVars
  <2>2. TypeOK'
    BY <2>1, Zenon DEF WindowInv, TypeOK
  <2>3. HeldInv' /\ StartInv'
    BY <2>1 DEF WindowInv, HeldInv, StartInv, Elems, Increasing
  <2>4. Stream!Renew
    BY <2>1 DEF Stream!Renew
  <2>. QED
    BY <2>2, <2>3, <2>4 DEF WindowInv, Stream!Next
<1>. QED
  BY <1>1, <1>2, <1>3, <1>4 DEF Next, Timer

\* The invariant of the window holds throughout.
LEMMA InductiveWindowInv == Spec => []WindowInv
<1>1. WindowInv /\ [Next]_vars => WindowInv'
  BY WindowStep
<1>. QED
  BY <1>1, InitWindowInv, PTL DEF Spec

-----------------------------------------------------------------------------
\* The window start stays a 12-bit number or unset, the list holds numbers of
\* the sender, and no frame goes up behind another one (last never is Disorder).
THEOREM WindowTypeCorrect == Spec => []TypeOK
<1>1. WindowInv => TypeOK
  BY DEF WindowInv
<1>. QED
  BY <1>1, InductiveWindowInv, PTL

\* For every modulus, window and lateness of frames that half a round can bear,
\* and any number of callers: the list is in the sender's order, holds no frame
\* twice, and stays within a window of frames and the reach of a late one.
THEOREM ListStaysOrdered == Spec => []BufferOrdered
<1>1. WindowInv => BufferOrdered
  <2>. SUFFICES ASSUME WindowInv PROVE BufferOrdered
    OBVIOUS
  <2>1. /\ pending \in Seq(Int) /\ Len(pending) \in Nat /\ Increasing(pending)
        /\ newest \in Int
    BY HeldType DEF WindowInv, TypeOK, HeldInv
  <2>2. Len(pending) <= WSize + Lag
    <3>1. CASE pending = <<>>
      BY <3>1, HalfLemma
    <3>2. CASE pending # <<>>
      <4>1. \A i \in 1..Len(pending) : newest + 2 - Reach <= pending[i] /\ pending[i] <= newest
        BY DEF WindowInv, HeldInv, Elems
      <4>2. newest + 2 - Reach \in Int
        BY <2>1, ReachLemma
      <4>3. Len(pending) <= newest - (newest + 2 - Reach) + 1
        BY <2>1, <3>2, <4>1, <4>2, IncreasingLen
      <4>. QED
        BY <2>1, <4>3, HalfLemma DEF Reach
    <3>. QED
      BY <3>1, <3>2
  <2>. QED
    BY <2>1, <2>2 DEF BufferOrdered, Increasing
<1>. QED
  BY <1>1, InductiveWindowInv, PTL

\* The reorder window on 12-bit sequence numbers implements the stream on the
\* sender's numbers: recv_indicatepkt_reorder() and the timer pass frames up in
\* order and none twice within an agreement, and hold none that no longer can be.
THEOREM WindowImplementsStream == Spec => PassedUpInOrder
<1>1. Init => Stream!Init
  BY DEF Init, Stream!Init
<1>2. WindowInv /\ [Next]_vars => [Stream!Next]_StreamVars
  BY WindowStep
<1>. QED
  BY <1>1, <1>2, InductiveWindowInv, PTL DEF Spec, PassedUpInOrder, Stream!Spec, StreamVars, Elems
=============================================================================
