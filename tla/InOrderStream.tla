--------------------------- MODULE InOrderStream ---------------------------
(***************************************************************************)
(* What a receive reorder window promises to the network stack.  The       *)
(* sender numbers its frames 0, 1, 2, ...; copies arrive in any order, any *)
(* number of times or never.  Frames are held back or passed up; they are  *)
(* passed up in increasing order, none of them twice, and a frame that is  *)
(* held back can still be passed up in order.  A new Block Ack agreement   *)
(* starts the stream again.                                                *)
(***************************************************************************)
EXTENDS Integers, FiniteSetsExt

CONSTANT Numbers    \* the sender's numbers

VARIABLES
  last,   \* the last frame passed up in this agreement, or -1
  held,   \* the frames held back
  renewed \* a new agreement was accepted and no frame has come since

Init == last = -1 /\ held = {} /\ renewed = TRUE

\* The frames in up leave, from what is there; those after last remain.
PassUp(from, there, up) ==
  /\ up \subseteq there
  /\ \A n \in up : n > from
  /\ last' = IF up = {} THEN from ELSE Max(up)
  /\ held' = there \ up
  /\ \A n \in held' : n > last'

\* A frame arrives and joins those that are held.
Arrive(n) ==
  /\ ~renewed /\ UNCHANGED renewed
  /\ \E up \in SUBSET (held \cup {n}) : PassUp(last, held \cup {n}, up)

\* The window is forced to move on without a frame arriving.
Flush ==
  /\ UNCHANGED renewed
  /\ \E up \in SUBSET held : PassUp(last, held, up)

Renew == ~renewed /\ renewed' = TRUE /\ UNCHANGED <<last, held>>

\* The first frame of a new agreement: what was passed up before is forgotten.
Restart(n) ==
  /\ renewed /\ renewed' = FALSE
  /\ \E up \in SUBSET (held \cup {n}) : PassUp(-1, held \cup {n}, up)

Next == Flush \/ Renew \/ \E n \in Numbers : Arrive(n) \/ Restart(n)

Spec == Init /\ [][Next]_<<last, held, renewed>>
=============================================================================
