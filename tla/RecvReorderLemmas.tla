------------------------- MODULE RecvReorderLemmas -------------------------
(***************************************************************************)
(* What the operators of RecvReorder compute.  They work on 12-bit         *)
(* sequence numbers; the lemmas say what that means for the sender's own   *)
(* numbers, as long as the numbers compared are less than half a round     *)
(* apart.                                                                  *)
(***************************************************************************)
EXTENDS RecvReorder, SequenceTheorems, WellFoundedInduction, TLAPS

-----------------------------------------------------------------------------
(***************************************************************************)
(* Least numbers, and induction over an initial segment of the numbers for *)
(* a set (in place of a predicate).                                        *)
(***************************************************************************)
\* Numbers are well founded, so a set of them has a least element.
LEMMA LeastNumber ==
  ASSUME NEW T \in SUBSET Nat, T # {}
  PROVE  \E x \in T : \A y \in T : x <= y
<1>1. PICK x \in T : \A y \in T : <<y, x>> \notin OpToRel(<, Nat)
  BY WFMin, NatLessThanWellFounded, Zenon
<1>2. \A y \in T : ~(y < x)
  BY <1>1 DEF OpToRel
<1>3. x \in Nat /\ \A y \in T : y \in Nat
  OBVIOUS
<1>4. \A y \in T : x <= y
  BY <1>2, <1>3
<1>. QED
  BY <1>4

\* Min is the least element.
LEMMA MinIsLeast ==
  ASSUME NEW T \in SUBSET Nat, T # {}
  PROVE  Min(T) \in T /\ \A y \in T : Min(T) <= y
  BY LeastNumber DEF Min

\* What holds of 0, and of j + 1 once it holds of j, holds up to k.
LEMMA UpTo ==
  ASSUME NEW k \in Nat, NEW S, 0 \in S, \A j \in 0..(k - 1) : j \in S => j + 1 \in S
  PROVE  \A j \in 0..k : j \in S
<1>. DEFINE T == 0..k \ S
<1>. SUFFICES ASSUME T # {} PROVE FALSE
  OBVIOUS
<1>1. T \in SUBSET Nat
  OBVIOUS
<1>. HIDE DEF T
<1>2. PICK x \in T : \A y \in T : x <= y
  BY <1>1, LeastNumber
<1>3. x \in 0..k /\ x \notin S /\ \A y \in 0..k \ S : x <= y
  BY <1>2 DEF T
<1>4. x # 0 /\ x - 1 \in 0..(k - 1) /\ x - 1 \in S
  BY <1>3
<1>5. (x - 1) + 1 = x
  BY <1>3
<1>. QED
  BY <1>3, <1>4, <1>5

-----------------------------------------------------------------------------
(***************************************************************************)
(* Remainders.                                                             *)
(***************************************************************************)
\* Quotient and remainder.
LEMMA DivMod ==
  ASSUME NEW M \in Nat \ {0}, NEW a \in Int
  PROVE  /\ a % M \in 0..(M - 1)
         /\ a \div M \in Int
         /\ a = (a \div M) * M + (a % M)
  OBVIOUS

\* There is one remainder only.
LEMMA QuotientUnique ==
  ASSUME NEW M \in Nat \ {0}, NEW p \in Int, NEW q \in Int,
         NEW r \in 0..(M - 1), NEW s \in 0..(M - 1),
         p * M + r = q * M + s
  PROVE  r = s
<1>1. (p - q) * M = s - r
  OBVIOUS
<1>2. ASSUME p - q >= 1 PROVE FALSE
  BY <1>1, <1>2
<1>3. ASSUME q - p >= 1 PROVE FALSE
  BY <1>1, <1>3
<1>. QED
  BY <1>1, <1>2, <1>3

\* The remainder is the number left over by some multiple.
LEMMA ModIs ==
  ASSUME NEW M \in Nat \ {0}, NEW k \in Int, NEW r \in 0..(M - 1), NEW x \in Int,
         x = k * M + r
  PROVE  x % M = r
<1>1. x = (x \div M) * M + (x % M) /\ x \div M \in Int /\ x % M \in 0..(M - 1)
  BY DivMod
<1>2. (x \div M) * M + (x % M) = k * M + r
  BY <1>1
<1> DEFINE p == x \div M
           s == x % M
<1>3. p \in Int /\ s \in 0..(M - 1) /\ p * M + s = k * M + r
  BY <1>1, <1>2
<1>. HIDE DEF p, s
<1>4. s = r
  BY <1>3, QuotientUnique
<1>. QED
  BY <1>4 DEF s

\* Whole rounds do not matter.
LEMMA ModShift ==
  ASSUME NEW M \in Nat \ {0}, NEW k \in Int, NEW x \in Int
  PROVE  (k * M + x) % M = x % M
<1>. DEFINE p == x \div M
            r == x % M
            y == k * M + x
<1>1. p \in Int /\ r \in 0..(M - 1) /\ x = p * M + r
  BY DivMod
<1>. HIDE DEF p, r
<1>2. y \in Int /\ y = (k + p) * M + r /\ k + p \in Int
  BY <1>1
<1>. HIDE DEF y
<1>3. y % M = r
  BY <1>1, <1>2, ModIs
<1>. QED
  BY <1>3 DEF y, r

\* Differences can be taken of remainders, ...
LEMMA ModSub ==
  ASSUME NEW M \in Nat \ {0}, NEW a \in Int, NEW b \in Int
  PROVE  ((a % M) - (b % M)) % M = (a - b) % M
<1>. DEFINE p == a \div M
            q == b \div M
            c == a % M
            d == b % M
<1>1. p \in Int /\ q \in Int /\ c \in Int /\ d \in Int /\ a = p * M + c /\ b = q * M + d
  BY DivMod
<1>. HIDE DEF p, q, c, d
<1>2. c - d \in Int /\ a - b = (p - q) * M + (c - d) /\ p - q \in Int
  BY <1>1
<1>3. ((p - q) * M + (c - d)) % M = (c - d) % M
  BY <1>2, ModShift
<1>4. (c - d) % M = (a - b) % M
  BY <1>2, <1>3
<1>. QED
  BY <1>4 DEF c, d

\* ... and so can sums.
LEMMA ModAdd ==
  ASSUME NEW M \in Nat \ {0}, NEW a \in Int, NEW b \in Int
  PROVE  ((a % M) + b) % M = (a + b) % M
<1>. DEFINE p == a \div M
            c == a % M
<1>1. p \in Int /\ c \in Int /\ a = p * M + c
  BY DivMod
<1>. HIDE DEF p, c
<1>2. c + b \in Int /\ a + b = p * M + (c + b)
  BY <1>1
<1>3. (p * M + (c + b)) % M = (c + b) % M
  BY <1>1, <1>2, ModShift
<1>4. (c + b) % M = (a + b) % M
  BY <1>2, <1>3
<1>. QED
  BY <1>4 DEF c

-----------------------------------------------------------------------------
(***************************************************************************)
(* Serial numbers.                                                         *)
(***************************************************************************)
Half == SN_MOD \div 2

\* The constants, with half a round for the unit.
LEMMA HalfLemma ==
  /\ SN_MOD \in Nat \ {0} /\ Half \in Nat \ {0} /\ SN_MOD = 2 * Half
  /\ Lag \in Nat /\ Jump \in Nat \ {0} /\ WSize \in Nat \ {0}
  /\ Lag + Jump < Half /\ WSize + Jump <= Half
<1>1. SN_MOD \in Nat \ {0} /\ SN_MOD % 2 = 0 /\ Lag + Jump < Half /\ WSize + Jump <= Half
  BY ReorderAssumption DEF Half
<1>2. SN_MOD = 2 * Half
  BY <1>1 DEF Half
<1>3. Half \in Nat \ {0}
  BY <1>1 DEF Half
<1>. QED
  BY <1>1, <1>2, <1>3, ReorderAssumption

\* A sequence number fits its field.
LEMMA SnType == ASSUME NEW n \in Int PROVE Sn(n) \in 0..(SN_MOD - 1)
  BY HalfLemma, DivMod DEF Sn

\* The remainder of a number within half a round of zero.
LEMMA SmallMod ==
  ASSUME NEW x \in (-Half)..(Half - 1)
  PROVE  x % SN_MOD = IF x >= 0 THEN x ELSE x + SN_MOD
<1>. USE HalfLemma
<1>1. CASE x >= 0
  <2>1. x \in 0..(SN_MOD - 1) /\ x = 0 * SN_MOD + x /\ 0 \in Int /\ x \in Int
    BY <1>1
  <2>. QED
    BY <1>1, <2>1, ModIs
<1>2. CASE x < 0
  <2>. DEFINE y == x + SN_MOD
  <2>1. y \in 0..(SN_MOD - 1) /\ x = (-1) * SN_MOD + y /\ -1 \in Int /\ x \in Int
    BY <1>2
  <2>. HIDE DEF y
  <2>2. x % SN_MOD = y
    BY <2>1, ModIs
  <2>. QED
    BY <1>2, <2>2 DEF y
<1>. QED
  BY <1>1, <1>2

\* SN_LESS compares the sender's numbers when they are half a round apart at most.
LEMMA SnLess ==
  ASSUME NEW a \in Int, NEW b \in Int, a - b >= -Half, a - b < Half
  PROVE  SN_LESS(Sn(a), Sn(b)) <=> a < b
<1>. USE HalfLemma
<1>1. (Sn(a) - Sn(b)) % SN_MOD = (a - b) % SN_MOD
  BY ModSub DEF Sn
<1>2. a - b \in (-Half)..(Half - 1)
  OBVIOUS
<1>. DEFINE x == a - b
<1>3. x % SN_MOD = IF x >= 0 THEN x ELSE x + SN_MOD
  BY <1>2, SmallMod
<1>4. x \in Int /\ x >= -Half /\ x < Half /\ (x < 0 <=> a < b)
  OBVIOUS
<1>5. SN_LESS(Sn(a), Sn(b)) <=> x % SN_MOD >= Half
  BY <1>1 DEF SN_LESS, Half
<1>. HIDE DEF x
<1>. QED
  BY <1>3, <1>4, <1>5

\* So do equal sequence numbers.
LEMMA SnEqual ==
  ASSUME NEW a \in Int, NEW b \in Int, a - b >= -Half, a - b < Half
  PROVE  Sn(a) = Sn(b) <=> a = b
<1>. USE HalfLemma
<1>. SUFFICES ASSUME Sn(a) = Sn(b) PROVE a = b
  OBVIOUS
<1>1. SN_LESS(Sn(a), Sn(b)) <=> a < b
  BY SnLess
<1>. DEFINE x == a - b
<1>2. x \in (-Half)..(Half - 1)
  OBVIOUS
<1>3. (Sn(a) - Sn(b)) % SN_MOD = x % SN_MOD
  BY ModSub DEF Sn
<1>4. Sn(a) - Sn(b) = 0
  BY SnType
<1>5. 0 % SN_MOD = 0
  BY SmallMod
<1>6. x % SN_MOD = IF x >= 0 THEN x ELSE x + SN_MOD
  BY <1>2, SmallMod
<1>7. x % SN_MOD = 0
  BY <1>3, <1>4, <1>5
<1>8. x = 0
  <2>. HIDE DEF x
  <2>. QED
    BY <1>2, <1>6, <1>7
<1>. QED
  BY <1>8

\* The sequence number after that of a is that of a + 1.
LEMMA SnNext == ASSUME NEW a \in Int PROVE (Sn(a) + 1) % SN_MOD = Sn(a + 1)
<1>1. SN_MOD \in Nat \ {0} /\ 1 \in Int
  BY HalfLemma
<1>2. ((a % SN_MOD) + 1) % SN_MOD = (a + 1) % SN_MOD
  BY <1>1, ModAdd, Zenon
<1>. QED
  BY <1>2 DEF Sn

-----------------------------------------------------------------------------
(***************************************************************************)
(* The window on the sender's numbers.                                     *)
(***************************************************************************)
Moved(w, n) ==
  IF n = w THEN w + 1 ELSE IF n <= w + WSize - 1 THEN w ELSE n + 1 - WSize

\* check_indicate_seq(): a number that is not late moves the window to itself,
\* to keep it inside, or not at all.
LEMMA SlideMoves ==
  ASSUME NEW w \in Int, NEW n \in Int, n >= w, n - w < Half, n - w - WSize < Half
  PROVE  Slide(Sn(w), Sn(n)) = Sn(Moved(w, n))
<1>. USE HalfLemma
<1>. DEFINE s == Sn(n)
            e == w + WSize - 1
<1>1. Sn(w) \in 0..(SN_MOD - 1) /\ s \in 0..(SN_MOD - 1) /\ Sn(w) # Unset
  BY SnType DEF Unset
<1>2. WinStart(Sn(w), s) = Sn(w)
  BY <1>1 DEF WinStart
<1>3. s = Sn(w) <=> n = w
  <2>1. n - w >= -Half /\ n - w < Half
    OBVIOUS
  <2>. QED
    BY <2>1, SnEqual
<1>4. (Sn(w) + WSize - 1) % SN_MOD = Sn(e)
  <2>1. SN_MOD \in Nat \ {0} /\ WSize - 1 \in Int
    OBVIOUS
  <2>2. ((w % SN_MOD) + (WSize - 1)) % SN_MOD = (w + (WSize - 1)) % SN_MOD
    BY <2>1, ModAdd, Zenon
  <2>3. (Sn(w) + WSize - 1) = (w % SN_MOD) + (WSize - 1) /\ w + (WSize - 1) = e
    BY <1>1 DEF Sn
  <2>. QED
    BY <2>2, <2>3 DEF Sn
<1>5. SN_LESS(Sn(e), s) <=> e < n
  <2>1. e \in Int /\ e - n >= -Half /\ e - n < Half
    OBVIOUS
  <2>. HIDE DEF e
  <2>. QED
    BY <2>1, SnLess
<1>6. Sn(n + 1 - WSize) = IF s >= WSize - 1 THEN s + 1 - WSize
                          ELSE (SN_MOD - 1) - (WSize - (s + 1)) + 1
  <2>. DEFINE x == s + 1 - WSize
  <2>1. Sn(n + 1 - WSize) = x % SN_MOD
    <3>1. SN_MOD \in Nat \ {0} /\ 1 - WSize \in Int
      OBVIOUS
    <3>2. ((n % SN_MOD) + (1 - WSize)) % SN_MOD = (n + (1 - WSize)) % SN_MOD
      BY <3>1, ModAdd, Zenon
    <3>3. x = (n % SN_MOD) + (1 - WSize) /\ n + (1 - WSize) = n + 1 - WSize
      BY <1>1 DEF Sn
    <3>. QED
      BY <3>2, <3>3 DEF Sn
  <2>2. CASE s >= WSize - 1
    <3>1. x \in 0..(SN_MOD - 1) /\ x = 0 * SN_MOD + x /\ 0 \in Int /\ x \in Int
      BY <1>1, <2>2
    <3>. HIDE DEF x
    <3>2. x % SN_MOD = x
      BY <3>1, ModIs
    <3>. QED
      BY <2>1, <2>2, <3>2 DEF x
  <2>3. CASE ~(s >= WSize - 1)
    <3>. DEFINE y == x + SN_MOD
    <3>1. y \in 0..(SN_MOD - 1) /\ x = (-1) * SN_MOD + y /\ -1 \in Int /\ x \in Int
      BY <1>1, <2>3
    <3>2. y = (SN_MOD - 1) - (WSize - (s + 1)) + 1
      BY <1>1
    <3>. HIDE DEF x, y
    <3>3. x % SN_MOD = y
      BY <3>1, ModIs
    <3>. QED
      BY <2>1, <2>3, <3>2, <3>3
  <2>. QED
    BY <2>2, <2>3
<1>7. Slide(Sn(w), s) =
        IF s = Sn(w) THEN (Sn(w) + 1) % SN_MOD
        ELSE IF ~SN_LESS(Sn(e), s) THEN Sn(w)
        ELSE IF s >= WSize - 1 THEN s + 1 - WSize
        ELSE (SN_MOD - 1) - (WSize - (s + 1)) + 1
  BY <1>2, <1>4 DEF Slide
<1>8. (Sn(w) + 1) % SN_MOD = Sn(w + 1)
  BY SnNext
<1>9. e \in Int /\ (n <= w + WSize - 1 <=> ~(e < n))
  OBVIOUS
<1>. HIDE DEF s, e
<1>10. Slide(Sn(w), s) = Sn(Moved(w, n))
  BY <1>3, <1>5, <1>6, <1>7, <1>8, <1>9 DEF Moved
<1>. QED
  BY <1>10 DEF s

\* A frame behind the window is found to be late, and no other.
LEMMA LateIsBehind ==
  ASSUME NEW w \in Int, NEW n \in Int, n - w >= -Half, n - w < Half
  PROVE  Late(Sn(w), Sn(n)) <=> n < w
<1>1. Sn(w) # Unset
  BY SnType, HalfLemma DEF Unset
<1>. QED
  BY <1>1, SnLess DEF Late, WinStart

\* The first frame of an agreement is where the window starts: it is not late,
\* and the window moves behind it.
LEMMA FirstOfWindow ==
  ASSUME NEW n \in Int
  PROVE  ~Late(Unset, Sn(n)) /\ Slide(Unset, Sn(n)) = Sn(n + 1)
<1>1. ~SN_LESS(Sn(n), Sn(n))
  BY SnLess, HalfLemma
<1>2. (Sn(n) + 1) % SN_MOD = Sn(n + 1)
  BY SnNext
<1>. QED
  BY <1>1, <1>2 DEF Late, Slide, WinStart

-----------------------------------------------------------------------------
(***************************************************************************)
(* The list.                                                               *)
(***************************************************************************)
Increasing(q) == \A i, j \in 1..Len(q) : i < j => q[i] < q[j]
Elems(q) == {q[i] : i \in 1..Len(q)}

\* The numbers in q can be compared with n.
Near(q, n) == \A i \in 1..Len(q) : q[i] - n >= -Half /\ q[i] - n < Half

\* The place of n in an increasing list is before the first number not below it.
LEMMA PlaceLemma ==
  ASSUME NEW q \in Seq(Int), NEW n \in Int, Near(q, n)
  PROVE  LET k == Place(q, Sn(n))
         IN  /\ k \in 1..(Len(q) + 1)
             /\ \A i \in 1..Len(q) : i < k => q[i] < n
             /\ k <= Len(q) => q[k] >= n
<1>. DEFINE T == {k \in 1..Len(q) : ~SN_LESS(Sn(q[k]), Sn(n))} \cup {Len(q) + 1}
            k == Min(T)
<1>1. Len(q) \in Nat
  OBVIOUS
<1>2. \A i \in 1..Len(q) : q[i] \in Int /\ (SN_LESS(Sn(q[i]), Sn(n)) <=> q[i] < n)
  <2>. SUFFICES ASSUME NEW i \in 1..Len(q)
                PROVE  q[i] \in Int /\ (SN_LESS(Sn(q[i]), Sn(n)) <=> q[i] < n)
    OBVIOUS
  <2>1. q[i] \in Int /\ q[i] - n >= -Half /\ q[i] - n < Half
    BY DEF Near
  <2>. QED
    BY <2>1, SnLess
<1>3. T \in SUBSET Nat /\ T # {}
  BY <1>1
<1>4. \A i \in 1..Len(q) : i \in T <=> q[i] >= n
  BY <1>1, <1>2
<1>5. T \subseteq 1..(Len(q) + 1)
  BY <1>1
<1>6. Place(q, Sn(n)) = k
  BY DEF Place
<1>. HIDE DEF T
<1>7. k \in T /\ \A y \in T : k <= y
  BY <1>3, MinIsLeast
<1>. HIDE DEF k
<1>8. \A i \in 1..Len(q) : i < k => q[i] < n
  BY <1>1, <1>2, <1>4, <1>5, <1>7
<1>9. k \in 1..(Len(q) + 1) /\ (k <= Len(q) => q[k] >= n)
  BY <1>1, <1>4, <1>5, <1>7
<1>. QED
  BY <1>6, <1>8, <1>9

\* enqueue_reorder_recvframe() refuses n exactly if it is there already.
LEMMA TakenLemma ==
  ASSUME NEW q \in Seq(Int), NEW n \in Int, Near(q, n), Increasing(q)
  PROVE  Taken(q, Sn(n)) <=> n \in Elems(q)
<1>. DEFINE k == Place(q, Sn(n))
<1>1. /\ Len(q) \in Nat /\ k \in 1..(Len(q) + 1)
      /\ \A i \in 1..Len(q) : q[i] \in Int
      /\ \A i \in 1..Len(q) : i < k => q[i] < n
      /\ k <= Len(q) => q[k] >= n
  BY PlaceLemma
<1>2. Taken(q, Sn(n)) <=> k <= Len(q) /\ Sn(q[k]) = Sn(n)
  BY DEF Taken
<1>. HIDE DEF k
<1>3. \A i \in 1..Len(q) : Sn(q[i]) = Sn(n) <=> q[i] = n
  BY <1>1, SnEqual DEF Near
<1>4. ASSUME NEW i \in 1..Len(q), q[i] = n PROVE k <= Len(q) /\ q[k] = n
  <2>1. k <= i
    BY <1>1, <1>4
  <2>2. k \in 1..Len(q)
    BY <1>1, <2>1
  <2>. QED
    BY <1>1, <1>4, <2>1, <2>2 DEF Increasing
<1>. QED
  BY <1>1, <1>2, <1>3, <1>4 DEF Elems

\* Otherwise it joins the list in its place.
LEMMA InsertLemma ==
  ASSUME NEW S \in SUBSET Int, NEW q \in Seq(S), NEW n \in S, Near(q, n), Increasing(q),
         n \notin Elems(q)
  PROVE  /\ Insert(q, n) \in Seq(S)
         /\ Len(Insert(q, n)) = Len(q) + 1
         /\ Increasing(Insert(q, n))
         /\ Elems(Insert(q, n)) = Elems(q) \cup {n}
<1>. DEFINE k == Place(q, Sn(n))
            a == SubSeq(q, 1, k - 1)
            b == SubSeq(q, k, Len(q))
            r == Insert(q, n)
<1>0. q \in Seq(Int) /\ n \in Int
  BY SeqMonotonic
<1>1. /\ Len(q) \in Nat /\ k \in 1..(Len(q) + 1)
      /\ \A i \in 1..Len(q) : q[i] \in Int /\ q[i] \in S
      /\ \A i \in 1..Len(q) : i < k => q[i] < n
      /\ k <= Len(q) => q[k] >= n
  BY <1>0, PlaceLemma
<1>2. r = a \o <<n>> \o b
  BY DEF Insert
<1>. HIDE DEF k, r
<1>3. \A i \in 1..Len(q) : i >= k => q[i] > n
  <2>. SUFFICES ASSUME NEW i \in 1..Len(q), i >= k PROVE q[i] > n
    OBVIOUS
  <2>1. k \in 1..Len(q) /\ q[k] >= n /\ q[k] # n
    BY <1>1 DEF Elems
  <2>2. q[i] >= q[k]
    BY <1>1, <2>1 DEF Increasing
  <2>. QED
    BY <1>0, <1>1, <2>1, <2>2
<1>4. /\ a \in Seq(S) /\ Len(a) = k - 1
      /\ \A i \in 1..(k - 1) : a[i] = q[i]
  <2>1. k - 1 \in Int /\ 1 \in Int /\ \A i \in 1..(k - 1) : q[i] \in S
    BY <1>1
  <2>2. /\ a \in Seq(S) /\ Len(a) = IF 1 <= k - 1 THEN (k - 1) - 1 + 1 ELSE 0
        /\ \A i \in 1..((k - 1) - 1 + 1) : a[i] = q[1 + i - 1]
    BY <2>1, SubSeqProperties
  <2>. QED
    BY <1>1, <2>2
<1>5. /\ b \in Seq(S) /\ Len(b) = Len(q) - k + 1
      /\ \A i \in 1..(Len(q) - k + 1) : b[i] = q[k + i - 1]
  <2>1. k \in Int /\ Len(q) \in Int /\ \A i \in k..Len(q) : q[i] \in S
    BY <1>1
  <2>2. /\ b \in Seq(S) /\ Len(b) = IF k <= Len(q) THEN Len(q) - k + 1 ELSE 0
        /\ \A i \in 1..(Len(q) - k + 1) : b[i] = q[k + i - 1]
    BY <2>1, SubSeqProperties
  <2>. QED
    BY <1>1, <2>2
<1>. HIDE DEF a, b
<1>6. /\ a \o <<n>> \in Seq(S) /\ Len(a \o <<n>>) = k
      /\ \A i \in 1..k : (a \o <<n>>)[i] = IF i < k THEN q[i] ELSE n
  <2>. DEFINE u == <<n>>
              c == a \o u
  <2>1. u \in Seq(S) /\ Len(u) = 1 /\ u[1] = n
    OBVIOUS
  <2>. HIDE DEF u
  <2>2. /\ c \in Seq(S) /\ Len(c) = Len(a) + Len(u)
        /\ \A i \in 1..(Len(a) + Len(u)) :
             c[i] = IF i <= Len(a) THEN a[i] ELSE u[i - Len(a)]
    BY <1>4, <2>1, ConcatProperties
  <2>. HIDE DEF c
  <2>3. Len(a) + Len(u) = k
    BY <1>1, <1>4, <2>1
  <2>4. ASSUME NEW i \in 1..k, i < k PROVE c[i] = q[i]
    <3>1. i \in 1..(k - 1) /\ i <= Len(a)
      BY <1>1, <1>4, <2>4
    <3>2. c[i] = a[i]
      BY <2>2, <2>3, <3>1
    <3>. QED
      BY <1>4, <3>1, <3>2
  <2>5. ASSUME NEW i \in 1..k, ~(i < k) PROVE c[i] = n
    <3>1. ~(i <= Len(a)) /\ i - Len(a) = 1
      BY <1>1, <1>4, <2>5
    <3>. QED
      BY <2>1, <2>2, <2>3, <3>1
  <2>6. c \in Seq(S) /\ Len(c) = k /\ \A i \in 1..k : c[i] = IF i < k THEN q[i] ELSE n
    BY <2>2, <2>3, <2>4, <2>5
  <2>. QED
    BY <2>6 DEF c, u
<1>7. /\ r \in Seq(S) /\ Len(r) = Len(q) + 1
      /\ \A i \in 1..(Len(q) + 1) :
           r[i] = IF i < k THEN q[i] ELSE IF i = k THEN n ELSE q[i - 1]
  <2>. DEFINE c == a \o <<n>>
  <2>0. c \in Seq(S) /\ Len(c) = k /\ \A i \in 1..k : c[i] = IF i < k THEN q[i] ELSE n
    BY <1>6
  <2>a. r = c \o b
    BY <1>2
  <2>. HIDE DEF c
  <2>1. /\ r \in Seq(S) /\ Len(r) = Len(c) + Len(b)
        /\ \A i \in 1..(Len(c) + Len(b)) : r[i] = IF i <= Len(c) THEN c[i] ELSE b[i - Len(c)]
    BY <1>5, <2>0, <2>a, ConcatProperties
  <2>2. Len(r) = Len(q) + 1 /\ Len(c) + Len(b) = Len(q) + 1
    BY <1>1, <1>5, <2>0, <2>1
  <2>3. ASSUME NEW i \in 1..(Len(q) + 1)
        PROVE  r[i] = IF i < k THEN q[i] ELSE IF i = k THEN n ELSE q[i - 1]
    <3>1. CASE i <= k
      BY <1>1, <2>0, <2>1, <2>2, <3>1
    <3>2. CASE i > k
      <4>1. r[i] = b[i - k]
        BY <1>1, <2>0, <2>1, <2>2, <3>2
      <4>2. i - k \in 1..(Len(q) - k + 1) /\ k + (i - k) - 1 = i - 1
        BY <1>1, <3>2
      <4>3. b[i - k] = q[k + (i - k) - 1]
        BY <1>5, <4>2
      <4>. QED
        BY <1>1, <3>2, <4>1, <4>2, <4>3
    <3>. QED
      BY <1>1, <3>1, <3>2
  <2>. QED
    BY <2>1, <2>2, <2>3
<1>8. Increasing(r)
  <2>. SUFFICES ASSUME NEW i \in 1..(Len(q) + 1), NEW j \in 1..(Len(q) + 1), i < j
                PROVE  r[i] < r[j]
    BY <1>7 DEF Increasing
  <2>1. CASE j < k
    BY <1>1, <1>7, <2>1 DEF Increasing
  <2>2. CASE j = k
    BY <1>1, <1>7, <2>2
  <2>3. CASE j > k
    <3>1. j - 1 \in 1..Len(q) /\ j - 1 >= k /\ r[j] = q[j - 1] /\ q[j - 1] > n
      BY <1>1, <1>3, <1>7, <2>3
    <3>2. CASE i <= k
      <4>1. CASE i < k
        <5>1. r[i] = q[i] /\ i \in 1..Len(q)
          BY <1>1, <1>7, <4>1
        <5>. QED
          BY <1>0, <1>1, <3>1, <4>1, <5>1
      <4>2. CASE i = k
        <5>1. r[i] = n
          BY <1>1, <1>7, <4>2
        <5>. QED
          BY <1>0, <1>1, <3>1, <5>1
      <4>. QED
        BY <1>1, <3>2, <4>1, <4>2
    <3>3. CASE i > k
      <4>1. i - 1 \in 1..Len(q) /\ i - 1 < j - 1 /\ r[i] = q[i - 1]
        BY <1>1, <1>7, <3>3
      <4>. QED
        BY <3>1, <4>1 DEF Increasing
    <3>. QED
      BY <1>1, <3>2, <3>3
  <2>. QED
    BY <1>1, <2>1, <2>2, <2>3
<1>9. Elems(r) = Elems(q) \cup {n}
  <2>1. ASSUME NEW i \in 1..Len(q) PROVE q[i] \in Elems(r)
    <3>1. CASE i < k
      BY <1>1, <1>7, <3>1 DEF Elems
    <3>2. CASE i >= k
      <4>1. i + 1 \in 1..(Len(q) + 1) /\ r[i + 1] = q[i]
        BY <1>1, <1>7, <3>2
      <4>. QED
        BY <1>7, <4>1 DEF Elems
    <3>. QED
      BY <1>1, <3>1, <3>2
  <2>2. n \in Elems(r)
    BY <1>1, <1>7 DEF Elems
  <2>3. ASSUME NEW i \in 1..(Len(q) + 1) PROVE r[i] \in Elems(q) \cup {n}
    <3>1. CASE i <= k
      BY <1>1, <1>7, <3>1 DEF Elems
    <3>2. CASE i > k
      <4>1. i - 1 \in 1..Len(q) /\ r[i] = q[i - 1]
        BY <1>1, <1>7, <3>2
      <4>. QED
        BY <4>1 DEF Elems
    <3>. QED
      BY <1>1, <3>1, <3>2
  <2>. QED
    BY <1>7, <2>1, <2>2, <2>3 DEF Elems
<1>. QED
  BY <1>7, <1>8, <1>9 DEF r

-----------------------------------------------------------------------------
(***************************************************************************)
(* The loop that passes frames up.                                         *)
(***************************************************************************)
\* One turn of the loop: the window start after frame n.
After(start, n) == IF start = Sn(n) THEN (start + 1) % SN_MOD ELSE start

\* The recursive function has the values its definition says.
LEMMA StartAfterDef ==
  ASSUME NEW ind, NEW q, Len(q) \in Nat
  PROVE  /\ StartAfter(ind, q)[0] = ind
         /\ \A k \in 1..Len(q) : StartAfter(ind, q)[k] = After(StartAfter(ind, q)[k - 1], q[k])
<1>. DEFINE Is(g, m) == g = [k \in 0..m |-> IF k = 0 THEN ind ELSE After(g[k - 1], q[k])]
            T == {m \in Nat : \E g : Is(g, m)}
<1>1. 0 \in T
  <2>. DEFINE g == [k \in 0..0 |-> ind]
  <2>1. Is(g, 0)
    OBVIOUS
  <2>. QED
    BY <2>1
<1>2. ASSUME NEW m \in Nat, m \in T PROVE m + 1 \in T
  <2>1. PICK g : Is(g, m)
    BY <1>2
  <2>. DEFINE f == [k \in 0..(m + 1) |-> IF k = m + 1 THEN After(g[m], q[m + 1]) ELSE g[k]]
  <2>2. \A k \in 0..(m + 1) : f[k] = IF k = 0 THEN ind ELSE After(f[k - 1], q[k])
    <3>. SUFFICES ASSUME NEW k \in 0..(m + 1)
                  PROVE  f[k] = IF k = 0 THEN ind ELSE After(f[k - 1], q[k])
      OBVIOUS
    <3>1. CASE k = m + 1
      <4>1. k - 1 = m /\ k # 0 /\ m \in 0..(m + 1) /\ m # m + 1
        BY <3>1
      <4>2. f[m] = g[m] /\ f[k] = After(g[m], q[m + 1])
        BY <3>1, <4>1
      <4>. QED
        BY <3>1, <4>1, <4>2
    <3>2. CASE k # m + 1 /\ k # 0
      <4>1. k \in 0..m /\ k - 1 \in 0..m /\ k - 1 # m + 1 /\ k - 1 \in 0..(m + 1)
        BY <3>2
      <4>2. g[k] = After(g[k - 1], q[k])
        BY <2>1, <3>2, <4>1
      <4>3. f[k] = g[k] /\ f[k - 1] = g[k - 1]
        BY <3>2, <4>1
      <4>. QED
        BY <3>2, <4>2, <4>3
    <3>3. CASE k = 0
      <4>1. 0 \in 0..m /\ 0 # m + 1
        OBVIOUS
      <4>2. g[0] = ind
        BY <2>1, <4>1
      <4>. QED
        BY <3>3, <4>1, <4>2
    <3>. QED
      BY <3>1, <3>2, <3>3
  <2>3. f = [k \in 0..(m + 1) |-> f[k]]
    OBVIOUS
  <2>. HIDE DEF f
  <2>4. Is(f, m + 1)
    BY <2>2, <2>3
  <2>. QED
    BY <2>4
<1>. HIDE DEF T
<1>3. Len(q) \in T
  <2>1. \A j \in 0..(Len(q) - 1) : j \in T => j + 1 \in T
    BY <1>2
  <2>2. \A j \in 0..Len(q) : j \in T
    BY <1>1, <2>1, UpTo
  <2>. QED
    BY <2>2
<1>4. \E g : Is(g, Len(q))
  BY <1>3 DEF T
<1>5. StartAfter(ind, q) = CHOOSE g : Is(g, Len(q))
  BY DEF StartAfter, After
<1>6. Is(StartAfter(ind, q), Len(q))
  BY <1>4, <1>5
<1>. DEFINE st == StartAfter(ind, q)
<1>7. st = [k \in 0..Len(q) |-> IF k = 0 THEN ind ELSE After(st[k - 1], q[k])]
  BY <1>6
<1>. HIDE DEF st
<1>8. st[0] = ind /\ \A k \in 1..Len(q) : st[k] = After(st[k - 1], q[k])
  <2>1. 0 \in 0..Len(q) /\ \A k \in 1..Len(q) : k \in 0..Len(q) /\ k # 0
    OBVIOUS
  <2>. QED
    BY <1>7, <2>1
<1>. QED
  BY <1>8 DEF st

\* The loop ends at a window start v with all numbers below v passed up and all
\* numbers above v left; v itself is not there.
LEMMA InOrderLemma ==
  ASSUME NEW q \in Seq(Int), Increasing(q), NEW w \in Int, NEW hi \in Int, w <= hi + 1,
         \A i \in 1..Len(q) : q[i] <= hi /\ w - q[i] >= -Half /\ hi + 1 - q[i] < Half
  PROVE  \E k \in 0..Len(q), v \in w..(hi + 1) :
           /\ InOrder(Sn(w), q) = [up |-> SubSeq(q, 1, k), left |-> SubSeq(q, k + 1, Len(q)),
                                   start |-> Sn(v)]
           /\ \A i \in 1..k : q[i] < v
           /\ \A i \in (k + 1)..Len(q) : q[i] > v
<1>. DEFINE start == StartAfter(Sn(w), q)
            T == {j \in 0..(Len(q) - 1) : SN_LESS(start[j], Sn(q[j + 1]))} \cup {Len(q)}
            k == Min(T)
            P(j, v) == start[j] = Sn(v) /\ \A i \in 1..j : q[i] < v
            R == {j \in 0..Len(q) : \E v \in w..(hi + 1) : P(j, v)}
<1>1. Len(q) \in Nat /\ \A i \in 1..Len(q) : q[i] \in Int
  OBVIOUS
<1>2. InOrder(Sn(w), q) =
        [up |-> SubSeq(q, 1, k), left |-> SubSeq(q, k + 1, Len(q)), start |-> start[k]]
  BY DEF InOrder
<1>3. start[0] = Sn(w) /\ \A j \in 1..Len(q) : start[j] = After(start[j - 1], q[j])
  BY <1>1, StartAfterDef
<1>. HIDE DEF start
<1>4. T \in SUBSET Nat /\ T # {} /\ T \subseteq 0..Len(q)
  BY <1>1
<1>5. \A j \in 0..(Len(q) - 1) : j \notin T => ~SN_LESS(start[j], Sn(q[j + 1]))
  OBVIOUS
<1>6. \A j \in 0..(Len(q) - 1) : j \in T => SN_LESS(start[j], Sn(q[j + 1]))
  BY <1>1
<1>. HIDE DEF T
<1>7. k \in T /\ \A y \in T : k <= y
  BY <1>4, MinIsLeast
<1>. HIDE DEF k
<1>8. k \in 0..Len(q)
  BY <1>4, <1>7
<1>9. ASSUME NEW v \in w..(hi + 1), NEW i \in 1..Len(q)
      PROVE  /\ SN_LESS(Sn(v), Sn(q[i])) <=> v < q[i]
             /\ Sn(v) = Sn(q[i]) <=> v = q[i]
  <2>1. v \in Int /\ q[i] \in Int /\ v - q[i] >= -Half /\ v - q[i] < Half
    BY <1>1, HalfLemma
  <2>. QED
    BY <2>1, SnLess, SnEqual
<1>10. 0 \in R
  <2>1. P(0, w) /\ w \in w..(hi + 1)
    BY <1>3
  <2>. QED
    BY <1>1, <2>1
<1>11. ASSUME NEW j \in 0..(k - 1), j \in R PROVE j + 1 \in R
  <2>1. PICK v \in w..(hi + 1) : P(j, v)
    BY <1>11
  <2>2. j \in 0..(Len(q) - 1) /\ j + 1 \in 1..Len(q) /\ j \notin T /\ (j + 1) - 1 = j
    BY <1>7, <1>8
  <2>3. ~SN_LESS(Sn(v), Sn(q[j + 1]))
    BY <1>5, <2>1, <2>2
  <2>4. v >= q[j + 1] /\ v \in Int /\ q[j + 1] \in Int
    BY <1>1, <1>9, <2>2, <2>3
  <2>5. start[j + 1] = After(Sn(v), q[j + 1])
    BY <1>3, <2>1, <2>2
  <2>6. \A i \in 1..(j + 1) : i \in 1..j \/ i = j + 1
    BY <2>2
  <2>7. CASE v = q[j + 1]
    <3>1. start[j + 1] = Sn(v + 1)
      BY <2>4, <2>5, <2>7, SnNext DEF After
    <3>2. v + 1 \in w..(hi + 1)
      <4>1. q[j + 1] <= hi
        BY <2>2
      <4>. QED
        BY <2>4, <2>7, <4>1
    <3>3. \A i \in 1..(j + 1) : q[i] < v + 1
      <4>1. \A i \in 1..j : q[i] < v /\ q[i] \in Int
        BY <1>1, <2>1, <2>2
      <4>. QED
        BY <2>4, <2>6, <2>7, <4>1
    <3>4. P(j + 1, v + 1)
      BY <3>1, <3>3
    <3>. HIDE DEF P
    <3>5. j + 1 \in 0..Len(q)
      BY <2>2
    <3>. QED
      BY <3>2, <3>4, <3>5
  <2>8. CASE v # q[j + 1]
    <3>1. start[j + 1] = Sn(v)
      BY <1>9, <2>2, <2>5, <2>8 DEF After
    <3>2. \A i \in 1..(j + 1) : q[i] < v
      BY <2>1, <2>4, <2>6, <2>8
    <3>3. P(j + 1, v)
      BY <3>1, <3>2
    <3>. QED
      BY <2>2, <3>3
  <2>. QED
    BY <2>7, <2>8
<1>12. k \in R
  <2>. HIDE DEF R
  <2>1. k \in Nat /\ \A j \in 0..(k - 1) : j \in R => j + 1 \in R
    BY <1>1, <1>8, <1>11
  <2>2. \A j \in 0..k : j \in R
    BY <1>10, <2>1, UpTo
  <2>. QED
    BY <2>1, <2>2
<1>13. PICK v \in w..(hi + 1) : P(k, v)
  BY <1>12
<1>14. \A i \in (k + 1)..Len(q) : q[i] > v
  <2>. SUFFICES ASSUME NEW i \in (k + 1)..Len(q) PROVE q[i] > v
    OBVIOUS
  <2>1. k \in 0..(Len(q) - 1) /\ k + 1 \in 1..Len(q) /\ i \in 1..Len(q)
    BY <1>1, <1>8
  <2>2. SN_LESS(Sn(v), Sn(q[k + 1]))
    BY <1>6, <1>7, <1>13, <2>1
  <2>3. v < q[k + 1]
    BY <1>9, <2>1, <2>2
  <2>4. q[k + 1] <= q[i]
    <3>1. CASE i = k + 1
      BY <1>1, <2>1, <3>1
    <3>2. CASE i > k + 1
      <4>1. q[k + 1] < q[i]
        BY <2>1, <3>2 DEF Increasing
      <4>. QED
        BY <1>1, <2>1, <4>1
    <3>. QED
      BY <1>1, <1>8, <3>1, <3>2
  <2>5. v \in Int /\ q[i] \in Int /\ q[k + 1] \in Int
    BY <1>1, <2>1
  <2>. QED
    BY <2>3, <2>4, <2>5
<1>15. /\ InOrder(Sn(w), q) = [up |-> SubSeq(q, 1, k), left |-> SubSeq(q, k + 1, Len(q)),
                               start |-> Sn(v)]
       /\ \A i \in 1..k : q[i] < v
  BY <1>2, <1>13
<1>. QED
  BY <1>8, <1>14, <1>15

\* What recv_indicatepkts_in_order() leaves in the list, what it passes up, and
\* that it passes it up in order when everything in the list is above from.
LEMMA DeliverLemma ==
  ASSUME NEW S \in SUBSET Int, NEW q \in Seq(S), Increasing(q),
         NEW w \in Int, NEW hi \in Int, w <= hi + 1,
         \A i \in 1..Len(q) : q[i] <= hi /\ w - q[i] >= -Half /\ hi + 1 - q[i] < Half,
         NEW from \in Int, from < w, \A i \in 1..Len(q) : q[i] > from
  PROVE  LET r == InOrder(Sn(w), q)
             l == LastUp(from, r.up)
         IN  \E v \in w..(hi + 1) :
               /\ r.start = Sn(v)
               /\ r.left \in Seq(S) /\ Increasing(r.left)
               /\ Elems(r.left) = {x \in Elems(q) : x > v}
               /\ Elems(r.up) = {x \in Elems(q) : x < v}
               /\ Elems(r.left) = Elems(q) \ Elems(r.up)
               /\ l = IF Elems(r.up) = {} THEN from ELSE Max(Elems(r.up))
               /\ l \in {from} \cup Elems(q)
               /\ l < v
<1>1. q \in Seq(Int) /\ Len(q) \in Nat /\ \A i \in 1..Len(q) : q[i] \in Int /\ q[i] \in S
  <2>1. q \in Seq(Int)
    BY SeqMonotonic
  <2>. QED
    BY <2>1
<1>2. PICK k \in 0..Len(q), v \in w..(hi + 1) :
        /\ InOrder(Sn(w), q) = [up |-> SubSeq(q, 1, k), left |-> SubSeq(q, k + 1, Len(q)),
                                start |-> Sn(v)]
        /\ \A i \in 1..k : q[i] < v
        /\ \A i \in (k + 1)..Len(q) : q[i] > v
  BY <1>1, InOrderLemma
<1>. DEFINE up   == SubSeq(q, 1, k)
            left == SubSeq(q, k + 1, Len(q))
            r    == InOrder(Sn(w), q)
<1>3. r.up = up /\ r.left = left /\ r.start = Sn(v)
  BY <1>2
<1>4. up \in Seq(S) /\ Len(up) = k /\ \A i \in 1..k : up[i] = q[i]
  <2>1. k \in Int /\ 1 \in Int /\ \A i \in 1..k : q[i] \in S
    BY <1>1
  <2>2. /\ up \in Seq(S) /\ Len(up) = IF 1 <= k THEN k - 1 + 1 ELSE 0
        /\ \A i \in 1..(k - 1 + 1) : up[i] = q[1 + i - 1]
    BY <2>1, SubSeqProperties
  <2>. HIDE DEF up
  <2>3. Len(up) = k
    BY <2>2
  <2>4. \A i \in 1..k : i \in 1..(k - 1 + 1) /\ 1 + i - 1 = i
    OBVIOUS
  <2>. QED
    BY <2>2, <2>3, <2>4
<1>5. left \in Seq(S) /\ Len(left) = Len(q) - k /\ \A i \in 1..(Len(q) - k) : left[i] = q[k + i]
  <2>1. k + 1 \in Int /\ Len(q) \in Int /\ \A i \in (k + 1)..Len(q) : q[i] \in S
    BY <1>1
  <2>2. /\ left \in Seq(S) /\ Len(left) = IF k + 1 <= Len(q) THEN Len(q) - (k + 1) + 1 ELSE 0
        /\ \A i \in 1..(Len(q) - (k + 1) + 1) : left[i] = q[(k + 1) + i - 1]
    BY <2>1, SubSeqProperties
  <2>. HIDE DEF left
  <2>3. Len(left) = Len(q) - k
    BY <1>1, <2>2
  <2>4. \A i \in 1..(Len(q) - k) : i \in 1..(Len(q) - (k + 1) + 1) /\ (k + 1) + i - 1 = k + i
    BY <1>1
  <2>. QED
    BY <2>2, <2>3, <2>4
<1>. HIDE DEF up, left, r
<1>6. Increasing(left)
  <2>. SUFFICES ASSUME NEW i \in 1..Len(left), NEW j \in 1..Len(left), i < j
                PROVE  left[i] < left[j]
    BY DEF Increasing
  <2>1. /\ i \in 1..(Len(q) - k) /\ j \in 1..(Len(q) - k)
        /\ k + i \in 1..Len(q) /\ k + j \in 1..Len(q) /\ k + i < k + j
    BY <1>1, <1>5
  <2>2. q[k + i] < q[k + j]
    BY <2>1 DEF Increasing
  <2>. QED
    BY <1>5, <2>1, <2>2
<1>7. Elems(left) = {x \in Elems(q) : x > v}
  <2>1. ASSUME NEW i \in 1..Len(left) PROVE left[i] \in Elems(q) /\ left[i] > v
    <3>1. k + i \in (k + 1)..Len(q) /\ k + i \in 1..Len(q) /\ left[i] = q[k + i]
      BY <1>1, <1>5
    <3>. QED
      BY <1>2, <3>1 DEF Elems
  <2>2. ASSUME NEW i \in 1..Len(q), q[i] > v PROVE q[i] \in Elems(left)
    <3>1. ~(i \in 1..k)
      <4>. SUFFICES ASSUME i \in 1..k PROVE FALSE
        OBVIOUS
      <4>1. q[i] < v
        BY <1>2
      <4>. QED
        BY <1>1, <2>2, <4>1
    <3>2. i - k \in 1..Len(left) /\ k + (i - k) = i /\ i - k \in 1..(Len(q) - k)
      BY <1>1, <1>5, <3>1
    <3>3. left[i - k] = q[k + (i - k)]
      BY <1>5, <3>2
    <3>. QED
      BY <3>2, <3>3 DEF Elems
  <2>. QED
    BY <2>1, <2>2 DEF Elems
<1>8. Elems(up) = {x \in Elems(q) : x < v}
  <2>1. ASSUME NEW i \in 1..Len(up) PROVE up[i] \in Elems(q) /\ up[i] < v
    <3>1. i \in 1..k /\ i \in 1..Len(q) /\ up[i] = q[i]
      BY <1>1, <1>4
    <3>. QED
      BY <1>2, <3>1 DEF Elems
  <2>2. ASSUME NEW i \in 1..Len(q), q[i] < v PROVE q[i] \in Elems(up)
    <3>1. ~(i \in (k + 1)..Len(q))
      <4>. SUFFICES ASSUME i \in (k + 1)..Len(q) PROVE FALSE
        OBVIOUS
      <4>1. q[i] > v
        BY <1>2
      <4>. QED
        BY <1>1, <2>2, <4>1
    <3>2. i \in 1..k /\ i \in 1..Len(up)
      BY <1>1, <1>4, <3>1
    <3>3. up[i] = q[i]
      BY <1>4, <3>2
    <3>. QED
      BY <3>2, <3>3 DEF Elems
  <2>. QED
    BY <2>1, <2>2 DEF Elems
<1>9. Elems(left) = Elems(q) \ Elems(up)
  <2>1. \A x \in Elems(q) : x \in Int /\ x # v
    <3>. SUFFICES ASSUME NEW i \in 1..Len(q) PROVE q[i] \in Int /\ q[i] # v
      BY DEF Elems
    <3>1. i \in 1..k \/ i \in (k + 1)..Len(q)
      BY <1>1
    <3>2. i \in 1..k => q[i] < v
      BY <1>2
    <3>3. i \in (k + 1)..Len(q) => q[i] > v
      BY <1>2
    <3>. QED
      BY <1>1, <3>1, <3>2, <3>3
  <2>2. v \in Int
    OBVIOUS
  <2>3. \A x \in Elems(q) : (x > v) <=> ~(x < v)
    BY <2>1, <2>2
  <2>. QED
    BY <1>7, <1>8, <2>3
<1>. DEFINE l == LastUp(from, up)
<1>10. /\ l = IF Elems(up) = {} THEN from ELSE Max(Elems(up))
       /\ l \in {from} \cup Elems(q)
       /\ l < v
  <2>1. CASE k = 0
    <3>1. up = <<>>
      BY <1>4, <2>1
    <3>2. l = from
      BY <3>1 DEF LastUp
    <3>3. Elems(up) = {}
      BY <3>1 DEF Elems
    <3>. QED
      BY <3>2, <3>3
  <2>2. CASE k # 0
    <3>1. k \in 1..Len(q) /\ 1 \in 1..Len(q) /\ 1 \in 1..k /\ k \in 1..k /\ up # <<>>
      BY <1>1, <1>4, <2>2
    <3>2. up[1] > from
      BY <1>4, <3>1
    <3>3. ASSUME NEW i \in 1..(Len(up) - 1) PROVE up[i] < up[i + 1]
      <4>1. i \in 1..k /\ i + 1 \in 1..k /\ i \in 1..Len(q) /\ i + 1 \in 1..Len(q) /\ i < i + 1
        BY <1>1, <1>4
      <4>2. q[i] < q[i + 1]
        BY <4>1 DEF Increasing
      <4>. QED
        BY <1>4, <4>1, <4>2
    <3>4. l = q[k]
      BY <1>4, <3>1, <3>2, <3>3 DEF LastUp
    <3>5. q[k] \in Elems(up) /\ q[k] \in Elems(q) /\ q[k] < v
      BY <1>2, <1>4, <3>1 DEF Elems
    <3>6. \A y \in Elems(up) : y \in Int /\ q[k] >= y
      <4>. SUFFICES ASSUME NEW i \in 1..k PROVE q[i] \in Int /\ q[k] >= q[i]
        BY <1>4 DEF Elems
      <4>1. i \in 1..Len(q) /\ q[i] \in Int /\ q[k] \in Int
        BY <1>1, <3>1
      <4>2. i < k => q[i] < q[k]
        BY <3>1, <4>1 DEF Increasing
      <4>3. i < k \/ i = k
        OBVIOUS
      <4>. QED
        BY <4>1, <4>2, <4>3
    <3>7. Max(Elems(up)) = q[k]
      <4>. DEFINE A == Elems(up)
                  m == Max(A)
      <4>1. \E x \in A : \A y \in A : x >= y
        BY <3>5, <3>6
      <4>2. m \in A /\ \A y \in A : m >= y
        BY <4>1 DEF Max
      <4>. HIDE DEF m
      <4>3. m \in Int /\ q[k] \in Int /\ m >= q[k] /\ q[k] >= m
        BY <3>5, <3>6, <4>2
      <4>. QED
        BY <4>3 DEF m
    <3>. QED
      BY <3>4, <3>5, <3>7
  <2>. QED
    BY <2>1, <2>2
<1>11. /\ r.start = Sn(v)
       /\ r.left \in Seq(S) /\ Increasing(r.left)
       /\ Elems(r.left) = {x \in Elems(q) : x > v}
       /\ Elems(r.up) = {x \in Elems(q) : x < v}
       /\ Elems(r.left) = Elems(q) \ Elems(r.up)
       /\ LastUp(from, r.up) = IF Elems(r.up) = {} THEN from ELSE Max(Elems(r.up))
       /\ LastUp(from, r.up) \in {from} \cup Elems(q)
       /\ LastUp(from, r.up) < v
  BY <1>3, <1>5, <1>6, <1>7, <1>8, <1>9, <1>10
<1>. QED
  BY <1>11 DEF r

\* An increasing list is no longer than the range of its numbers.
LEMMA IncreasingLen ==
  ASSUME NEW q \in Seq(Int), Increasing(q), NEW lo \in Int, NEW hi \in Int,
         \A i \in 1..Len(q) : lo <= q[i] /\ q[i] <= hi, q # <<>>
  PROVE  Len(q) <= hi - lo + 1
<1>1. Len(q) \in Nat \ {0} /\ \A i \in 1..Len(q) : q[i] \in Int
  OBVIOUS
<1>. DEFINE R == {j \in Nat : q[j + 1] >= lo + j}
<1>2. 0 \in R
  BY <1>1
<1>3. ASSUME NEW j \in 0..(Len(q) - 2), j \in R PROVE j + 1 \in R
  <2>1. /\ j + 1 \in 1..Len(q) /\ (j + 1) + 1 \in 1..Len(q) /\ j + 1 < (j + 1) + 1
        /\ j + 1 \in Nat
    BY <1>1
  <2>2. q[j + 1] < q[(j + 1) + 1] /\ q[j + 1] \in Int /\ q[(j + 1) + 1] \in Int
    BY <1>1, <2>1 DEF Increasing
  <2>. QED
    BY <1>3, <2>1, <2>2
<1>. HIDE DEF R
<1>4. Len(q) - 1 \in Nat /\ \A j \in 0..((Len(q) - 1) - 1) : j \in R => j + 1 \in R
  BY <1>1, <1>3
<1>5. \A j \in 0..(Len(q) - 1) : j \in R
  BY <1>2, <1>4, UpTo
<1>6. Len(q) - 1 \in R /\ (Len(q) - 1) + 1 = Len(q)
  BY <1>1, <1>5
<1>7. q[Len(q)] >= lo + (Len(q) - 1)
  BY <1>6 DEF R
<1>8. q[Len(q)] <= hi /\ q[Len(q)] \in Int
  BY <1>1
<1>. QED
  BY <1>1, <1>7, <1>8
=============================================================================
