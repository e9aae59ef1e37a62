------------------------ MODULE CoopRxSessionProofs ------------------------
(***************************************************************************)
(* Theorems about CoopRxSession for any number of binds and helpers and    *)
(* any channels and bandwidths: the session's setting is the primary's     *)
(* until something unreported changes it, and the helpers end up on it.    *)
(***************************************************************************)
EXTENDS CoopRxSession, TLAPS

\* A session to which nothing unreported has happened.
Watched == state = "ACTIVE" /\ ~stale

\* The bound setting is the one the binds under way and the helpers go by: at
\* rest, and during a channel switch until there is something to notify.
Current == mpc \in {"idle", "assoc", "bw"} \/ (mpc \in {"off", "notify"} /\ Same(cur, bound))

\* A bind is at a helper it still has to tune, and has none left when it is done;
\* a helper that is down was not tuned.
PlaceInv ==
  /\ \A w \in Writers :
       IF wpc[w] \in {"read", "set"} THEN wat[w] \in wto[w] ELSE wat[w] = NULL
  /\ \A w \in Writers : wto[w] # {} => UnderWay(w)
  /\ \A h \in Helpers : ~hup[h] => hset[h] = NULL

\* The bound setting is the primary's.  Between the assignments of a channel
\* switch, which is the primary's own, at least the bandwidth is, or the
\* notification would find nothing to put right in a bind that read it there.
BoundInv ==
  Watched =>
    /\ mpc \in {"idle", "assoc", "move"} => Same(bound, cur)
    /\ mpc = "bw" => bound.bw = cur.bw
    /\ mpc \in {"bw", "off"} => via = "own"

\* What a bind under way is going to set is the bound setting, ...
BindsInv ==
  Watched /\ ~overtaken /\ (Current \/ mpc = "move") =>
    \A w \in Writers :
      UnderWay(w) => wset[w].ch = bound.ch /\ (wpc[w] = "set" => wset[w].bw = bound.bw)

\* ... so is what a notification moves the helpers to, ...
MoveInv == Watched /\ ~overtaken /\ mpc = "move" /\ mto # {} => Same(want, bound)

\* ... and what a helper has, unless one of them is still to tune it.
TunedInv ==
  Watched /\ ~overtaken /\ (Current \/ mpc = "move") =>
    \A h \in paired :
      \/ hset[h] = NULL \/ Same(hset[h], bound)
      \/ \E w \in Writers : h \in wto[w]
      \/ mpc = "move" /\ h \in mto

\* The bind w is going to tune the helper h, and h is up or yet to be opened.
Pending(w, h) == h \in wto[w] /\ (wat[w] = h => hup[h])

\* A helper with no excuse was tuned by the last bind, or will be.
TouchedInv ==
  state = "ACTIVE" =>
    \A h \in paired \ excused : hset[h] # NULL \/ \E w \in Writers : Pending(w, h)

FollowInv == BoundInv /\ BindsInv /\ MoveInv /\ TunedInv

IInv == SessionTypeOK /\ PlaceInv /\ FollowInv /\ TouchedInv
-----------------------------------------------------------------------------
(***************************************************************************)
(* Types.                                                                  *)
(***************************************************************************)
PCs == {"idle", "lock", "open", "read", "set"}
MPCs == {"idle", "bw", "off", "assoc", "notify", "move"}
Reads == [ch : Channels \cup {0}, bw : Bandwidths \cup {0}, off : Offsets \cup {0}]
WantOK == want \in (IF mpc \in {"bw", "off", "move"} THEN AnySetting ELSE {NoSetting})

LEMMA SettingTypes ==
  /\ NoSetting \in Reads /\ AnySetting \subseteq Reads /\ NULL \notin AnySetting
  /\ \A s \in AnySetting : s.ch \in Channels /\ s.bw \in Bandwidths /\ s.off \in Offsets \cup {0}
  /\ \A s \in Settings : s \in AnySetting
  /\ 0 \notin Channels
BY SessionAssumption DEF NoSetting, Reads, AnySetting, Settings

LEMMA InitTypes == SessionInit => SessionTypeOK
<1>. SUFFICES ASSUME SessionInit PROVE SessionTypeOK
  OBVIOUS
<1>. USE DEF SessionInit
<1>1. cur \in AnySetting /\ bound \in [ch : Channels \cup {0}, bw : Bandwidths]
  BY SettingTypes
<1>2. wpc \in [Writers -> PCs] /\ wset \in [Writers -> Reads]
  BY SettingTypes DEF PCs
<1>3. \A w \in Writers : BindSettingOK(w)
  BY DEF BindSettingOK, UnderWay
<1>4. WantOK
  BY DEF WantOK
<1>5. hup \in [Helpers -> BOOLEAN] /\ hset \in [Helpers -> AnySetting \cup {NULL}]
  OBVIOUS
<1>6. wto \in [Writers -> SUBSET Helpers] /\ wat \in [Writers -> Helpers \cup {NULL}]
  OBVIOUS
<1>. QED
  BY <1>1, <1>2, <1>3, <1>4, <1>5, <1>6, Zenon DEF SessionTypeOK, PCs, Reads, WantOK

\* The steps of bind.
LEMMA BindTypes == ASSUME SessionTypeOK, NEW w \in Writers, BindStep(w) PROVE SessionTypeOK'
<1>. USE DEF groupVars, primaryVars, helperVars, historyVars
<1>1. /\ wpc \in [Writers -> PCs] /\ wset \in [Writers -> Reads] /\ cur \in AnySetting
      /\ wto \in [Writers -> SUBSET Helpers] /\ wat \in [Writers -> Helpers \cup {NULL}]
      /\ \A v \in Writers : BindSettingOK(v)
      /\ hup \in [Helpers -> BOOLEAN] /\ hset \in [Helpers -> AnySetting \cup {NULL}]
      /\ paired \subseteq Helpers /\ excused \subseteq Helpers
  BY Zenon DEF SessionTypeOK, PCs, Reads
<1>2. UNCHANGED <<paired, cur, asoc, mpc, via, want, mto>>
  BY DEF BindStep, BindCheck, BindLock, BindOpen, BindRead, BindSet
<1>3. wpc' \in [Writers -> PCs]
  BY <1>1 DEF BindStep, BindCheck, BindLock, BindOpen, BindRead, BindSet, Go, PCs
<1>4. /\ wset' \in [Writers -> Reads]
      /\ \A v \in Writers : BindSettingOK(v)'
  <2>. USE DEF BindSettingOK, UnderWay, PCs
  <2>1. CASE BindCheck(w) \/ \E h \in Helpers : BindOpen(w, h)
    BY <1>1, <2>1 DEF BindCheck, BindOpen, Go
  <2>2. CASE BindLock(w)
    <3>1. [NoSetting EXCEPT !.ch = cur.ch] \in Reads /\ [NoSetting EXCEPT !.ch = cur.ch].ch \in Channels
      BY <1>1, SettingTypes DEF NoSetting, Reads
    <3>. QED
      BY <1>1, <2>2, <3>1, SettingTypes DEF BindLock, Go
  <2>3. CASE BindRead(w)
    <3>1. [ch |-> wset[w].ch, bw |-> cur.bw, off |-> cur.off] \in AnySetting
      BY <1>1, <2>3, SettingTypes DEF BindRead, Go, AnySetting
    <3>. QED
      BY <1>1, <2>3, <3>1, SettingTypes DEF BindRead, Go
  <2>4. CASE BindSet(w)
    <3>1. wset[w].ch \in Channels
      BY <1>1, <2>4 DEF BindSet, Go
    <3>2. [NoSetting EXCEPT !.ch = wset[w].ch] \in Reads
          /\ [NoSetting EXCEPT !.ch = wset[w].ch].ch \in Channels
      BY <3>1 DEF NoSetting, Reads
    <3>. QED
      BY <1>1, <2>4, <3>2, SettingTypes DEF BindSet, Go
  <2>. QED
    BY <2>1, <2>2, <2>3, <2>4 DEF BindStep
<1>5. wto' \in [Writers -> SUBSET Helpers] /\ wat' \in [Writers -> Helpers \cup {NULL}]
  BY <1>1 DEF BindStep, BindCheck, BindLock, BindOpen, BindRead, BindSet
<1>6. state' \in {"IDLE", "BINDING", "ACTIVE"} /\ bound' \in [ch : Channels \cup {0}, bw : Bandwidths]
  BY <1>1, SettingTypes
     DEF SessionTypeOK, BindStep, BindCheck, BindLock, BindOpen, BindRead, BindSet
<1>7. hup' \in [Helpers -> BOOLEAN] /\ excused' \subseteq Helpers
  BY <1>1 DEF BindStep, BindCheck, BindLock, BindOpen, BindRead, BindSet
<1>8. hset' \in [Helpers -> AnySetting \cup {NULL}]
  <2>1. CASE BindSet(w)
    <3>1. wset[w] \in AnySetting
      BY <1>1, <2>1 DEF BindSet, Go, BindSettingOK
    <3>. QED
      BY <1>1, <2>1, <3>1 DEF BindSet
  <2>2. CASE ~BindSet(w)
    BY <1>1, <2>2 DEF BindStep, BindCheck, BindLock, BindOpen, BindRead
  <2>. QED
    BY <2>1, <2>2
<1>9. stale' \in BOOLEAN /\ overtaken' \in BOOLEAN
  BY Zenon DEF SessionTypeOK, BindStep, BindCheck, BindLock, BindOpen, BindRead, BindSet,
               HalfUnnoticed, Overtaken
<1>. QED
  BY <1>2, <1>3, <1>4, <1>5, <1>6, <1>7, <1>8, <1>9, Zenon DEF SessionTypeOK, PCs, Reads

\* The steps of the primary.
LEMMA PrimaryTypes == ASSUME SessionTypeOK, PrimaryStep PROVE SessionTypeOK'
<1>. USE DEF groupVars, helperVars, writerVars, historyVars
<1>1. /\ cur \in AnySetting /\ WantOK /\ mpc \in MPCs
      /\ mto \subseteq Helpers /\ paired \subseteq Helpers
      /\ hset \in [Helpers -> AnySetting \cup {NULL}]
      /\ \A v \in Writers : BindSettingOK(v)
  BY Zenon DEF SessionTypeOK, WantOK, MPCs
<1>2. UNCHANGED <<state, paired, hup, wpc, wset, wto, wat, excused>>
  BY DEF PrimaryStep, Switch, SwitchOther, Join, Change, ChangeBw, ChangeOffset, Associate, Leave,
         Beacon, Notify, NotifyIf, Move, Moved
<1>3. \A v \in Writers : BindSettingOK(v)'
  BY <1>1, <1>2 DEF BindSettingOK, UnderWay
<1>. DEFINE OK == /\ cur' \in AnySetting /\ WantOK' /\ mpc' \in MPCs
                  /\ via' \in {"own", "other", "join", via}
<1>4. OK
  <2>. USE DEF WantOK, MPCs
  <2>1. ASSUME NEW s \in Settings, Switch(s) \/ SwitchOther(s) \/ Join(s) PROVE OK
    BY <1>1, <2>1, SettingTypes DEF Switch, SwitchOther, Join, Change, Mlme, AnySetting
  <2>2. CASE ChangeBw \/ ChangeOffset \/ Associate \/ Leave
    BY <1>1, <2>2 DEF ChangeBw, ChangeOffset, Associate, Leave, Mlme, AnySetting
  <2>3. ASSUME NEW b \in Bandwidths, Beacon(b) PROVE OK
    <3>1. /\ OffsetsOf(b) \subseteq Offsets \cup {0}
          /\ UNCHANGED <<mpc, via, want>>
      BY <2>3 DEF Beacon, OffsetsOf
    <3>2. PICK o \in OffsetsOf(b) : cur' = [cur EXCEPT !.bw = b, !.off = o]
      BY <2>3 DEF Beacon
    <3>3. cur' \in AnySetting
      BY <1>1, <3>1, <3>2 DEF AnySetting
    <3>. QED
      BY <1>1, <3>1, <3>3
  <2>4. CASE Notify \/ (\E h \in Helpers : Move(h)) \/ Moved
    BY <1>1, <2>4 DEF Notify, NotifyIf, Move, Moved, Mlme
  <2>. QED
    BY <2>1, <2>2, <2>3, <2>4 DEF PrimaryStep
<1>5. via' \in {"own", "other", "join"}
  BY <1>4 DEF SessionTypeOK
<1>6. mto' \subseteq Helpers
  BY <1>1 DEF PrimaryStep, Switch, SwitchOther, Join, Change, ChangeBw, ChangeOffset, Associate, Leave,
              Beacon, Notify, NotifyIf, Move, Moved
<1>7. bound' \in [ch : Channels \cup {0}, bw : Bandwidths]
  <2>1. bound' \in {bound, [ch |-> cur.ch, bw |-> cur.bw]}
    BY DEF PrimaryStep, Switch, SwitchOther, Join, Change, ChangeBw, ChangeOffset, Associate, Leave,
           Beacon, Notify, NotifyIf, Move, Moved
  <2>. QED
    BY <1>1, <2>1, SettingTypes DEF SessionTypeOK
<1>8. hset' \in [Helpers -> AnySetting \cup {NULL}]
  BY <1>1 DEF PrimaryStep, Switch, SwitchOther, Join, Change, ChangeBw, ChangeOffset,
              Associate, Leave, Beacon, Notify, NotifyIf, Move, Moved, WantOK
<1>9. asoc' \in BOOLEAN /\ stale' \in BOOLEAN /\ overtaken' \in BOOLEAN
  BY Zenon DEF SessionTypeOK, PrimaryStep, Switch, SwitchOther, Join, Change, ChangeBw, ChangeOffset,
               Associate, Leave, Beacon, Notify, NotifyIf, Move, Moved, Overtaken
<1>. QED
  BY <1>2, <1>3, <1>4, <1>5, <1>6, <1>7, <1>8, <1>9, Zenon DEF SessionTypeOK, WantOK, MPCs

\* The steps about the helpers; or nothing happens.
LEMMA HelperTypes == ASSUME SessionTypeOK, HelperStep \/ UNCHANGED sessionVars PROVE SessionTypeOK'
<1>. USE DEF groupVars, primaryVars, helperVars, writerVars, historyVars, sessionVars,
             HelperStep, Unbind, Pair, Unpair, Close, Open
<1>1. UNCHANGED <<cur, asoc, mpc, via, want, mto, wpc, wset, wto, wat, stale, overtaken>>
  OBVIOUS
<1>2. \A v \in Writers : BindSettingOK(v)'
  BY <1>1 DEF SessionTypeOK, BindSettingOK, UnderWay
<1>3. /\ state' \in {"IDLE", "BINDING", "ACTIVE"}
      /\ bound' \in [ch : Channels \cup {0}, bw : Bandwidths]
  BY DEF SessionTypeOK
<1>4. paired' \subseteq Helpers /\ excused' \subseteq Helpers
  BY DEF SessionTypeOK
<1>5. hup' \in [Helpers -> BOOLEAN]
  BY DEF SessionTypeOK
<1>6. hset' \in [Helpers -> AnySetting \cup {NULL}]
  BY DEF SessionTypeOK
<1>. QED
  BY <1>1, <1>2, <1>3, <1>4, <1>5, <1>6, Zenon DEF SessionTypeOK
-----------------------------------------------------------------------------
(***************************************************************************)
(* The steps of bind.                                                      *)
(***************************************************************************)
\* Bind before its lock, and where it looks at the primary.
LEMMA BindQuietStep ==
  ASSUME IInv, NEW w \in Writers, BindCheck(w) \/ BindRead(w)
  PROVE  PlaceInv' /\ FollowInv' /\ TouchedInv'
<1>. USE DEF IInv, FollowInv, groupVars, primaryVars, helperVars, historyVars
<1>1. /\ UNCHANGED <<state, paired, bound, cur, mpc, via, want, mto, hup, hset, wto, wat,
                     stale, overtaken, excused>>
      /\ \A v \in Writers : v # w => wpc'[v] = wpc[v] /\ wset'[v] = wset[v]
      /\ UnderWay(w)' <=> UnderWay(w)
      /\ wpc'[w] \in {"read", "set"} <=> wpc[w] \in {"read", "set"}
      /\ UnderWay(w) => wset'[w].ch = wset[w].ch
      /\ wpc'[w] = "set" => wset'[w].bw = cur.bw
  BY DEF SessionTypeOK, BindCheck, BindRead, Go, UnderWay
<1>2. \A v \in Writers : UnderWay(v)' <=> UnderWay(v)
  BY <1>1 DEF UnderWay
<1>3. PlaceInv'
  BY <1>1, <1>2 DEF PlaceInv
<1>4. BoundInv' /\ MoveInv'
  BY <1>1 DEF BoundInv, MoveInv, Watched, Same
<1>5. BindsInv'
  <2>. SUFFICES ASSUME Watched, ~overtaken, Current \/ mpc = "move", NEW v \in Writers, UnderWay(v)'
                PROVE  wset'[v].ch = bound.ch /\ (wpc'[v] = "set" => wset'[v].bw = bound.bw)
    BY <1>1 DEF BindsInv, Watched, Current, Same
  <2>1. bound.bw = cur.bw
    BY DEF BoundInv, Current, Same
  <2>2. wset[v].ch = bound.ch /\ (wpc[v] = "set" => wset[v].bw = bound.bw)
    BY <1>2 DEF BindsInv
  <2>. QED
    BY <1>1, <1>2, <2>1, <2>2
<1>6. TunedInv'
  BY <1>1 DEF TunedInv, Watched, Current, Same
<1>7. TouchedInv'
  BY <1>1 DEF TouchedInv, Pending
<1>. QED
  BY <1>3, <1>4, <1>5, <1>6, <1>7

\* bind's section under grp->lock.
LEMMA BindLockStep ==
  ASSUME IInv, NEW w \in Writers, BindLock(w)
  PROVE  PlaceInv' /\ FollowInv' /\ TouchedInv'
<1>. USE DEF IInv, FollowInv, primaryVars, helperVars
<1>1. /\ UNCHANGED <<paired, cur, mpc, via, want, mto, hup, hset, wat>>
      /\ bound'.ch = cur.ch /\ bound'.bw = cur.bw
      /\ stale' = HalfUnnoticed /\ overtaken' = Overtaken /\ excused' = {}
      /\ \A v \in Writers : v # w => wpc'[v] = wpc[v] /\ wset'[v] = wset[v] /\ wto'[v] = wto[v]
      /\ wpc[w] = "lock" /\ wto'[w] = paired /\ wpc'[w] \in {"open", "idle"}
      /\ paired # {} => wpc'[w] = "open"
      /\ wpc'[w] = "open" => wset'[w].ch = cur.ch
  BY DEF BindLock, Go, SessionTypeOK, NoSetting
<1>2. PlaceInv'
  BY <1>1 DEF PlaceInv, UnderWay
<1>3. BoundInv'
  BY <1>1 DEF BoundInv, HalfUnnoticed, Same, Watched
<1>4. MoveInv'
  BY <1>1 DEF MoveInv, Overtaken, Same
<1>5. BindsInv'
  <2>. SUFFICES ASSUME ~overtaken', NEW v \in Writers, UnderWay(v)'
                PROVE  wset'[v].ch = cur.ch /\ (wpc'[v] = "set" => wset'[v].bw = cur.bw)
    BY <1>1 DEF BindsInv
  <2>1. CASE v = w
    BY <1>1, <2>1 DEF UnderWay
  <2>2. CASE v # w
    BY <1>1, <2>2 DEF UnderWay, Overtaken
  <2>. QED
    BY <2>1, <2>2
<1>6. TunedInv'
  BY <1>1 DEF TunedInv
<1>7. TouchedInv'
  <2>. SUFFICES ASSUME NEW h \in paired PROVE Pending(w, h)'
    BY <1>1 DEF TouchedInv
  <2>1. wat[w] = NULL /\ h # NULL
    BY <1>1, SessionAssumption DEF PlaceInv, SessionTypeOK
  <2>. QED
    BY <1>1, <2>1 DEF Pending
<1>. QED
  BY <1>2, <1>3, <1>4, <1>5, <1>6, <1>7

\* bind opens a helper, or cannot.
LEMMA BindOpenStep ==
  ASSUME IInv, NEW w \in Writers, NEW h \in Helpers, BindOpen(w, h)
  PROVE  PlaceInv' /\ FollowInv' /\ TouchedInv'
<1>. USE DEF IInv, FollowInv, groupVars, primaryVars
<1>1. /\ UNCHANGED <<state, paired, bound, cur, mpc, via, want, mto, hset, wset, wto, stale, overtaken>>
      /\ \A v \in Writers : v # w => wpc'[v] = wpc[v] /\ wat'[v] = wat[v]
      /\ wpc[w] = "open" /\ wpc'[w] = "read" /\ h \in wto[w] /\ wat'[w] = h
      /\ \A g \in Helpers : hup[g] => hup'[g]
      /\ excused \subseteq excused' /\ (h \in excused' \/ hup'[h])
  BY DEF BindOpen, Go, SessionTypeOK
<1>2. \A v \in Writers : UnderWay(v)' <=> UnderWay(v)
  BY <1>1 DEF UnderWay
<1>3. PlaceInv'
  BY <1>1, <1>2 DEF PlaceInv
<1>4. BoundInv' /\ MoveInv'
  BY <1>1 DEF BoundInv, MoveInv, Watched, Same
<1>5. BindsInv'
  BY <1>1, <1>2 DEF BindsInv, Watched, Current, Same
<1>6. TunedInv'
  BY <1>1 DEF TunedInv, Watched, Current, Same
<1>7. TouchedInv'
  <2>. SUFFICES ASSUME state = "ACTIVE", NEW g \in paired \ excused', hset[g] = NULL
                PROVE  \E v \in Writers : Pending(v, g)'
    BY <1>1 DEF TouchedInv
  <2>1. PICK v \in Writers : Pending(v, g)
    BY <1>1 DEF TouchedInv
  <2>2. g \in Helpers
    BY DEF SessionTypeOK
  <2>3. Pending(v, g)'
    BY <1>1, <2>1, <2>2 DEF Pending
  <2>. QED
    BY <2>3
<1>. QED
  BY <1>3, <1>4, <1>5, <1>6, <1>7

\* bind tunes a helper.
LEMMA BindSetStep ==
  ASSUME IInv, NEW w \in Writers, BindSet(w)
  PROVE  PlaceInv' /\ FollowInv' /\ TouchedInv'
<1>. USE DEF IInv, FollowInv, groupVars, primaryVars, historyVars
<1>. DEFINE h == wat[w]
<1>0. wpc[w] = "set" /\ h \in wto[w] /\ h \in Helpers /\ h # NULL /\ wset[w] \in AnySetting
  <2>1. wpc[w] = "set"
    BY DEF BindSet, Go
  <2>2. h \in wto[w]
    BY <2>1 DEF PlaceInv
  <2>. QED
    BY <2>1, <2>2, SessionAssumption DEF SessionTypeOK, BindSettingOK
<1>1. /\ UNCHANGED <<state, paired, bound, cur, mpc, via, want, mto, hup, stale, overtaken, excused>>
      /\ \A v \in Writers : v # w => /\ wpc'[v] = wpc[v] /\ wset'[v] = wset[v]
                                    /\ wto'[v] = wto[v] /\ wat'[v] = wat[v]
      /\ wto'[w] = wto[w] \ {h} /\ wat'[w] = NULL
      /\ wpc'[w] = (IF wto'[w] = {} THEN "idle" ELSE "open")
      /\ \A g \in Helpers : g # h => hset'[g] = hset[g]
      /\ hset'[h] = (IF hup[h] THEN wset[w] ELSE NULL)
  BY <1>0 DEF BindSet, Go, SessionTypeOK
<1>2. wpc'[w] = "open" => wset'[w].ch = wset[w].ch
  BY <1>0 DEF BindSet, Go, SessionTypeOK, NoSetting
<1>3. PlaceInv'
  BY <1>0, <1>1 DEF PlaceInv, UnderWay
<1>4. BoundInv' /\ MoveInv'
  BY <1>1 DEF BoundInv, MoveInv, Watched, Same
<1>5. BindsInv'
  <2>. SUFFICES ASSUME Watched, ~overtaken, Current \/ mpc = "move", NEW v \in Writers, UnderWay(v)'
                PROVE  wset'[v].ch = bound.ch /\ (wpc'[v] = "set" => wset'[v].bw = bound.bw)
    BY <1>1 DEF BindsInv, Watched, Current, Same
  <2>1. UnderWay(v)
    BY <1>0, <1>1 DEF UnderWay
  <2>2. wset[v].ch = bound.ch /\ (wpc[v] = "set" => wset[v].bw = bound.bw)
    BY <2>1 DEF BindsInv
  <2>. QED
    BY <1>1, <1>2, <2>2 DEF UnderWay
<1>6. TunedInv'
  <2>. SUFFICES ASSUME Watched, ~overtaken, Current \/ mpc = "move", NEW g \in paired
                PROVE  \/ hset'[g] = NULL \/ Same(hset'[g], bound)
                       \/ \E v \in Writers : g \in wto'[v]
                       \/ mpc = "move" /\ g \in mto
    BY <1>1 DEF TunedInv, Watched, Current, Same
  <2>1. CASE g = h
    <3>1. wset[w].ch = bound.ch /\ wset[w].bw = bound.bw
      BY <1>0 DEF BindsInv, UnderWay
    <3>. QED
      BY <1>1, <2>1, <3>1 DEF Same
  <2>2. CASE g # h
    <3>1. g \in Helpers
      BY DEF SessionTypeOK
    <3>2. hset'[g] = hset[g] /\ \A v \in Writers : g \in wto[v] => g \in wto'[v]
      BY <1>1, <2>2, <3>1
    <3>. QED
      BY <3>2 DEF TunedInv
  <2>. QED
    BY <2>1, <2>2
<1>7. TouchedInv'
  <2>. SUFFICES ASSUME state = "ACTIVE", NEW g \in paired \ excused, hset'[g] = NULL
                PROVE  \E v \in Writers : Pending(v, g)'
    BY <1>1 DEF TouchedInv
  <2>0. g \in Helpers
    BY DEF SessionTypeOK
  <2>1. hset[g] = NULL
    <3>1. CASE g = h
      BY <1>0, <1>1, <3>1, SettingTypes DEF PlaceInv
    <3>. QED
      BY <1>1, <2>0, <3>1
  <2>2. PICK v \in Writers : Pending(v, g)
    BY <2>1 DEF TouchedInv
  <2>3. CASE g = h /\ v = w
    BY <1>0, <1>1, <2>2, <2>3, SettingTypes DEF Pending
  <2>4. CASE ~(g = h /\ v = w)
    <3>1. Pending(v, g)'
      <4>1. CASE v = w
        BY <1>0, <1>1, <2>0, <2>2, <2>4, <4>1, SessionAssumption DEF Pending
      <4>2. CASE v # w
        BY <1>1, <2>2, <4>2 DEF Pending
      <4>. QED
        BY <4>1, <4>2
    <3>. QED
      BY <3>1
  <2>. QED
    BY <2>3, <2>4
<1>. QED
  BY <1>3, <1>4, <1>5, <1>6, <1>7
-----------------------------------------------------------------------------
(***************************************************************************)
(* The steps of the primary.                                               *)
(***************************************************************************)
\* What a step of the primary that neither binds nor tunes anything leaves alone.
Quiet ==
  UNCHANGED <<state, paired, bound, hup, hset, wpc, wset, wto, wat, overtaken, excused>>

\* Such a step keeps a session followed if it is watched and current before when
\* it is afterwards.
LEMMA QuietStep ==
  ASSUME IInv, Quiet, mto' = mto,
         Watched' /\ (Current \/ mpc = "move")' => Watched /\ (Current \/ mpc = "move"),
         Watched' /\ mpc' = "move" => mpc = "move" /\ want' = want,
         Watched' /\ mpc = "move" => mpc' = "move" \/ mto = {}
  PROVE  PlaceInv' /\ BindsInv' /\ MoveInv' /\ TunedInv' /\ TouchedInv'
<1>. USE DEF IInv, FollowInv, Quiet
<1>1. \A v \in Writers : UnderWay(v)' <=> UnderWay(v)
  BY DEF UnderWay
<1>2. PlaceInv' /\ TouchedInv'
  BY <1>1 DEF PlaceInv, TouchedInv, Pending
<1>3. BindsInv'
  BY <1>1 DEF BindsInv
<1>4. MoveInv'
  BY DEF MoveInv, Same, Watched
<1>5. TunedInv'
  BY DEF TunedInv, Same
<1>. QED
  BY <1>2, <1>3, <1>4, <1>5

\* A change of the setting, step by step, and the end of a notification.
LEMMA ChangeStep ==
  ASSUME IInv,
         \/ \E s \in Settings : Switch(s) \/ SwitchOther(s) \/ Join(s)
         \/ ChangeBw \/ ChangeOffset \/ Associate \/ Leave \/ Moved
  PROVE  PlaceInv' /\ FollowInv' /\ TouchedInv'
<1>. USE DEF IInv, FollowInv
<1>1. Quiet /\ mto' = mto
  BY DEF Quiet, Switch, SwitchOther, Join, Change, ChangeBw, ChangeOffset, Associate, Leave, Moved,
         groupVars, primaryVars, helperVars, writerVars, historyVars
<1>2. \/ stale' = TRUE
      \/ mpc = "idle" /\ mpc' = "bw" /\ via' = "own" /\ cur'.bw = cur.bw /\ stale' = stale
      \/ mpc = "bw" /\ mpc' = "off" /\ via' = via /\ stale' = stale
      \/ mpc = "off" /\ (via = "own" => mpc' = "notify") /\ Same(cur', cur) /\ stale' = stale
         /\ mpc' \in {"notify", "assoc", "idle"}
      \/ mpc = "assoc" /\ mpc' = "idle" /\ cur' = cur /\ stale' = stale
      \/ mpc' = mpc /\ cur' = cur /\ via' = via /\ want' = want /\ stale' = stale
      \/ mpc = "move" /\ mto = {} /\ mpc' = "idle" /\ cur' = cur /\ stale' = stale
  <2>. USE DEF SessionTypeOK, AnySetting, Mlme, historyVars, Same
  <2>1. CASE \E s \in Settings : Switch(s) \/ SwitchOther(s) \/ Join(s)
    BY <2>1 DEF Switch, SwitchOther, Join, Change
  <2>2. CASE ChangeBw \/ ChangeOffset
    BY <2>2 DEF ChangeBw, ChangeOffset
  <2>3. CASE Associate \/ Leave \/ Moved
    BY <2>3 DEF Associate, Leave, Moved
  <2>. QED
    BY <2>1, <2>2, <2>3
<1>3. BoundInv'
  BY <1>1, <1>2 DEF Quiet, BoundInv, Watched, Same
<1>4. Watched' => Watched
  BY <1>1, <1>2 DEF Quiet, Watched
<1>5. Watched' /\ (Current \/ mpc = "move")' => Current \/ mpc = "move"
  BY <1>1, <1>2, <1>4 DEF Quiet, Watched, Current, BoundInv, Same
<1>6. Watched' /\ mpc' = "move" => mpc = "move" /\ want' = want
  BY <1>2 DEF Watched
<1>7. Watched' /\ mpc = "move" => mpc' = "move" \/ mto = {}
  BY <1>2 DEF Watched
<1>. QED
  BY <1>1, <1>3, <1>4, <1>5, <1>6, <1>7, QuietStep

\* A beacon: from now on the session is not watched.
LEMMA BeaconStep ==
  ASSUME IInv, NEW b \in Bandwidths, Beacon(b)
  PROVE  PlaceInv' /\ FollowInv' /\ TouchedInv'
<1>1. Quiet /\ mto' = mto /\ ~Watched'
  BY DEF Beacon, Quiet, Watched, groupVars, helperVars, writerVars
<1>. QED
  BY <1>1, QuietStep DEF FollowInv, BoundInv

\* The notification.
LEMMA NotifyStep ==
  ASSUME IInv, Notify
  PROVE  PlaceInv' /\ FollowInv' /\ TouchedInv'
<1>. USE DEF IInv, FollowInv, helperVars, writerVars
<1>1. UNCHANGED <<state, paired, cur, via, hup, hset, wpc, wset, wto, wat, excused>> /\ mpc = "notify"
  BY DEF Notify, NotifyIf
<1>2. CASE state = "ACTIVE" /\ cur.ch # 0 /\ ~Same(cur, bound)
  <2>1. /\ bound'.ch = cur.ch /\ bound'.bw = cur.bw /\ mpc' = "move"
        /\ want' = cur /\ mto' = paired /\ overtaken' = Overtaken
    BY <1>2 DEF Notify, NotifyIf
  <2>2. \A v \in Writers : UnderWay(v)' <=> UnderWay(v)
    BY <1>1 DEF UnderWay
  <2>3. PlaceInv' /\ TouchedInv'
    BY <1>1, <2>2 DEF PlaceInv, TouchedInv, Pending
  <2>4. BoundInv' /\ MoveInv' /\ TunedInv'
    BY <1>1, <2>1 DEF BoundInv, MoveInv, TunedInv, Same
  <2>5. BindsInv'
    BY <1>1, <2>1, <2>2 DEF BindsInv, Overtaken
  <2>. QED
    BY <2>3, <2>4, <2>5
<1>3. CASE ~(state = "ACTIVE" /\ cur.ch # 0 /\ ~Same(cur, bound))
  <2>1. Quiet /\ mto' = mto /\ stale' = stale /\ mpc' = "idle"
    BY <1>1, <1>3 DEF Quiet, Notify, NotifyIf
  <2>2. Watched' => Watched /\ Same(cur, bound)
    BY <1>3, <2>1, SettingTypes DEF Quiet, Watched, SessionTypeOK
  <2>3. BoundInv'
    BY <1>1, <2>1, <2>2 DEF BoundInv, Quiet, Same
  <2>4. Watched' => Current
    BY <1>1, <2>2 DEF Current
  <2>. QED
    BY <1>1, <2>1, <2>2, <2>3, <2>4, QuietStep
<1>. QED
  BY <1>2, <1>3

\* The notification moves a helper.
LEMMA MoveStep ==
  ASSUME IInv, NEW h \in Helpers, Move(h)
  PROVE  PlaceInv' /\ FollowInv' /\ TouchedInv'
<1>. USE DEF IInv, FollowInv, groupVars, writerVars, historyVars
<1>1. /\ UNCHANGED <<state, paired, bound, cur, mpc, via, want, hup, wpc, wset, wto, wat,
                     stale, overtaken, excused>>
      /\ mpc = "move" /\ h \in mto /\ mto' = mto \ {h}
      /\ \A g \in Helpers : g # h => hset'[g] = hset[g]
      /\ hset'[h] = (IF hup[h] THEN want ELSE hset[h])
  BY DEF Move, SessionTypeOK
<1>2. want \in AnySetting /\ want # NULL
  BY <1>1, SettingTypes DEF SessionTypeOK
<1>3. \A v \in Writers : UnderWay(v)' <=> UnderWay(v)
  BY <1>1 DEF UnderWay
<1>4. PlaceInv'
  BY <1>1, <1>3 DEF PlaceInv
<1>5. BoundInv' /\ BindsInv' /\ MoveInv'
  BY <1>1, <1>3 DEF BoundInv, BindsInv, MoveInv, Watched, Current, Same
<1>6. TunedInv'
  <2>. SUFFICES ASSUME Watched, ~overtaken, NEW g \in paired
                PROVE  \/ hset'[g] = NULL \/ Same(hset'[g], bound)
                       \/ \E v \in Writers : g \in wto[v]
                       \/ g \in mto'
    BY <1>1 DEF TunedInv, Watched, Current, Same
  <2>1. g \in Helpers
    BY DEF SessionTypeOK
  <2>2. CASE g = h
    BY <1>1, <2>2 DEF MoveInv, PlaceInv
  <2>3. CASE g # h
    BY <1>1, <2>1, <2>3 DEF TunedInv
  <2>. QED
    BY <2>2, <2>3
<1>7. TouchedInv'
  <2>1. \A g \in paired : hset'[g] = NULL => hset[g] = NULL
    BY <1>1, <1>2 DEF SessionTypeOK
  <2>. QED
    BY <1>1, <2>1 DEF TouchedInv, Pending
<1>. QED
  BY <1>4, <1>5, <1>6, <1>7

-----------------------------------------------------------------------------
\* Pairing, unbinding, and the helpers' interfaces; or nothing happens.
LEMMA HelperStepInv ==
  ASSUME IInv, HelperStep \/ UNCHANGED sessionVars
  PROVE  PlaceInv' /\ FollowInv' /\ TouchedInv'
<1>. USE DEF IInv, FollowInv
<1>1. /\ UNCHANGED <<cur, mpc, via, want, mto, wpc, wset, wto, wat, stale, overtaken>>
      /\ state' = "ACTIVE" => state = "ACTIVE" /\ bound' = bound
      /\ excused \subseteq excused' /\ excused' \subseteq Helpers
      /\ \A g \in Helpers :
           /\ hset'[g] \in {NULL, hset[g]}
           /\ g \in paired' /\ g \notin paired => hset'[g] = NULL /\ g \in excused'
           /\ g \notin excused' => hset'[g] = hset[g] /\ hup'[g] = hup[g]
           /\ ~hup'[g] => ~hup[g] \/ hset'[g] = NULL
      /\ paired' \subseteq Helpers
  BY DEF SessionTypeOK, HelperStep, Unbind, Pair, Unpair, Close, Open, sessionVars,
         groupVars, primaryVars, helperVars, writerVars, historyVars
<1>2. \A v \in Writers : UnderWay(v)' <=> UnderWay(v)
  BY <1>1 DEF UnderWay
<1>3. PlaceInv'
  BY <1>1, <1>2 DEF PlaceInv
<1>4. BoundInv' /\ BindsInv' /\ MoveInv'
  BY <1>1, <1>2 DEF BoundInv, BindsInv, MoveInv, Watched, Current, Same
<1>5. TunedInv'
  BY <1>1 DEF TunedInv, Watched, Current, Same
<1>6. TouchedInv'
  BY <1>1 DEF TouchedInv, Pending
<1>. QED
  BY <1>3, <1>4, <1>5, <1>6

-----------------------------------------------------------------------------
LEMMA InductiveIInv == SessionSpec => []IInv
<1>1. SessionInit => IInv
  <2>. SUFFICES ASSUME SessionInit PROVE IInv
    OBVIOUS
  <2>1. PlaceInv
    BY DEF SessionInit, PlaceInv
  <2>2. state = "IDLE"
    BY DEF SessionInit
  <2>. QED
    BY <2>1, <2>2, InitTypes
       DEF IInv, FollowInv, BoundInv, BindsInv, MoveInv, TunedInv, TouchedInv, Watched
<1>2. IInv /\ [SessionNext]_sessionVars => IInv'
  <2>. SUFFICES ASSUME IInv, [SessionNext]_sessionVars PROVE IInv'
    OBVIOUS
  <2>1. ASSUME NEW w \in Writers, BindStep(w) PROVE IInv'
    BY <2>1, BindTypes, BindQuietStep, BindLockStep, BindOpenStep, BindSetStep DEF IInv, BindStep
  <2>2. CASE PrimaryStep
    BY <2>2, PrimaryTypes, ChangeStep, BeaconStep, NotifyStep, MoveStep DEF IInv, PrimaryStep
  <2>3. CASE HelperStep \/ UNCHANGED sessionVars
    BY <2>3, HelperTypes, HelperStepInv DEF IInv
  <2>. QED
    BY <2>1, <2>2, <2>3 DEF SessionNext
<1>. QED
  BY <1>1, <1>2, PTL DEF SessionSpec

-----------------------------------------------------------------------------
\* The session's fields, and what binds, notifications and helpers hold of them,
\* stay in their types; in particular no helper is ever tuned to channel 0.
THEOREM SessionTypeCorrect == SessionSpec => []SessionTypeOK
<1>1. IInv => SessionTypeOK
  BY DEF IInv
<1>. QED
  BY <1>1, InductiveIInv, PTL

\* rtw_coop_rx_notify_channel_switch() keeps the bound setting of an active
\* session at the primary's, whatever bind read between two assignments, until
\* a beacon, a join or another interface of the device changes it unreported.
THEOREM SessionFollowsPrimary == SessionSpec => []BoundFollows
<1>1. IInv => BoundFollows
  BY DEF IInv, FollowInv, BoundInv, BoundFollows, Watched
<1>. QED
  BY <1>1, InductiveIInv, PTL

\* With everybody at rest the helpers of an active session have the primary's
\* channel and bandwidth, whichever way binds, switches and pairing met, unless
\* a change was not reported or one bind or notification overtook another; and
\* only helpers excused from it were not tuned.
THEOREM HelpersFollowPrimary == SessionSpec => []HelpersFollow
<1>1. IInv => HelpersFollow
  <2>. SUFFICES ASSUME IInv, state = "ACTIVE", Settled, ~stale, ~overtaken, NEW h \in paired
                PROVE  IF hset[h] = NULL THEN h \in excused ELSE Same(hset[h], cur)
    BY DEF HelpersFollow
  <2>1. \A w \in Writers : wto[w] = {}
    BY DEF IInv, PlaceInv, Settled
  <2>2. hset[h] = NULL \/ Same(hset[h], bound)
    BY <2>1 DEF IInv, FollowInv, TunedInv, Settled, Watched, Current
  <2>3. hset[h] = NULL => h \in excused
    BY <2>1 DEF IInv, TouchedInv, Pending
  <2>4. Same(bound, cur)
    BY DEF IInv, FollowInv, BoundInv, Settled, Watched
  <2>. QED
    BY <2>2, <2>3, <2>4 DEF Same
<1>. QED
  BY <1>1, InductiveIInv, PTL
=============================================================================
