--------------------------- MODULE CoopRxSession ---------------------------
(***************************************************************************)
(* The session of cooperative RX: the helpers have to listen where the     *)
(* primary does.  bind snapshots the primary's channel and the helpers     *)
(* under grp->lock and then, without it, opens each helper, has its        *)
(* command thread put it into monitor mode and sets its channel.           *)
(* Meanwhile the setting of the primary changes: by a switch of its own,   *)
(* which is notified and moves the helpers; by a switch made for another   *)
(* interface of the same device, by joining a network, and by a beacon     *)
(* that lowers the bandwidth, which are not.                               *)
(*                                                                         *)
(* The primary stays set, and the helpers are on devices of their own.  Of *)
(* a helper's command thread only this matters here: the call returns,     *)
(* sooner or later (RtwCmd shows that it does).                            *)
(***************************************************************************)
EXTENDS Integers

CONSTANTS
  Writers,    \* sysfs writers that bind
  Helpers,
  Channels,
  Bandwidths, \* in MHz
  Offsets,    \* where the second half of a channel wider than 20 MHz lies
  NULL

ASSUME SessionAssumption ==
  /\ Channels \subseteq Nat \ {0} /\ Bandwidths \subseteq Nat \ {0} /\ Offsets \subseteq Nat \ {0}
  /\ NULL \notin Helpers
  /\ NULL \notin [ch : Channels, bw : Bandwidths, off : Offsets \cup {0}]

\* What the three fields may hold, also half changed ...
AnySetting == [ch : Channels, bw : Bandwidths, off : Offsets \cup {0}]
\* ... and what a switch, a network or a beacon asks for: 20 MHz have no offset.
OffsetsOf(bw) == IF bw = 20 THEN {0} ELSE Offsets
Settings == {s \in AnySetting : s.off \in OffsetsOf(s.bw)}
NoSetting == [ch |-> 0, bw |-> 0, off |-> 0]

\* Channel and bandwidth are what the session knows of a setting.
Same(s, t) == s.ch = t.ch /\ s.bw = t.bw

VARIABLES
  state, paired,   \* grp->state; grp->helpers
  bound,           \* bound_channel, bound_bw
  cur, asoc,       \* the primary's cur_channel, cur_bwmode and cur_ch_offset; WIFI_ASOC_STATE
  mpc, via, want,  \* the primary's command thread, for whom it changes the setting, and to what
  mto,             \* the helpers of a notification still to be moved
  hup, hset,       \* a helper is IFF_UP; what it was tuned to, NULL if it was not since it was
                   \* paired or closed
  wpc, wset,       \* the writers, and what they have read of the primary's setting
  wto, wat,        \* the helpers of a bind not tuned yet, and the one it is at
  stale,           \* the setting changed without a notice since it was bound (history)
  overtaken,       \* the last bind or notification overtook an outdated one (history)
  excused          \* helpers paired, opened, closed or not to be opened since the last bind (history)

groupVars   == <<state, paired, bound>>
primaryVars == <<cur, asoc, mpc, via, want, mto>>
helperVars  == <<hup, hset>>
writerVars  == <<wpc, wset, wto, wat>>
historyVars == <<stale, overtaken, excused>>
sessionVars == <<groupVars, primaryVars, helperVars, writerVars, historyVars>>

\* A bind that has left grp->lock with its snapshot.
UnderWay(w) == wpc[w] \notin {"idle", "lock"}

\* Somebody is still going to tune a helper to something the primary has left: a
\* bind, or a notification.
Overtaken ==
  \/ \E w \in Writers :
       UnderWay(w) /\ (wset[w].ch # cur.ch \/ (wpc[w] = "set" /\ wset[w].bw # cur.bw))
  \/ mpc = "move" /\ mto # {} /\ ~Same(want, cur)

-----------------------------------------------------------------------------
(***************************************************************************)
(* Pairing, and unbind, as far as the session state is concerned; and,     *)
(* external, somebody who closes the interface of a helper or opens it.    *)
(***************************************************************************)
Pair(h) ==
  /\ h \notin paired
  /\ paired' = paired \cup {h}
  /\ state' = IF state = "IDLE" THEN "BINDING" ELSE state
  /\ hset' = [hset EXCEPT ![h] = NULL]
  /\ excused' = excused \cup {h}
  /\ UNCHANGED <<bound, primaryVars, hup, writerVars, stale, overtaken>>

Unpair(h) ==
  /\ h \in paired
  /\ paired' = paired \ {h}
  /\ state' = IF paired' = {} /\ state = "ACTIVE" THEN "IDLE" ELSE state
  /\ UNCHANGED <<bound, primaryVars, helperVars, writerVars, historyVars>>

Unbind ==
  /\ state # "IDLE"
  /\ state' = "IDLE"
  /\ bound' = [bound EXCEPT !.ch = 0]
  /\ UNCHANGED <<paired, primaryVars, helperVars, writerVars, historyVars>>

Close(h) ==
  /\ hup[h]
  /\ hup' = [hup EXCEPT ![h] = FALSE]
  /\ hset' = [hset EXCEPT ![h] = NULL]
  /\ excused' = excused \cup {h}
  /\ UNCHANGED <<groupVars, primaryVars, writerVars, stale, overtaken>>

Open(h) ==
  /\ ~hup[h]
  /\ hup' = [hup EXCEPT ![h] = TRUE]
  /\ excused' = excused \cup {h}
  /\ UNCHANGED <<groupVars, primaryVars, hset, writerVars, stale, overtaken>>

-----------------------------------------------------------------------------
(***************************************************************************)
(* rtw_coop_rx_bind_session(), and rtw_coop_rx_enable_helper_monitor() for *)
(* one helper of the snapshot after the other.                             *)
(***************************************************************************)
Go(w, from, to) == wpc[w] = from /\ wpc' = [wpc EXCEPT ![w] = to]

\* The association is looked at before the lock is taken.
BindCheck(w) ==
  /\ Go(w, "idle", "lock") /\ asoc
  /\ UNCHANGED <<groupVars, primaryVars, helperVars, wset, wto, wat, historyVars>>

\* The command thread is between two assignments of a change it will not report.
HalfUnnoticed == mpc \in {"bw", "off"} /\ via # "own"

BindLock(w) ==
  /\ Go(w, "lock", IF paired = {} THEN "idle" ELSE "open")
  /\ bound' = [ch |-> cur.ch, bw |-> cur.bw]
  /\ state' = IF paired = {} THEN state ELSE "ACTIVE"
  /\ wset' = [wset EXCEPT ![w] = IF paired = {} THEN NoSetting ELSE [NoSetting EXCEPT !.ch = cur.ch]]
  /\ wto' = [wto EXCEPT ![w] = paired]
  /\ stale' = HalfUnnoticed
  /\ overtaken' = Overtaken
  /\ excused' = {}
  /\ UNCHANGED <<paired, primaryVars, helperVars, wat>>

\* dev_open(), whose result nobody looks at, and rtw_setopmode_cmd(): whether the
\* command was refused, succeeded, failed or timed out makes no difference.
BindOpen(w, h) ==
  /\ Go(w, "open", "read")
  /\ h \in wto[w] /\ wat' = [wat EXCEPT ![w] = h]
  /\ \/ hup' = [hup EXCEPT ![h] = TRUE] /\ UNCHANGED excused
     \/ ~hup[h] /\ UNCHANGED hup /\ excused' = excused \cup {h}
  /\ UNCHANGED <<groupVars, primaryVars, hset, wset, wto, stale, overtaken>>

\* The bandwidth is the primary's present one, read without a lock; the channel
\* is the one of the snapshot.
BindRead(w) ==
  /\ Go(w, "read", "set")
  /\ wset' = [wset EXCEPT ![w] = [ch |-> @.ch, bw |-> cur.bw, off |-> cur.off]]
  /\ UNCHANGED <<groupVars, primaryVars, helperVars, wto, wat, historyVars>>

\* set_channel_bwmode(), of no use on an interface that is down.
BindSet(w) ==
  LET h == wat[w]
      last == wto[w] = {h}
  IN /\ Go(w, "set", IF last THEN "idle" ELSE "open")
     /\ hset' = [hset EXCEPT ![h] = IF hup[h] THEN wset[w] ELSE NULL]
     /\ wset' = [wset EXCEPT ![w] = IF last THEN NoSetting ELSE [NoSetting EXCEPT !.ch = wset[w].ch]]
     /\ wto' = [wto EXCEPT ![w] = @ \ {h}]
     /\ wat' = [wat EXCEPT ![w] = NULL]
     /\ UNCHANGED <<groupVars, primaryVars, hup, historyVars>>

-----------------------------------------------------------------------------
(***************************************************************************)
(* The primary's command thread, and the beacons.                          *)
(***************************************************************************)
Mlme(from, to) == mpc = from /\ mpc' = to

\* A change of the primary's setting assigns cur_channel, cur_bwmode and
\* cur_ch_offset, in this order.
Change(by, s) ==
  /\ Mlme("idle", "bw")
  /\ via' = by /\ want' = s
  /\ cur' = [cur EXCEPT !.ch = s.ch]
  /\ UNCHANGED <<groupVars, asoc, mto, helperVars, writerVars, overtaken, excused>>

\* A switch of the primary itself, and one of another interface of the device,
\* which takes every associated interface along.
Switch(s) == asoc /\ Change("own", s) /\ UNCHANGED stale

SwitchOther(s) == asoc /\ Change("other", s) /\ stale' = TRUE

\* Faulty variant: the channel of the new network is not known.
JoinUnknown(s) == ~asoc /\ Change("join", NoSetting) /\ stale' = TRUE

\* join_cmd_hdl().
Join(s) == ~asoc /\ Change("join", s) /\ stale' = TRUE

ChangeBw ==
  /\ Mlme("bw", "off")
  /\ cur' = [cur EXCEPT !.bw = want.bw]
  /\ UNCHANGED <<groupVars, asoc, via, want, mto, helperVars, writerVars, historyVars>>

ChangeOffset ==
  /\ Mlme("off", CASE via = "own" -> "notify" [] via = "join" -> "assoc" [] OTHER -> "idle")
  /\ cur' = [cur EXCEPT !.off = want.off]
  /\ via' = "own" /\ want' = NoSetting
  /\ UNCHANGED <<groupVars, asoc, mto, helperVars, writerVars, historyVars>>

\* The association succeeds, or it does not.
Associate ==
  /\ Mlme("assoc", "idle")
  /\ asoc' \in BOOLEAN
  /\ UNCHANGED <<groupVars, cur, via, want, mto, helperVars, writerVars, historyVars>>

Leave ==
  /\ asoc
  /\ asoc' = FALSE
  /\ UNCHANGED <<groupVars, cur, mpc, via, want, mto, helperVars, writerVars, historyVars>>

\* bwmode_update_check(): a beacon lowers the bandwidth, and the offset with it, at
\* any moment; bandwidths from 80 MHz on are left alone.
Beacon(b) ==
  /\ asoc
  /\ b < cur.bw /\ cur.bw < 80
  /\ \E o \in OffsetsOf(b) : cur' = [cur EXCEPT !.bw = b, !.off = o]
  /\ stale' = TRUE
  /\ UNCHANGED <<groupVars, asoc, mpc, via, want, mto, helperVars, writerVars, overtaken, excused>>

\* rtw_coop_rx_notify_channel_switch(), under grp->lock, if what it looks at has changed.
NotifyIf(changed) ==
  /\ mpc = "notify"
  /\ IF state = "ACTIVE" /\ cur.ch # 0 /\ changed
     THEN /\ bound' = [ch |-> cur.ch, bw |-> cur.bw]
          /\ mpc' = "move" /\ want' = cur /\ mto' = paired
          /\ overtaken' = Overtaken
          /\ stale' = FALSE
     ELSE mpc' = "idle" /\ UNCHANGED <<bound, want, mto, overtaken, stale>>
  /\ UNCHANGED <<state, paired, cur, asoc, via, helperVars, writerVars, excused>>

\* Faulty variant: a change of bandwidth alone is not noticed.
NotifyChannelOnly == NotifyIf(cur.ch # bound.ch)

\* A change of the offset alone is not noticed.
Notify == NotifyIf(~Same(cur, bound))

\* Faulty variant: the helper keeps its bandwidth.
MoveChannelOnly(h) ==
  /\ mpc = "move"
  /\ h \in mto /\ mto' = mto \ {h}
  /\ hset' = IF hup[h] /\ hset[h] # NULL THEN [hset EXCEPT ![h].ch = want.ch] ELSE hset
  /\ UNCHANGED <<groupVars, cur, asoc, mpc, via, want, hup, writerVars, historyVars>>

\* The helpers of the snapshot, after the unlock; one that is down is skipped.
Move(h) ==
  /\ mpc = "move"
  /\ h \in mto /\ mto' = mto \ {h}
  /\ hset' = IF hup[h] THEN [hset EXCEPT ![h] = want] ELSE hset
  /\ UNCHANGED <<groupVars, cur, asoc, mpc, via, want, hup, writerVars, historyVars>>

Moved ==
  /\ mto = {}
  /\ Mlme("move", "idle")
  /\ want' = NoSetting
  /\ UNCHANGED <<groupVars, cur, asoc, via, mto, helperVars, writerVars, historyVars>>

-----------------------------------------------------------------------------
SessionInit ==
  /\ state = "IDLE" /\ paired = {}
  /\ cur \in Settings /\ asoc = TRUE
  /\ bound = [ch |-> 0, bw |-> cur.bw]
  /\ mpc = "idle" /\ via = "own" /\ want = NoSetting /\ mto = {}
  /\ hup = [h \in Helpers |-> FALSE] /\ hset = [h \in Helpers |-> NULL]
  /\ wpc = [w \in Writers |-> "idle"] /\ wset = [w \in Writers |-> NoSetting]
  /\ wto = [w \in Writers |-> {}] /\ wat = [w \in Writers |-> NULL]
  /\ stale = FALSE /\ overtaken = FALSE /\ excused = {}

BindStep(w) ==
  \/ BindCheck(w) \/ BindLock(w) \/ (\E h \in Helpers : BindOpen(w, h))
  \/ BindRead(w) \/ BindSet(w)

PrimaryStep ==
  \/ \E s \in Settings : Switch(s) \/ SwitchOther(s) \/ Join(s)
  \/ ChangeBw \/ ChangeOffset \/ Associate \/ Leave
  \/ \E b \in Bandwidths : Beacon(b)
  \/ Notify \/ (\E h \in Helpers : Move(h)) \/ Moved

HelperStep == Unbind \/ \E h \in Helpers : Pair(h) \/ Unpair(h) \/ Close(h) \/ Open(h)

SessionNext == (\E w \in Writers : BindStep(w)) \/ PrimaryStep \/ HelperStep

SessionSpec == SessionInit /\ [][SessionNext]_sessionVars

-----------------------------------------------------------------------------
(***************************************************************************)
(* Properties.                                                             *)
(***************************************************************************)
\* The setting a bind works with: a channel at once, the rest before it is set.
BindSettingOK(w) ==
  /\ UnderWay(w) => wset[w].ch \in Channels
  /\ wpc[w] = "set" => wset[w] \in AnySetting

SessionTypeOK ==
  /\ state \in {"IDLE", "BINDING", "ACTIVE"} /\ paired \subseteq Helpers
  /\ bound \in [ch : Channels \cup {0}, bw : Bandwidths]
  /\ cur \in AnySetting /\ asoc \in BOOLEAN
  /\ mpc \in {"idle", "bw", "off", "assoc", "notify", "move"}
  /\ via \in {"own", "other", "join"}
  /\ want \in (IF mpc \in {"bw", "off", "move"} THEN AnySetting ELSE {NoSetting})
  /\ mto \subseteq Helpers
  /\ hup \in [Helpers -> BOOLEAN] /\ hset \in [Helpers -> AnySetting \cup {NULL}]
  /\ wpc \in [Writers -> {"idle", "lock", "open", "read", "set"}]
  /\ wset \in [Writers -> [ch : Channels \cup {0}, bw : Bandwidths \cup {0}, off : Offsets \cup {0}]]
  /\ \A w \in Writers : BindSettingOK(w)
  /\ wto \in [Writers -> SUBSET Helpers] /\ wat \in [Writers -> Helpers \cup {NULL}]
  /\ stale \in BOOLEAN /\ overtaken \in BOOLEAN /\ excused \subseteq Helpers

\* Nobody is on the way to change the setting of the primary or of a helper.
Settled == mpc = "idle" /\ \A w \in Writers : ~UnderWay(w)

\* While a session is active its channel and bandwidth are the primary's, also
\* where bind read them between two assignments of a channel switch: the
\* notification that follows puts that right.  That holds until something the
\* driver does not report changes the setting (stale).
BoundFollows ==
  state = "ACTIVE" /\ mpc = "idle" /\ ~stale => Same(bound, cur)

\* With everybody at rest every helper of an active session listens to the channel
\* and the bandwidth of the primary, and only one that was paired, opened or
\* closed since the last bind, or could not be opened by it, has not been tuned
\* at all.  Two things void this: a change without notice (stale), and a switch
\* or a bind that overtakes another one still under way (overtaken).
HelpersFollow ==
  state = "ACTIVE" /\ Settled /\ ~stale /\ ~overtaken =>
    \A h \in paired : IF hset[h] = NULL THEN h \in excused ELSE Same(hset[h], cur)

\* What is sent on t reaches a receiver tuned to s: the channel is the same, and
\* so is its second half if it has one.
Hears(s, t) ==
  /\ s.ch = t.ch
  /\ s.bw >= t.bw
  /\ s.bw = t.bw => s.off = t.off \/ t.bw = 20

\* "Called after the primary adapter's channel changes (CSA, roam, etc.). ... move
\* all helpers to the new channel so they continue receiving frames": with
\* everybody at rest the helpers of an active session that were tuned hear what
\* an associated primary hears.  The code does not keep it: a switch made for another interface of the
\* device and a join change the channel and nobody notifies the primary; a switch overtakes a bind, which then tunes the helper to its
\* old snapshot; and a switch that changes only the offset is notified, but
\* the notification compares channel and bandwidth.
HelpersKeepReceiving ==
  state = "ACTIVE" /\ asoc /\ Settled =>
    \A h \in paired : hset[h] # NULL => Hears(hset[h], cur)
=============================================================================
