------------------------- MODULE CoopRxGroupProofs -------------------------
(***************************************************************************)
(* Theorems about CoopRxGroup for any number of adapters, helper slots and *)
(* sysfs writers.                                                          *)
(***************************************************************************)
EXTENDS CoopRxGroup, TLAPS

(***************************************************************************)
(* Between the check and the clearing of rtw_coop_rx_remove_adapter() the  *)
(* primary is still the adapter that is being removed: set_primary refuses *)
(* any other, and only the unload clears the role behind its back.         *)
(***************************************************************************)
TeardownInv ==
  unload \in {"no", "kill"} =>
    \A a \in Adapters : unplug[a] = "teardown" => primary = a

IInv == TypeOK /\ GroupInv /\ TeardownInv

-----------------------------------------------------------------------------
(***************************************************************************)
(* What the lock sections shared by several callers do to the group.       *)
(***************************************************************************)
GroupTypeOK ==
  /\ state \in CoopState
  /\ primary \in Adapters \cup {NULL}
  /\ helpers \in [Slots -> Adapters \cup {NULL}]
  /\ num_helpers \in 0..COOP_MAX_HELPERS

\* rtw_coop_rx_set_primary() keeps the group well typed and consistent.
LEMMA SetPrimaryKeeps ==
  ASSUME NEW a \in Adapters, GroupTypeOK, GroupInv, CanSetPrimary(a), SetPrimary(a)
  PROVE  GroupTypeOK' /\ GroupInv'
  BY GroupAssumption
     DEF GroupTypeOK, GroupInv, HelpersDistinct, GroupConsistent, CanSetPrimary,
         SetPrimary, CoopState, Slots

\* rtw_coop_rx_add_helper() writes a free slot with an adapter that is not yet a
\* helper, and does not touch the primary.
LEMMA AddHelperKeeps ==
  ASSUME NEW h \in Adapters, GroupTypeOK, GroupInv, AddHelper(h)
  PROVE  GroupTypeOK' /\ GroupInv' /\ primary' = primary
<1>1. CASE CanAddHelper(h)
  <2>1. /\ num_helpers \in Nat /\ num_helpers + 1 \in Slots
        /\ num_helpers' = num_helpers + 1
        /\ helpers' = [helpers EXCEPT ![num_helpers + 1] = h]
        /\ primary' = primary /\ primary # NULL
        /\ h # NULL
    BY <1>1, GroupAssumption DEF CanAddHelper, AddHelper, GroupTypeOK, Slots
  <2>2. GroupTypeOK'
    BY <1>1, <2>1, GroupAssumption DEF GroupTypeOK, AddHelper, CanAddHelper, Slots,
       CoopState
  <2>3. \A i \in 1..num_helpers : /\ helpers'[i] = helpers[i]
                                  /\ helpers[i] # NULL /\ helpers[i] # h
    BY <1>1, <2>1, GroupAssumption
       DEF CanAddHelper, Members, GroupTypeOK, GroupInv, HelpersDistinct, Slots
  <2>4. helpers'[num_helpers + 1] = h
    BY <2>1 DEF GroupTypeOK
  <2>5. \A i \in 1..(num_helpers + 1) : i \in 1..num_helpers \/ i = num_helpers + 1
    BY <2>1
  <2>6. HelpersDistinct'
    BY <2>1, <2>3, <2>4, <2>5 DEF GroupInv, HelpersDistinct
  <2>7. GroupConsistent'
    BY <1>1, <2>1 DEF AddHelper, GroupInv, GroupConsistent, GroupTypeOK, CoopState
  <2>8. QED BY <2>1, <2>2, <2>6, <2>7 DEF GroupInv
<1>2. CASE ~CanAddHelper(h)
  BY <1>2 DEF AddHelper, grpVars, GroupTypeOK, GroupInv, HelpersDistinct,
     GroupConsistent, Slots
<1>3. QED BY <1>1, <1>2

\* rtw_coop_rx_remove_helper() closes the gap in the array, and does not touch
\* the primary.
LEMMA RemoveHelperKeeps ==
  ASSUME NEW h \in Adapters, GroupTypeOK, GroupInv, RemoveHelper(h)
  PROVE  GroupTypeOK' /\ GroupInv' /\ primary' = primary
<1>1. CASE group = "published" /\ h \in Members
  <2> DEFINE k == SlotOf(h)
  <2>1. k \in 1..num_helpers /\ helpers[k] = h
    BY <1>1 DEF Members, SlotOf
  <2>2. /\ num_helpers \in 1..COOP_MAX_HELPERS
        /\ num_helpers' = num_helpers - 1
        /\ helpers' = ShiftDown(k)
        /\ primary' = primary
    BY <1>1, <2>1, GroupAssumption DEF RemoveHelper, GroupTypeOK
  <2> HIDE DEF k
  <2>3. helpers' \in [Slots -> Adapters \cup {NULL}]
    BY <2>1, <2>2, GroupAssumption DEF ShiftDown, GroupTypeOK, Slots
  <2>4. \A i \in 1..(num_helpers - 1) :
          helpers'[i] = IF i < k THEN helpers[i] ELSE helpers[i + 1]
    BY <2>1, <2>2, GroupAssumption DEF ShiftDown, Slots
  <2>5. GroupTypeOK'
    BY <1>1, <2>2, <2>3, GroupAssumption DEF GroupTypeOK, RemoveHelper, CoopState
  <2>6. HelpersDistinct'
    <3>1. SUFFICES ASSUME NEW i \in 1..(num_helpers - 1), NEW j \in 1..(num_helpers - 1)
                   PROVE  helpers'[i] # NULL /\ (helpers'[i] = helpers'[j] => i = j)
      BY <2>2 DEF HelpersDistinct
    <3> DEFINE from(x) == IF x < k THEN x ELSE x + 1
    <3>2. /\ from(i) \in 1..num_helpers /\ from(j) \in 1..num_helpers
          /\ from(i) = from(j) => i = j
      BY <2>1, <2>2, GroupAssumption
    <3>3. helpers'[i] = helpers[from(i)] /\ helpers'[j] = helpers[from(j)]
      BY <2>4
    <3> HIDE DEF from
    <3>4. QED BY <3>2, <3>3 DEF GroupInv, HelpersDistinct
  <2>7. GroupConsistent'
    BY <1>1, <2>2, GroupAssumption DEF RemoveHelper, GroupInv, GroupConsistent,
       GroupTypeOK, CoopState
  <2>8. QED BY <2>2, <2>5, <2>6, <2>7 DEF GroupInv
<1>2. CASE ~(group = "published" /\ h \in Members)
  BY <1>2 DEF RemoveHelper, grpVars, GroupTypeOK, GroupInv, HelpersDistinct,
     GroupConsistent, Slots
<1>3. QED BY <1>1, <1>2

-----------------------------------------------------------------------------
\* The initial group is empty and IDLE, nobody is in a store function.
LEMMA InitIInv == Init => IInv
<1>1. Init => queued \in BOOLEAN
  BY Zenon DEF Init
<1>2. QED
  BY <1>1, GroupAssumption
     DEF Init, IInv, TypeOK, GroupInv, HelpersDistinct, GroupConsistent, EmptySlots,
         TeardownInv, CoopState, Slots

\* A step that leaves the group alone keeps GroupInv, and the group's types.
LEMMA GroupUnchanged ==
  ASSUME GroupTypeOK, GroupInv, UNCHANGED grpVars
  PROVE  GroupTypeOK' /\ GroupInv' /\ primary' = primary
  BY DEF grpVars, GroupTypeOK, GroupInv, HelpersDistinct, GroupConsistent, Slots

(***************************************************************************)
(* The inductive step.  Each action is shown to keep the types, the group  *)
(* and the teardown's primary.                                             *)
(***************************************************************************)
LEMMA StepIInv == IInv /\ [Next]_vars => IInv'
<1> SUFFICES ASSUME IInv, [Next]_vars PROVE IInv'
  OBVIOUS
<1> USE GroupAssumption
<1>t. GroupTypeOK /\ GroupInv
  BY DEF IInv, TypeOK, GroupTypeOK
<1>1. ASSUME NEW t \in Tasks, NEW a \in Adapters, NEW h \in Adapters, StorePair(t, a, h) PROVE IInv'
  <2>1. GroupTypeOK' /\ GroupInv'
    BY <1>1, <1>t, SetPrimaryKeeps DEF StorePair
  <2>2. TypeOK'
    BY <1>1, <2>1 DEF IInv, TypeOK, GroupTypeOK, StorePair,
       CanSetPrimary, SetPrimary, Enter, HasAttributes, devVars
  <2>3. TeardownInv'
    BY <1>1, <2>1 DEF IInv, TypeOK, TeardownInv, StorePair, CanSetPrimary,
       SetPrimary, Enter, HasAttributes, devVars
  <2>4. QED BY <2>1, <2>2, <2>3 DEF IInv
<1>2. ASSUME NEW t \in Tasks, PairAddHelper(t) PROVE IInv'
  <2>1. GroupTypeOK' /\ GroupInv' /\ primary' = primary
    BY <1>2, <1>t, AddHelperKeeps, GroupUnchanged DEF PairAddHelper, IInv, TypeOK
  <2>2. TypeOK'
    BY <1>2, <2>1 DEF IInv, TypeOK, GroupTypeOK, PairAddHelper,
       Return, devVars
  <2>3. TeardownInv'
    BY <1>2, <2>1 DEF IInv, TypeOK, TeardownInv, PairAddHelper, Return, devVars
  <2>4. QED BY <2>1, <2>2, <2>3 DEF IInv
<1>3. ASSUME NEW t \in Tasks, NEW a \in Adapters, StoreAutoPair(t, a) PROVE IInv'
  <2>1. GroupTypeOK' /\ GroupInv'
    BY <1>3, <1>t, SetPrimaryKeeps DEF StoreAutoPair
  <2>2. TypeOK'
    BY <1>3, <2>1 DEF IInv, TypeOK, GroupTypeOK, StoreAutoPair,
       CanSetPrimary, SetPrimary, Enter, HasAttributes, devVars
  <2>3. TeardownInv'
    BY <1>3, <2>1 DEF IInv, TypeOK, TeardownInv, StoreAutoPair, CanSetPrimary,
       SetPrimary, Enter, HasAttributes, devVars
  <2>4. QED BY <2>1, <2>2, <2>3 DEF IInv
<1>4. ASSUME NEW t \in Tasks, DiscoverStart(t) PROVE IInv'
  <2>1. GroupTypeOK' /\ GroupInv' /\ primary' = primary
    BY <1>4, <1>t, GroupUnchanged DEF DiscoverStart
  <2>2. TypeOK'
    BY <1>4, <2>1 DEF IInv, TypeOK, GroupTypeOK, DiscoverStart,
       grpVars
  <2>3. TeardownInv'
    BY <1>4, <2>1 DEF IInv, TypeOK, TeardownInv, DiscoverStart, grpVars
  <2>4. QED BY <2>1, <2>2, <2>3 DEF IInv
<1>5. ASSUME NEW t \in Tasks, DiscoverHelper(t) PROVE IInv'
  <2>1. GroupTypeOK' /\ GroupInv' /\ primary' = primary
    BY <1>5, <1>t, AddHelperKeeps DEF DiscoverHelper, IInv, TypeOK
  <2>2. TypeOK'
    BY <1>5, <2>1 DEF IInv, TypeOK, GroupTypeOK, DiscoverHelper, devVars
  <2>3. TeardownInv'
    BY <1>5, <2>1 DEF IInv, TypeOK, TeardownInv, DiscoverHelper, devVars
  <2>4. QED BY <2>1, <2>2, <2>3 DEF IInv
<1>6. ASSUME NEW t \in Tasks, DiscoverDone(t) PROVE IInv'
  <2>1. GroupTypeOK' /\ GroupInv' /\ primary' = primary
    BY <1>6, <1>t, GroupUnchanged DEF DiscoverDone
  <2>2. TypeOK'
    BY <1>6, <2>1 DEF IInv, TypeOK, GroupTypeOK, DiscoverDone,
       Return, grpVars
  <2>3. TeardownInv'
    BY <1>6, <2>1 DEF IInv, TypeOK, TeardownInv, DiscoverDone, Return, grpVars
  <2>4. QED BY <2>1, <2>2, <2>3 DEF IInv
<1>7. ASSUME NEW t \in Tasks, NEW h \in Adapters, StoreUnpair(t, h) PROVE IInv'
  <2>1. GroupTypeOK' /\ GroupInv' /\ primary' = primary
    BY <1>7, <1>t, RemoveHelperKeeps DEF StoreUnpair
  <2>2. TypeOK'
    BY <1>7, <2>1 DEF IInv, TypeOK, GroupTypeOK, StoreUnpair,
       taskVars, devVars
  <2>3. TeardownInv'
    BY <1>7, <2>1 DEF IInv, TypeOK, TeardownInv, StoreUnpair, taskVars, devVars
  <2>4. QED BY <2>1, <2>2, <2>3 DEF IInv
<1>8. ASSUME NEW t \in Tasks, NEW a \in Adapters, StoreBind(t, a) PROVE IInv'
  <2>1. GroupTypeOK' /\ GroupInv' /\ primary' = primary
    BY <1>8, <1>t, GroupUnchanged DEF StoreBind
  <2>2. TypeOK'
    BY <1>8, <2>1 DEF IInv, TypeOK, GroupTypeOK, StoreBind,
       Enter, HasAttributes, grpVars, devVars
  <2>3. TeardownInv'
    BY <1>8, <2>1 DEF IInv, TypeOK, TeardownInv, StoreBind, Enter, HasAttributes,
       grpVars, devVars
  <2>4. QED BY <2>1, <2>2, <2>3 DEF IInv
<1>9. ASSUME NEW t \in Tasks, BindLock(t) PROVE IInv'
  <2>1. GroupTypeOK' /\ GroupInv' /\ primary' = primary
    BY <1>9, <1>t DEF BindLock, GroupTypeOK, GroupInv, HelpersDistinct,
       GroupConsistent, CoopState, Slots
  <2>m. Members \subseteq Adapters
    BY <1>t DEF GroupTypeOK, GroupInv, HelpersDistinct, Members, Slots
  <2>2. TypeOK'
    BY <1>9, <2>1, <2>m DEF IInv, TypeOK, GroupTypeOK, BindLock, devVars
  <2>3. TeardownInv'
    BY <1>9, <2>1 DEF IInv, TypeOK, TeardownInv, BindLock, devVars
  <2>4. QED BY <2>1, <2>2, <2>3 DEF IInv
<1>c. ASSUME NEW t \in Tasks, BindCrypto(t) PROVE IInv'
  <2>1. GroupTypeOK' /\ GroupInv' /\ primary' = primary
    BY <1>c, <1>t, GroupUnchanged DEF BindCrypto
  <2>2. TypeOK'
    BY <1>c, <2>1 DEF IInv, TypeOK, GroupTypeOK, BindCrypto, grpVars, devVars
  <2>3. TeardownInv'
    BY <1>c, <2>1 DEF IInv, TypeOK, TeardownInv, BindCrypto, grpVars, devVars
  <2>4. QED BY <2>1, <2>2, <2>3 DEF IInv
<1>10. ASSUME NEW t \in Tasks, BindMonitor(t) PROVE IInv'
  <2>1. GroupTypeOK' /\ GroupInv' /\ primary' = primary
    BY <1>10, <1>t, GroupUnchanged DEF BindMonitor
  <2>2. TypeOK'
    BY <1>10, <2>1 DEF IInv, TypeOK, GroupTypeOK, BindMonitor,
       grpVars, devVars
  <2>3. TeardownInv'
    BY <1>10, <2>1 DEF IInv, TypeOK, TeardownInv, BindMonitor, grpVars, devVars
  <2>4. QED BY <2>1, <2>2, <2>3 DEF IInv
<1>11. ASSUME NEW t \in Tasks, BindDone(t) PROVE IInv'
  <2>1. GroupTypeOK' /\ GroupInv' /\ primary' = primary
    BY <1>11, <1>t, GroupUnchanged DEF BindDone
  <2>2. TypeOK'
    BY <1>11, <2>1 DEF IInv, TypeOK, GroupTypeOK, BindDone,
       Return, grpVars, devVars
  <2>3. TeardownInv'
    BY <1>11, <2>1 DEF IInv, TypeOK, TeardownInv, BindDone, Return, grpVars, devVars
  <2>4. QED BY <2>1, <2>2, <2>3 DEF IInv
<1>12. ASSUME NEW t \in Tasks, NEW a \in Adapters, StoreUnbind(t, a) PROVE IInv'
  <2>1. GroupTypeOK' /\ GroupInv' /\ primary' = primary
    BY <1>12, <1>t, GroupUnchanged DEF StoreUnbind
  <2>2. TypeOK'
    BY <1>12, <2>1 DEF IInv, TypeOK, GroupTypeOK, StoreUnbind,
       Enter, HasAttributes, grpVars, devVars
  <2>3. TeardownInv'
    BY <1>12, <2>1 DEF IInv, TypeOK, TeardownInv, StoreUnbind, Enter, HasAttributes,
       grpVars, devVars
  <2>4. QED BY <2>1, <2>2, <2>3 DEF IInv
<1>13. ASSUME NEW t \in Tasks, UnbindLock(t) PROVE IInv'
  <2>1. GroupTypeOK' /\ GroupInv' /\ primary' = primary
    BY <1>13, <1>t DEF UnbindLock, GroupTypeOK, GroupInv, HelpersDistinct,
       GroupConsistent, CoopState, Slots
  <2>2. TypeOK'
    BY <1>13, <2>1 DEF IInv, TypeOK, GroupTypeOK, UnbindLock,
       devVars
  <2>3. TeardownInv'
    BY <1>13, <2>1 DEF IInv, TypeOK, TeardownInv, UnbindLock, devVars
  <2>4. QED BY <2>1, <2>2, <2>3 DEF IInv
<1>14. ASSUME NEW t \in Tasks, UnbindDrain(t) PROVE IInv'
  <2>1. GroupTypeOK' /\ GroupInv' /\ primary' = primary
    BY <1>14, <1>t, GroupUnchanged DEF UnbindDrain
  <2>2. TypeOK'
    BY <1>14, <2>1 DEF IInv, TypeOK, GroupTypeOK, UnbindDrain,
       Return, grpVars, devVars
  <2>3. TeardownInv'
    BY <1>14, <2>1 DEF IInv, TypeOK, TeardownInv, UnbindDrain, Return, grpVars, devVars
  <2>4. QED BY <2>1, <2>2, <2>3 DEF IInv
<1>15. ASSUME NEW a \in Adapters, RemoveAsHelper(a) PROVE IInv'
  <2>1. GroupTypeOK' /\ GroupInv' /\ primary' = primary
    BY <1>15, <1>t, RemoveHelperKeeps DEF RemoveAsHelper
  <2>2. TypeOK'
    BY <1>15, <2>1 DEF IInv, TypeOK, GroupTypeOK, RemoveAsHelper, taskVars
  <2>3. TeardownInv'
    BY <1>15, <2>1 DEF IInv, TypeOK, TeardownInv, RemoveAsHelper, taskVars
  <2>4. QED BY <2>1, <2>2, <2>3 DEF IInv
<1>16. ASSUME NEW a \in Adapters, RemoveCheckPrimary(a) PROVE IInv'
  <2>1. GroupTypeOK' /\ GroupInv' /\ primary' = primary
    BY <1>16, <1>t, GroupUnchanged DEF RemoveCheckPrimary
  <2>2. TypeOK'
    BY <1>16, <2>1 DEF IInv, TypeOK, GroupTypeOK, RemoveCheckPrimary, taskVars, grpVars
  <2>3. TeardownInv'
    BY <1>16, <2>1 DEF IInv, TypeOK, TeardownInv, RemoveCheckPrimary, taskVars, grpVars
  <2>4. QED BY <2>1, <2>2, <2>3 DEF IInv
<1>17. ASSUME NEW a \in Adapters, RemoveTeardown(a) PROVE IInv'
  <2>1. GroupTypeOK' /\ GroupInv'
    BY <1>17, <1>t DEF RemoveTeardown, GroupTypeOK, GroupInv, HelpersDistinct,
       GroupConsistent, CoopState, Slots, EmptySlots
  <2>2. TypeOK'
    BY <1>17, <2>1 DEF IInv, TypeOK, GroupTypeOK, RemoveTeardown, taskVars
  <2>3. TeardownInv'
    BY <1>17, <2>1 DEF IInv, TypeOK, TeardownInv, RemoveTeardown, taskVars
  <2>4. QED BY <2>1, <2>2, <2>3 DEF IInv
<1>18. ASSUME NEW a \in Adapters, RemoveAttributes(a) PROVE IInv'
  <2>1. GroupTypeOK' /\ GroupInv' /\ primary' = primary
    BY <1>18, <1>t, GroupUnchanged DEF RemoveAttributes
  <2>2. TypeOK'
    BY <1>18, <2>1 DEF IInv, TypeOK, GroupTypeOK, RemoveAttributes, taskVars, grpVars
  <2>3. TeardownInv'
    BY <1>18, <2>1 DEF IInv, TypeOK, TeardownInv, RemoveAttributes, taskVars, grpVars
  <2>4. QED BY <2>1, <2>2, <2>3 DEF IInv
<1>19. ASSUME NEW a \in Adapters, Unregister(a) PROVE IInv'
  <2>1. GroupTypeOK' /\ GroupInv' /\ primary' = primary
    BY <1>19, <1>t, GroupUnchanged DEF Unregister
  <2>2. TypeOK'
    BY <1>19, <2>1 DEF IInv, TypeOK, GroupTypeOK, Unregister,
       Drained, taskVars, grpVars
  <2>3. TeardownInv'
    BY <1>19, <2>1 DEF IInv, TypeOK, TeardownInv, Unregister, Drained, taskVars, grpVars
  <2>4. QED BY <2>1, <2>2, <2>3 DEF IInv
<1>20. ASSUME NEW a \in Adapters, FreeAdapter(a) PROVE IInv'
  <2>1. GroupTypeOK' /\ GroupInv' /\ primary' = primary
    BY <1>20, <1>t, GroupUnchanged DEF FreeAdapter
  <2>2. TypeOK'
    BY <1>20, <2>1 DEF IInv, TypeOK, GroupTypeOK, FreeAdapter,
       taskVars, grpVars
  <2>3. TeardownInv'
    BY <1>20, <2>1 DEF IInv, TypeOK, TeardownInv, FreeAdapter, taskVars, grpVars
  <2>4. QED BY <2>1, <2>2, <2>3 DEF IInv
<1>21. ASSUME NEW a \in Adapters, DelStart(a) PROVE IInv'
  <2>1. GroupTypeOK' /\ GroupInv' /\ primary' = primary
    BY <1>21, <1>t, GroupUnchanged DEF DelStart
  <2>2. TypeOK'
    BY <1>21, <2>1 DEF IInv, TypeOK, GroupTypeOK, DelStart,
       taskVars, grpVars
  <2>3. TeardownInv'
    BY <1>21, <2>1 DEF IInv, TypeOK, TeardownInv, DelStart, taskVars, grpVars
  <2>4. QED BY <2>1, <2>2, <2>3 DEF IInv
<1>22. ASSUME NEW a \in Adapters, DelUnregister(a) PROVE IInv'
  <2>1. GroupTypeOK' /\ GroupInv' /\ primary' = primary
    BY <1>22, <1>t, GroupUnchanged DEF DelUnregister
  <2>2. TypeOK'
    BY <1>22, <2>1 DEF IInv, TypeOK, GroupTypeOK, DelUnregister, Drained, taskVars, grpVars
  <2>3. TeardownInv'
    BY <1>22, <2>1 DEF IInv, TypeOK, TeardownInv, DelUnregister, Drained, taskVars,
       grpVars
  <2>4. QED BY <2>1, <2>2, <2>3 DEF IInv
<1>23. CASE DeinitKill
  <2>1. GroupTypeOK' /\ GroupInv' /\ primary' = primary
    BY <1>23, <1>t, GroupUnchanged DEF DeinitKill
  <2>2. TypeOK'
    BY <1>23, <2>1 DEF IInv, TypeOK, GroupTypeOK, DeinitKill,
       taskVars, devVars, grpVars
  <2>3. TeardownInv'
    BY <1>23, <2>1 DEF IInv, TypeOK, TeardownInv, DeinitKill, taskVars, devVars, grpVars
  <2>4. QED BY <2>1, <2>2, <2>3 DEF IInv
<1>24. CASE DeinitLock
  <2>1. GroupTypeOK' /\ GroupInv'
    BY <1>24, <1>t DEF DeinitLock, GroupTypeOK, GroupInv, HelpersDistinct,
       GroupConsistent, CoopState, Slots
  <2>2. TypeOK'
    BY <1>24, <2>1 DEF IInv, TypeOK, GroupTypeOK, DeinitLock,
       taskVars, devVars
  <2>3. TeardownInv'
    BY <1>24, <2>1 DEF IInv, TypeOK, TeardownInv, DeinitLock, taskVars, devVars
  <2>4. QED BY <2>1, <2>2, <2>3 DEF IInv
<1>25. CASE DeinitUnpublish
  <2>1. GroupTypeOK' /\ GroupInv' /\ primary' = primary
    BY <1>25, <1>t, GroupUnchanged DEF DeinitUnpublish
  <2>2. TypeOK'
    BY <1>25, <2>1 DEF IInv, TypeOK, GroupTypeOK, DeinitUnpublish, taskVars, devVars, grpVars
  <2>3. TeardownInv'
    BY <1>25, <2>1 DEF IInv, TypeOK, TeardownInv, DeinitUnpublish, taskVars,
       devVars, grpVars
  <2>4. QED BY <2>1, <2>2, <2>3 DEF IInv
<1>26. CASE DeinitFree
  <2>1. GroupTypeOK' /\ GroupInv' /\ primary' = primary
    BY <1>26, <1>t, GroupUnchanged DEF DeinitFree
  <2>2. TypeOK'
    BY <1>26, <2>1 DEF IInv, TypeOK, GroupTypeOK, DeinitFree,
       taskVars, devVars, grpVars
  <2>3. TeardownInv'
    BY <1>26, <2>1 DEF IInv, TypeOK, TeardownInv, DeinitFree, taskVars, devVars, grpVars
  <2>4. QED BY <2>1, <2>2, <2>3 DEF IInv
<1>s. CASE Submit \/ FramesLeave
  <2>1. GroupTypeOK' /\ GroupInv' /\ primary' = primary
    BY <1>s, <1>t, GroupUnchanged DEF Submit, FramesLeave
  <2>2. TypeOK'
    BY <1>s, <2>1 DEF IInv, TypeOK, GroupTypeOK, Submit, FramesLeave, taskVars,
       devVars, grpVars
  <2>3. TeardownInv'
    BY <1>s, <2>1 DEF IInv, TypeOK, TeardownInv, Submit, FramesLeave, taskVars,
       devVars, grpVars
  <2>4. QED BY <2>1, <2>2, <2>3 DEF IInv
<1>27. CASE UNCHANGED vars
  <2>1. GroupTypeOK' /\ GroupInv' /\ primary' = primary
    BY <1>27, <1>t, GroupUnchanged DEF vars
  <2>2. QED
    BY <1>27, <2>1 DEF vars, taskVars, devVars, IInv, TypeOK, GroupTypeOK,
       TeardownInv
<1>28. QED
  BY <1>1, <1>2, <1>3, <1>4, <1>5, <1>6, <1>7, <1>8, <1>9, <1>10, <1>11, <1>12,
     <1>13, <1>14, <1>15, <1>16, <1>17, <1>18, <1>19, <1>20, <1>21, <1>22, <1>23,
     <1>24, <1>25, <1>26, <1>27, <1>c, <1>s
     DEF Next, Sysfs, Disconnect, DelInterface, Deinit

\* The inductive invariant holds in every reachable state.
LEMMA InvariantIInv == Spec => []IInv
  BY InitIInv, StepIInv, PTL DEF Spec

(***************************************************************************)
(* The variables keep their types: in particular the index of the helper   *)
(* array never leaves it, for any COOP_MAX_HELPERS.                        *)
(***************************************************************************)
THEOREM GroupTypeCorrect == Spec => []TypeOK
<1>1. IInv => TypeOK BY DEF IInv
<1>2. QED BY <1>1, InvariantIInv, PTL

(***************************************************************************)
(* Whatever the sysfs writers, the disconnects and the unload do, an       *)
(* ACTIVE group has a primary and distinct, non-null helpers.              *)
(***************************************************************************)
THEOREM GroupStaysConsistent == Spec => []GroupInv
<1>1. IInv => GroupInv BY DEF IInv
<1>2. QED BY <1>1, InvariantIInv, PTL

(***************************************************************************)
(* Outside of an unload a primary leaves its role only by its own          *)
(* disconnect, although remove_adapter drops the lock in the middle.       *)
(***************************************************************************)
THEOREM PrimaryLeavesByItself == Spec => PrimaryStepsDown
<1> DEFINE Leaves == primary # NULL /\ primary' # primary =>
                       primary' = NULL /\ (unload # "no" \/ unplug[primary] = "teardown")
<1>1. IInv /\ [Next]_vars => [Leaves]_vars
  <2> SUFFICES ASSUME IInv, Next, primary # NULL, primary' # primary
               PROVE  primary' = NULL /\ (unload # "no" \/ unplug[primary] = "teardown")
    BY DEF vars
  <2>t. GroupTypeOK /\ GroupInv
    BY DEF IInv, TypeOK, GroupTypeOK
  <2>1. CASE \E t \in Tasks : Sysfs(t)
    <3>1. PICK t \in Tasks : Sysfs(t)
      BY <2>1
    <3>2. \A h \in Adapters : AddHelper(h) \/ RemoveHelper(h) => primary' = primary
      BY <2>t, AddHelperKeeps, RemoveHelperKeeps
    <3>3. snap[t] \subseteq Adapters
      BY DEF IInv, TypeOK
    <3>4. ASSUME NEW a \in Adapters, CanSetPrimary(a), SetPrimary(a) PROVE FALSE
      BY <3>4 DEF CanSetPrimary, SetPrimary
    <3>5. ~PairAddHelper(t)
      BY <3>2, <3>3 DEF PairAddHelper, grpVars
    <3>6. ~DiscoverHelper(t)
      BY <3>2, <3>3 DEF DiscoverHelper
    <3>7. \A h \in Adapters : ~StoreUnpair(t, h)
      BY <3>2 DEF StoreUnpair
    <3>8. \A a, h \in Adapters : ~StorePair(t, a, h) /\ ~StoreAutoPair(t, a)
      BY <3>4 DEF StorePair, StoreAutoPair
    <3>9. QED
      BY <3>1, <3>5, <3>6, <3>7, <3>8
         DEF Sysfs, DiscoverStart, DiscoverDone, StoreBind, BindLock, BindCrypto, BindMonitor,
             BindDone, StoreUnbind, UnbindLock, UnbindDrain, grpVars
  <2>2. CASE \E a \in Adapters : Disconnect(a) \/ DelInterface(a)
    <3>1. PICK a \in Adapters : Disconnect(a) \/ DelInterface(a)
      BY <2>2
    <3>2. RemoveHelper(a) => primary' = primary
      BY <2>t, RemoveHelperKeeps
    <3>3. RemoveTeardown(a)
      BY <3>1, <3>2
         DEF Disconnect, DelInterface, RemoveAsHelper, RemoveCheckPrimary, RemoveAttributes,
             Unregister, FreeAdapter, DelStart, DelUnregister, grpVars
    <3>4. QED
      BY <3>3 DEF RemoveTeardown, IInv, TypeOK, TeardownInv
  <2>3. CASE Deinit
    BY <2>3 DEF Deinit, DeinitKill, DeinitLock, DeinitUnpublish, DeinitFree, grpVars
  <2>4. CASE Submit \/ FramesLeave
    BY <2>4 DEF Submit, FramesLeave, grpVars
  <2>5. QED BY <2>1, <2>2, <2>3, <2>4 DEF Next
<1>2. QED
  BY <1>1, InvariantIInv, PTL DEF Spec, PrimaryStepsDown
=============================================================================
