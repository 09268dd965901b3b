--------------------------- MODULE ModifiersProofs ---------------------------
(***************************************************************************)
(* Proofs about Modifiers, for every queue size.                           *)
(***************************************************************************)
EXTENDS Modifiers, TLAPS

(* The part of TypeOK that the counting depends on *)
CountTypes ==
    /\ mods \in [Keys -> ModState]
    /\ seen \subseteq Keys /\ lock \subseteq Keys
    /\ used \subseteq seen /\ missed \subseteq Keys

(* A modifier is marked as used in its state exactly if another key was    *)
(* pressed while the widget knew it to be down.                            *)
UsedKnown ==
    \A k \in Keys \ missed :
        mods[k] \in {"INSTANT_USED", "LOCKED_INSTANT_USED"} <=> k \in used

(***************************************************************************)
(* The inductive invariant. ModifiersCount does not say which releases     *)
(* change the lock; UsedKnown does.                                        *)
(***************************************************************************)
IInv == CountTypes /\ ModifiersCount /\ UsedKnown

(* Both modifiers start idle and released. *)
LEMMA InitIInv == Init => IInv
  BY DEF Init, IInv, CountTypes, ModifiersCount, UsedKnown, ModState, Keys,
         mod_instant, mod_locked, mod_active

(* What mod_down() and mod_up() do to one modifier *)
LEMMA ModifierStates ==
    ASSUME NEW s \in ModState
    PROVE  /\ mod_down(s) \in ModState /\ mod_up(s) \in ModState /\ mod_down_other(s) \in ModState
           /\ mod_instant(mod_down(s)) /\ ~mod_instant(mod_up(s))
           /\ mod_instant(mod_down_other(s)) <=> mod_instant(s)
           /\ mod_locked(mod_down(s)) <=> mod_locked(s)
           /\ mod_locked(mod_down_other(s)) <=> mod_locked(s)
           /\ mod_active(s) <=> ~(mod_locked(s) <=> mod_instant(s))
           /\ mod_instant(s) => (mod_locked(mod_up(s)) <=>
                 (mod_locked(s) <=> s \in {"INSTANT_USED", "LOCKED_INSTANT_USED"}))
           /\ ~mod_instant(s) => mod_up(s) = s /\ s \notin {"INSTANT_USED", "LOCKED_INSTANT_USED"}
           /\ mod_up(s) \notin {"INSTANT_USED", "LOCKED_INSTANT_USED"}
           /\ mod_down(s) \in {"INSTANT_USED", "LOCKED_INSTANT_USED"}
                 <=> s \in {"INSTANT_USED", "LOCKED_INSTANT_USED"}
           /\ mod_down_other(s) \in {"INSTANT_USED", "LOCKED_INSTANT_USED"} <=> mod_instant(s)
<1>1. s \in {"IDLE", "INSTANT", "INSTANT_USED", "LOCKED", "LOCKED_INSTANT", "LOCKED_INSTANT_USED"}
  BY DEF ModState
<1>2. CASE s = "IDLE"
  BY <1>2 DEF ModState, mod_down, mod_up, mod_down_other, mod_instant, mod_locked, mod_active
<1>3. CASE s = "INSTANT"
  BY <1>3 DEF ModState, mod_down, mod_up, mod_down_other, mod_instant, mod_locked, mod_active
<1>4. CASE s = "INSTANT_USED"
  BY <1>4 DEF ModState, mod_down, mod_up, mod_down_other, mod_instant, mod_locked, mod_active
<1>5. CASE s = "LOCKED"
  BY <1>5 DEF ModState, mod_down, mod_up, mod_down_other, mod_instant, mod_locked, mod_active
<1>6. CASE s = "LOCKED_INSTANT"
  BY <1>6 DEF ModState, mod_down, mod_up, mod_down_other, mod_instant, mod_locked, mod_active
<1>7. CASE s = "LOCKED_INSTANT_USED"
  BY <1>7 DEF ModState, mod_down, mod_up, mod_down_other, mod_instant, mod_locked, mod_active
<1> QED BY <1>1, <1>2, <1>3, <1>4, <1>5, <1>6, <1>7

(* The keyboard driver and pe_draw() touch neither the states nor the      *)
(* counts.                                                                 *)
LEMMA Untouched == IInv /\ UNCHANGED <<mods, count>> => IInv'
  BY DEF IInv, CountTypes, ModifiersCount, UsedKnown, count

(* An event of a modifier: its state and its counts change together, and   *)
(* those of the other modifier do not.                                     *)
LEMMA ModifierIInv == IInv /\ ModifierEvent => IInv'
<1> SUFFICES ASSUME IInv, ModifierEvent PROVE IInv'
  OBVIOUS
<1> DEFINE type == Event[1]
           key == Event[2]
           new == IF type = "UP" THEN mod_up(mods[key]) ELSE mod_down(mods[key])
<1>1. /\ key \in Keys /\ mods' = [mods EXCEPT ![key] = new] /\ CountModifier(type, key)
  BY DEF ModifierEvent, SetMods
<1>2. mods \in [Keys -> ModState] /\ mods[key] \in ModState
  BY <1>1 DEF IInv, CountTypes
<1>3. new \in ModState /\ mods'[key] = new /\ mods' \in [Keys -> ModState]
      /\ \A k \in Keys \ {key} : mods'[k] = mods[k]
  BY <1>1, <1>2, ModifierStates
<1> HIDE DEF type, key
<1>4. CASE type = "UP"
  <2>1. /\ seen' = seen \ {key} /\ used' = used \ {key} /\ missed' = missed \ {key}
        /\ lock' = IF key \notin missed
                   THEN (IF key \in used \/ key \notin seen THEN lock
                         ELSE (lock \ {key}) \cup ({key} \ lock))
                   ELSE (lock \ {key}) \cup {k \in {key} : mod_locked(mods'[k])}
    BY <1>1, <1>4 DEF CountModifier
  <2>2. CountTypes'
    BY <1>1, <1>3, <2>1 DEF IInv, CountTypes
  <2>3. key \notin missed => (key \in lock' <=> mod_locked(new))
    <3>1. new = mod_up(mods[key])
      BY <1>4
    <3> HIDE DEF new
    <3> SUFFICES ASSUME key \notin missed PROVE key \in lock' <=> mod_locked(new)
      OBVIOUS
    <3>2. /\ mod_instant(mods[key]) <=> key \in seen
          /\ mod_locked(mods[key]) <=> key \in lock
          /\ mods[key] \in {"INSTANT_USED", "LOCKED_INSTANT_USED"} <=> key \in used
      BY <1>1 DEF IInv, ModifiersCount, UsedKnown
    <3>3. CASE key \in seen
      <4>1. mod_locked(new) <=> (key \in lock <=> key \in used)
        BY <1>2, <3>1, <3>2, <3>3, ModifierStates
      <4> QED BY <2>1, <3>3, <4>1
    <3>4. CASE key \notin seen
      <4>1. new = mods[key]
        BY <1>2, <3>1, <3>2, <3>4, ModifierStates
      <4> QED BY <2>1, <3>2, <3>4, <4>1
    <3> QED BY <3>3, <3>4
  <2>4. key \in missed => (key \in lock' <=> mod_locked(new))
    BY <1>3, <2>1
  <2>5. /\ ~mod_instant(new) /\ new \notin {"INSTANT_USED", "LOCKED_INSTANT_USED"}
        /\ mod_active(new) <=> ~(mod_locked(new) <=> mod_instant(new))
    BY <1>2, <1>3, <1>4, ModifierStates
  <2>6. \A k \in Keys \ {key} :
          /\ k \in lock' <=> k \in lock
          /\ k \in seen' <=> k \in seen
          /\ k \in used' <=> k \in used
          /\ k \in missed' <=> k \in missed
    BY <2>1
  <2> HIDE DEF new
  <2>7. ModifiersCount'
    <3> SUFFICES ASSUME NEW k \in Keys \ missed'
                 PROVE  /\ mod_instant(mods'[k]) <=> k \in seen'
                        /\ mod_locked(mods'[k]) <=> k \in lock'
                        /\ mod_active(mods'[k]) <=> ((k \in lock') # (k \in seen'))
      BY DEF ModifiersCount
    <3>1. CASE k = key
      BY <1>3, <2>1, <2>3, <2>4, <2>5, <3>1
    <3>2. CASE k # key
      BY <1>3, <2>6, <3>2 DEF IInv, ModifiersCount
    <3> QED BY <3>1, <3>2
  <2>8. UsedKnown'
    BY <1>3, <2>1, <2>5, <2>6 DEF IInv, UsedKnown
  <2> QED BY <2>2, <2>7, <2>8 DEF IInv
<1>5. CASE type # "UP"
  <2>1. seen' = seen \cup {key} /\ UNCHANGED <<lock, used, missed>>
    BY <1>1, <1>5 DEF CountModifier
  <2>2. CountTypes'
    BY <1>1, <1>3, <2>1 DEF IInv, CountTypes
  <2>3. /\ mod_instant(new)
        /\ mod_locked(new) <=> mod_locked(mods[key])
        /\ mod_active(new) <=> ~(mod_locked(new) <=> mod_instant(new))
        /\ new \in {"INSTANT_USED", "LOCKED_INSTANT_USED"}
             <=> mods[key] \in {"INSTANT_USED", "LOCKED_INSTANT_USED"}
    BY <1>2, <1>3, <1>5, ModifierStates
  <2> HIDE DEF new
  <2>4. ModifiersCount'
    <3> SUFFICES ASSUME NEW k \in Keys \ missed'
                 PROVE  /\ mod_instant(mods'[k]) <=> k \in seen'
                        /\ mod_locked(mods'[k]) <=> k \in lock'
                        /\ mod_active(mods'[k]) <=> ((k \in lock') # (k \in seen'))
      BY DEF ModifiersCount
    <3>1. CASE k = key
      <4>1. mod_locked(mods[key]) <=> key \in lock
        BY <2>1, <3>1 DEF IInv, ModifiersCount
      <4> QED BY <1>3, <2>1, <2>3, <3>1, <4>1
    <3>2. CASE k # key
      BY <1>3, <2>1, <3>2 DEF IInv, ModifiersCount
    <3> QED BY <3>1, <3>2
  <2>5. UsedKnown'
    BY <1>3, <2>1, <2>3 DEF IInv, UsedKnown
  <2> QED BY <2>2, <2>4, <2>5 DEF IInv
<1> QED BY <1>4, <1>5

(* Another key uses every modifier that is held. *)
LEMMA OtherIInv == IInv /\ OtherEvent => IInv'
<1> SUFFICES ASSUME IInv, OtherEvent PROVE IInv'
  OBVIOUS
<1>1. /\ mods' = [k \in Keys |-> mod_down_other(mods[k])]
      /\ used' = used \cup seen /\ UNCHANGED <<seen, lock, missed>>
  BY DEF OtherEvent, SetMods
<1>2. \A k \in Keys : mods[k] \in ModState
  BY DEF IInv, CountTypes
<1>3. CountTypes'
  BY <1>1, <1>2, ModifierStates DEF IInv, CountTypes
<1>4. ASSUME NEW k \in Keys \ missed'
      PROVE  /\ mod_instant(mods'[k]) <=> k \in seen'
             /\ mod_locked(mods'[k]) <=> k \in lock'
             /\ mod_active(mods'[k]) <=> ((k \in lock') # (k \in seen'))
             /\ mods'[k] \in {"INSTANT_USED", "LOCKED_INSTANT_USED"} <=> k \in used'
  <2>1. k \in Keys \ missed /\ mods'[k] = mod_down_other(mods[k]) /\ mods[k] \in ModState
    BY <1>1, <1>2
  <2>2. /\ mod_instant(mods[k]) <=> k \in seen
        /\ mod_locked(mods[k]) <=> k \in lock
        /\ used \subseteq seen
    BY <2>1 DEF IInv, ModifiersCount, CountTypes
  <2>3. /\ mod_instant(mods'[k]) <=> mod_instant(mods[k])
        /\ mod_locked(mods'[k]) <=> mod_locked(mods[k])
        /\ mods'[k] \in {"INSTANT_USED", "LOCKED_INSTANT_USED"} <=> mod_instant(mods[k])
        /\ mods'[k] \in ModState
    BY <2>1, ModifierStates
  <2>4. mod_active(mods'[k]) <=> ~(mod_locked(mods'[k]) <=> mod_instant(mods'[k]))
    BY <2>3, ModifierStates
  <2> QED BY <1>1, <2>2, <2>3, <2>4
<1>5. ModifiersCount' /\ UsedKnown'
  BY <1>4 DEF ModifiersCount, UsedKnown
<1> QED BY <1>3, <1>5 DEF IInv

(* Losing events only gives up what is said of their modifiers. *)
LEMMA MissIInv ==
    ASSUME IInv, UNCHANGED <<mods, seen, lock, used>>, NEW events, Miss(events)
    PROVE  IInv'
<1>1. missed \subseteq missed' /\ missed' \subseteq Keys
  BY DEF Miss, IInv, CountTypes
<1> QED BY <1>1 DEF IInv, CountTypes, ModifiersCount, UsedKnown

(***************************************************************************)
(* The modifiers behave as the user counts, for every queue size and every *)
(* order of key events that reach mod_down(), mod_up() and                 *)
(* mod_down_other().                                                       *)
(***************************************************************************)
THEOREM CountKept == Spec => []ModifiersCount
<1>1. IInv /\ [Next]_vars => IInv'
  <2> SUFFICES ASSUME IInv, [Next]_vars PROVE IInv'
    OBVIOUS
  <2>1. ASSUME NEW key \in Keys, PressModifier(key) \/ HoldModifier(key) \/ ReleaseModifier(key)
        PROVE  IInv'
    BY <2>1, Untouched DEF PressModifier, HoldModifier, ReleaseModifier, Push
  <2>2. ASSUME NEW key \in OtherKeys, PressOther(key) PROVE IInv'
    BY <2>2, Untouched DEF PressOther, Push
  <2>3. CASE ModifierEvent
    BY <2>3, ModifierIInv
  <2>4. CASE ScrollEvent
    BY <2>4, Untouched DEF ScrollEvent
  <2>5. CASE OtherEvent
    BY <2>5, OtherIInv
  <2>6. CASE FilesEvent
    BY <2>6, MissIInv DEF FilesEvent
  <2>7. CASE ProgramEvent
    BY <2>7, MissIInv DEF ProgramEvent
  <2>8. CASE ProgramInput
    BY <2>8, Untouched DEF ProgramInput
  <2>9. CASE ProgramEnd
    BY <2>9, MissIInv DEF ProgramEnd
  <2>10. CASE Draw
    BY <2>10, Untouched DEF Draw
  <2>11. CASE UNCHANGED vars
    BY <2>11, Untouched DEF vars
  <2> QED BY <2>1, <2>2, <2>3, <2>4, <2>5, <2>6, <2>7, <2>8, <2>9, <2>10, <2>11 DEF Next
<1>2. IInv => ModifiersCount
  BY DEF IInv
<1> QED BY <1>1, <1>2, InitIInv, PTL DEF Spec

-----------------------------------------------------------------------------
(* What a step may do to the modifiers, the icon and the repaint flag: a   *)
(* change of the modifiers asks for a repaint, and only a paint of the     *)
(* present modifiers may take the request back.                            *)
Announced ==
    \/ UNCHANGED <<mods, icon, update>>
    \/ UNCHANGED icon /\ update' = (update \/ mods' # mods)
    \/ UNCHANGED mods /\ icon' = modifier_info(mods)

(* Every step is one of these. *)
LEMMA StepsAnnounced == [Next]_vars => Announced
<1>1. ASSUME NEW key \in Keys, PressModifier(key) \/ HoldModifier(key) \/ ReleaseModifier(key)
      PROVE  Announced
  BY <1>1 DEF PressModifier, HoldModifier, ReleaseModifier, Push, Announced
<1>2. ASSUME NEW key \in OtherKeys, PressOther(key) PROVE Announced
  BY <1>2 DEF PressOther, Push, Announced
<1>3. ModifierEvent => Announced
  BY DEF ModifierEvent, SetMods, Announced
<1>4. OtherEvent => Announced
  BY DEF OtherEvent, SetMods, Announced
<1>5. ScrollEvent \/ FilesEvent \/ ProgramEvent \/ ProgramInput \/ ProgramEnd => Announced
  BY DEF ScrollEvent, FilesEvent, ProgramEvent, ProgramInput, ProgramEnd, Announced
<1>6. Draw => Announced
  BY DEF Draw, Announced
<1>7. UNCHANGED vars => Announced
  BY DEF vars, Announced
<1> QED BY <1>1, <1>2, <1>3, <1>4, <1>5, <1>6, <1>7 DEF Next

(***************************************************************************)
(* The modifier icon is never stale without a repaint under way, whether   *)
(* widget_shell_update_mod() or widget_shell_use_mods() changed the        *)
(* modifiers and whether the event loop or the program's drawing hook      *)
(* called pe_draw().                                                       *)
(***************************************************************************)
THEOREM IconIsCurrent == Spec => []IconFollows
<1>1. Init => IconFollows
  BY DEF Init, IconFollows
<1>2. IconFollows /\ [Next]_vars => IconFollows'
  <2> SUFFICES ASSUME IconFollows, Announced PROVE IconFollows'
    BY StepsAnnounced
  <2>1. CASE mods' = mods /\ icon' = icon /\ update' = update
    BY <2>1 DEF IconFollows, modifier_info
  <2>2. CASE icon' = icon /\ update' = (update \/ mods' # mods)
    BY <2>2 DEF IconFollows, modifier_info
  <2>3. CASE mods' = mods /\ icon' = modifier_info(mods)
    BY <2>3 DEF IconFollows, modifier_info
  <2> QED BY <2>1, <2>2, <2>3 DEF Announced
<1> QED BY <1>1, <1>2, PTL DEF Spec
==============================================================================
