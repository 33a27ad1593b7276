--------------------------- MODULE AltEnterProofs ---------------------------
(***************************************************************************)
(* Theorems about AltEnter, for any number of windows and any rules.       *)
(***************************************************************************)
EXTENDS AltEnter, TLAPS

TypeOK ==
    /\ rules \in RuleSets
    /\ g_enabled \in BOOLEAN /\ g_hook \in BOOLEAN
    /\ g_window \in Nat /\ g_hwnd \in Nat
    /\ g_alt_down \in BOOLEAN /\ g_enter_down \in BOOLEAN
    /\ window \in Nat /\ focus \in BOOLEAN
    /\ pressed \in SUBSET Keys /\ repeating \in Keys
    /\ owed \in BOOLEAN /\ toggles \in Nat /\ trapped \in BOOLEAN

(* A hook that is not set has seen nothing.                                 *)
Fresh == ~g_hook => ~g_alt_down /\ ~g_enter_down

(* While Enter is held, a toggle has left g_enter_down set.                 *)
ToggleInv ==
    /\ TypeOK /\ Fresh /\ AtMostOneToggle
    /\ EnterDown /\ toggles = 1 => g_enter_down

(* Rules under which the hook knows Alt and its window.                     *)
Known == {"one_alt", "one_window", "all_events"} \subseteq rules

KnownInv ==
    /\ Known => /\ window <= 1 /\ g_window \in {0, window} /\ g_hwnd \in {0, window}
                /\ ~("VK_LMENU" \in pressed /\ "VK_RMENU" \in pressed)
                /\ g_hook => g_alt_down = AltHeld
    /\ NeverTrapped

(* With all rules, g_enter_down is set only while Enter is held down in the *)
(* hook's window with Alt.                                                  *)
PressInv ==
    /\ OneTogglePerPress
    /\ rules = AllRules /\ g_enter_down =>
          EnterDown /\ AltHeld /\ focus /\ g_hwnd = window /\ window # 0

-----------------------------------------------------------------------------
(* What the hook does on an event.                                          *)
LEMMA HookFacts ==
    ASSUME TypeOK, NEW k \in Keys, NEW down \in BOOLEAN,
           NEW pushed \in 0 .. 1, NEW swallowed \in BOOLEAN,
           ll_kbd(k, down, pushed, swallowed)
    PROVE  /\ g_alt_down' = AltAfter(k, down)
           /\ g_hwnd' = g_hwnd \/ (g_hwnd = 0 /\ g_hwnd' \in {0, g_window})
           /\ swallowed = Swallows(k, AltAfter(k, down), g_hwnd')
           /\ pushed = Pushes(swallowed, down)
           /\ g_enter_down' = EnterAfter(swallowed, down)
           /\ UNCHANGED <<g_enabled, g_hook, g_window>>
BY DEF ll_kbd, resolve_hwnd, TypeOK

LEMMA TypeStep == ASSUME TypeOK, Fresh, [Next]_vars PROVE TypeOK' /\ Fresh'
<1> USE RuleAssumption DEF TypeOK, Fresh, hookVars, envVars
<1>1. CASE CreateWindow /\ UNCHANGED rules
  <2>1. g_hwnd' \in Nat /\ g_window' \in Nat /\ g_hook' \in BOOLEAN /\ (g_hook => g_hook')
    BY <1>1 DEF CreateWindow, resolve_hwnd
  <2>2. QED BY <1>1, <2>1 DEF CreateWindow
<1>2. CASE Refocus /\ UNCHANGED rules BY <1>2 DEF Refocus
<1>3. ASSUME NEW k \in Keys, NEW down \in BOOLEAN, Missed(k, down), UNCHANGED rules
      PROVE  TypeOK' /\ Fresh'
  BY <1>3 DEF Missed, Keyboard
<1>4. ASSUME NEW k \in Keys, NEW down \in BOOLEAN, Key(k, down), UNCHANGED rules
      PROVE  TypeOK' /\ Fresh'
  <2>1. /\ pressed' \in SUBSET Keys /\ repeating' \in Keys
        /\ UNCHANGED <<window, focus>>
    BY <1>4 DEF Key, Keyboard
  <2>2. CASE /\ g_hook
             /\ \E pushed \in 0 .. 1, swallowed \in BOOLEAN :
                   /\ ll_kbd(k, down, pushed, swallowed)
                   /\ Observe(k, down, pushed, swallowed)
    <3>1. PICK pushed \in 0 .. 1, swallowed \in BOOLEAN :
             /\ ll_kbd(k, down, pushed, swallowed)
             /\ Observe(k, down, pushed, swallowed)
      BY <2>2
    <3>2. owed' \in BOOLEAN /\ toggles' \in Nat /\ trapped' \in BOOLEAN
      <4>1. toggles' \in Nat BY <3>1 DEF Observe
      <4>2. owed' \in BOOLEAN BY <3>1, Zenon DEF Observe
      <4>3. trapped' \in BOOLEAN BY <3>1, Zenon DEF Observe
      <4>4. QED BY <4>1, <4>2, <4>3
    <3>3. g_alt_down' \in BOOLEAN /\ g_enter_down' \in BOOLEAN /\ g_hwnd' \in Nat
      BY <3>1, HookFacts DEF AltAfter, EnterAfter
    <3>4. UNCHANGED <<g_enabled, g_hook, g_window>> BY <3>1, HookFacts
    <3>5. QED BY <1>4, <2>1, <2>2, <3>2, <3>3, <3>4
  <2>3. CASE ~g_hook /\ UNCHANGED hookVars /\ Observe(k, down, 0, FALSE)
    BY <1>4, <2>1, <2>3 DEF Observe
  <2>4. QED BY <1>4, <2>2, <2>3 DEF Key
<1>5. CASE UNCHANGED vars BY <1>5 DEF vars
<1>6. QED BY <1>1, <1>2, <1>3, <1>4, <1>5 DEF Next

LEMMA ToggleStep == ASSUME ToggleInv, [Next]_vars PROVE ToggleInv'
<1>1. TypeOK' /\ Fresh' BY TypeStep DEF ToggleInv
<1> USE DEF ToggleInv, AtMostOneToggle, EnterDown, hookVars, envVars
<1>2. CASE CreateWindow /\ UNCHANGED rules BY <1>1, <1>2 DEF CreateWindow
<1>3. CASE Refocus /\ UNCHANGED rules BY <1>1, <1>3 DEF Refocus
<1>4. ASSUME NEW k \in Keys, NEW down \in BOOLEAN, Missed(k, down) PROVE ToggleInv'
  BY <1>1, <1>4 DEF Missed, Keyboard
<1>5. ASSUME NEW k \in Keys, NEW down \in BOOLEAN, Key(k, down) PROVE ToggleInv'
  <2>1. pressed' = IF down THEN pressed \cup {k} ELSE pressed \ {k}
    BY <1>5 DEF Key, Keyboard
  <2>2. CASE /\ g_hook
             /\ \E pushed \in 0 .. 1, swallowed \in BOOLEAN :
                   /\ ll_kbd(k, down, pushed, swallowed)
                   /\ Observe(k, down, pushed, swallowed)
    <3>1. PICK pushed \in 0 .. 1, swallowed \in BOOLEAN :
             /\ ll_kbd(k, down, pushed, swallowed)
             /\ Observe(k, down, pushed, swallowed)
      BY <2>2
    <3>2. pushed = Pushes(swallowed, down) /\ g_enter_down' = EnterAfter(swallowed, down)
      BY <3>1, HookFacts
    <3>3. swallowed => k = "VK_RETURN"
      BY <3>1, HookFacts DEF Swallows
    <3>4. toggles' = IF k = "VK_RETURN" /\ down /\ "VK_RETURN" \notin pressed
                     THEN pushed ELSE toggles + pushed
      BY <3>1 DEF Observe
    <3>5. toggles \in Nat /\ g_enter_down \in BOOLEAN BY DEF TypeOK
    <3>6. QED BY <1>1, <2>1, <3>2, <3>3, <3>4, <3>5 DEF Pushes, EnterAfter
  <2>3. CASE ~g_hook /\ UNCHANGED hookVars /\ Observe(k, down, 0, FALSE)
    <3>1. toggles' = IF k = "VK_RETURN" /\ down /\ "VK_RETURN" \notin pressed
                     THEN 0 ELSE toggles
      BY <2>3 DEF Observe, TypeOK
    <3>2. QED BY <1>1, <2>1, <2>3, <3>1
  <2>4. QED BY <1>5, <2>2, <2>3 DEF Key
<1>6. CASE UNCHANGED vars BY <1>1, <1>6 DEF vars
<1>7. QED BY <1>2, <1>3, <1>4, <1>5, <1>6 DEF Next

-----------------------------------------------------------------------------
LEMMA KnownStep ==
    ASSUME TypeOK, Fresh, KnownInv, [Next]_vars PROVE KnownInv'
<1> USE RuleAssumption
    DEF TypeOK, Fresh, KnownInv, Known, NeverTrapped, AltHeld, Alts, Keys, hookVars, envVars
<1>1. CASE CreateWindow /\ UNCHANGED rules
  BY <1>1 DEF CreateWindow, resolve_hwnd
<1>2. CASE Refocus /\ UNCHANGED rules BY <1>2 DEF Refocus
<1>3. ASSUME NEW k \in Keys, NEW down \in BOOLEAN, Missed(k, down), UNCHANGED rules
      PROVE  KnownInv'
  BY <1>3 DEF Missed, Keyboard
<1>4. ASSUME NEW k \in Keys, NEW down \in BOOLEAN, Key(k, down), UNCHANGED rules
      PROVE  KnownInv'
  <2> SUFFICES ASSUME Known PROVE KnownInv' BY <1>4
  <2>1. /\ pressed' = IF down THEN pressed \cup {k} ELSE pressed \ {k}
        /\ IF down THEN MayPress(k) ELSE MayRelease(k)
        /\ UNCHANGED <<window, focus>>
    BY <1>4 DEF Key, Keyboard
  <2>2. ~("VK_LMENU" \in pressed' /\ "VK_RMENU" \in pressed')
    BY <2>1 DEF MayPress
  <2>3. g_alt_down = AltHeld => AltAfter(k, down) = AltHeld'
    <3>1. CASE k \in Alts /\ down
      BY <2>1, <3>1 DEF AltAfter
    <3>2. CASE k \in Alts /\ ~down
      <4>1. k \in pressed BY <2>1, <3>2 DEF MayRelease
      <4>2. pressed' \cap Alts = {} BY <2>1, <3>2, <4>1
      <4>3. QED BY <3>2, <4>2 DEF AltAfter
    <3>3. CASE k \notin Alts
      <4>1. pressed' \cap Alts = pressed \cap Alts BY <2>1, <3>3
      <4>2. QED BY <3>3, <4>1 DEF AltAfter
    <3>4. QED BY <3>1, <3>2, <3>3
  <2>4. CASE /\ g_hook
             /\ \E pushed \in 0 .. 1, swallowed \in BOOLEAN :
                   /\ ll_kbd(k, down, pushed, swallowed)
                   /\ Observe(k, down, pushed, swallowed)
    <3>1. PICK pushed \in 0 .. 1, swallowed \in BOOLEAN :
             /\ ll_kbd(k, down, pushed, swallowed)
             /\ Observe(k, down, pushed, swallowed)
      BY <2>4
    <3>2. /\ g_alt_down' = AltAfter(k, down)
          /\ g_hwnd' = g_hwnd \/ (g_hwnd = 0 /\ g_hwnd' \in {0, g_window})
          /\ swallowed = Swallows(k, AltAfter(k, down), g_hwnd')
          /\ UNCHANGED <<g_hook, g_window>>
      BY <3>1, HookFacts
    <3>3. g_alt_down' = AltHeld' BY <2>3, <2>4, <3>2
    <3>4. g_hwnd' \in {0, window} /\ g_window' \in {0, window}
      BY <3>2
    <3>5. ~trapped'
      <4>1. trapped' = (trapped \/ (/\ g_hook /\ g_hwnd' # 0 /\ ~swallowed
                                    /\ k = "VK_RETURN" /\ down /\ AltHeld /\ focus))
        BY <3>1 DEF Observe
      <4>2. ~trapped BY DEF NeverTrapped
      <4>3. k = "VK_RETURN" => AltAfter(k, down) = AltHeld
        BY <2>4 DEF AltAfter
      <4>4. QED BY <3>2, <3>4, <4>1, <4>2, <4>3 DEF Swallows
    <3>6. QED BY <1>4, <2>1, <2>2, <3>2, <3>3, <3>4, <3>5
  <2>5. CASE ~g_hook /\ UNCHANGED hookVars /\ Observe(k, down, 0, FALSE)
    <3>1. trapped' = trapped BY <2>5 DEF Observe
    <3>2. QED BY <1>4, <2>1, <2>2, <2>5, <3>1
  <2>6. QED BY <1>4, <2>4, <2>5 DEF Key
<1>5. CASE UNCHANGED vars BY <1>5 DEF vars
<1>6. QED BY <1>1, <1>2, <1>3, <1>4, <1>5 DEF Next

LEMMA PressStep ==
    ASSUME ToggleInv, ToggleInv', KnownInv, PressInv, [Next]_vars PROVE PressInv'
<1> USE DEF PressInv, OneTogglePerPress, OneToggle, EnterDown, hookVars, envVars
<1>0. /\ TypeOK /\ Fresh /\ toggles \in Nat
      /\ toggles' \in Nat /\ toggles' <= 1 /\ TypeOK'
      /\ rules = AllRules => Known
  BY DEF ToggleInv, TypeOK, AtMostOneToggle, AllRules, Known
<1>1. CASE CreateWindow /\ UNCHANGED rules
  <2>1. pressed = {} /\ UNCHANGED <<rules, pressed, g_enter_down, owed, toggles, focus>>
    BY <1>1 DEF CreateWindow
  <2>2. QED BY <2>1
<1>2. CASE Refocus /\ UNCHANGED rules
  BY <1>2 DEF Refocus, AllRules, AltHeld
<1>3. ASSUME NEW k \in Keys, NEW down \in BOOLEAN, Missed(k, down), UNCHANGED rules
      PROVE  PressInv'
  BY <1>3 DEF Missed, AllRules
<1>4. ASSUME NEW k \in Keys, NEW down \in BOOLEAN, Key(k, down), UNCHANGED rules
      PROVE  PressInv'
  <2> SUFFICES ASSUME rules = AllRules PROVE PressInv' BY <1>4
  <2>1. /\ pressed' = IF down THEN pressed \cup {k} ELSE pressed \ {k}
        /\ IF down THEN MayPress(k) ELSE MayRelease(k)
        /\ window' = window /\ focus' = focus /\ window # 0
    BY <1>4 DEF Key, Keyboard
  <2>2. EnterDown /\ EnterDown' /\ AltHeld => AltHeld'
    BY <2>1 DEF MayRelease, AllRules, AltHeld, Alts
  <2>3. CASE /\ g_hook
             /\ \E pushed \in 0 .. 1, swallowed \in BOOLEAN :
                   /\ ll_kbd(k, down, pushed, swallowed)
                   /\ Observe(k, down, pushed, swallowed)
    <3>1. PICK pushed \in 0 .. 1, swallowed \in BOOLEAN :
             /\ ll_kbd(k, down, pushed, swallowed)
             /\ Observe(k, down, pushed, swallowed)
      BY <2>3
    <3>2. /\ g_hwnd' = g_hwnd \/ (g_hwnd = 0 /\ g_hwnd' \in {0, g_window})
          /\ swallowed = Swallows(k, AltAfter(k, down), g_hwnd')
          /\ pushed = Pushes(swallowed, down)
          /\ g_enter_down' = EnterAfter(swallowed, down)
      BY <1>0, <3>1, HookFacts
    <3>3. g_alt_down = AltHeld /\ g_hwnd \in {0, window}
      BY <1>0, <2>3 DEF KnownInv
    <3>4. CASE k # "VK_RETURN"
      <4>1. ~swallowed /\ pushed = 0 BY <3>2, <3>4 DEF Swallows, Pushes
      <4>2. /\ g_enter_down' = g_enter_down
            /\ ("VK_RETURN" \in pressed' <=> "VK_RETURN" \in pressed)
            /\ owed' = owed /\ toggles' = toggles
        BY <1>0, <2>1, <3>1, <3>2, <3>4, <4>1 DEF EnterAfter, Observe
      <4>3. g_enter_down => g_hwnd' = window BY <3>2, <2>1
      <4>4. QED BY <2>1, <2>2, <4>2, <4>3
    <3>5. CASE k = "VK_RETURN"
      <4>1. AltAfter(k, down) = AltHeld BY <3>3, <3>5 DEF AltAfter, Alts
      <4>2. swallowed <=> AltHeld /\ g_hwnd' # 0 /\ focus /\ g_hwnd' = window
        BY <3>2, <3>5, <4>1 DEF Swallows
      <4>3. AltHeld' = AltHeld
        BY <2>1, <3>5 DEF AltHeld, Alts
      <4>4. CASE ~down
        <5>1. "VK_RETURN" \notin pressed' BY <2>1, <3>5, <4>4
        <5>2. g_enter_down => swallowed
          BY <2>1, <3>2, <4>2
        <5>3. ~g_enter_down'
          BY <3>2, <4>4, <5>2 DEF EnterAfter
        <5>4. QED BY <5>1, <5>3
      <4>5. CASE down
        <5>1. "VK_RETURN" \in pressed' BY <2>1, <3>5, <4>5
        <5>2. g_enter_down' =>
                 EnterDown' /\ AltHeld' /\ focus' /\ g_hwnd' = window' /\ window' # 0
          BY <2>1, <3>2, <4>2, <4>3, <4>5, <5>1 DEF EnterAfter
        <5>3. CASE "VK_RETURN" \in pressed
          <6>1. owed' = owed /\ toggles' = toggles + pushed
            BY <3>1, <5>3 DEF Observe
          <6>2. owed => toggles = 1 BY <5>3
          <6>3. owed' => toggles' = 1 BY <1>0, <6>1, <6>2
          <6>4. QED BY <5>2, <6>3
        <5>4. CASE "VK_RETURN" \notin pressed
          <6>1. /\ owed' = (g_hook /\ g_hwnd # 0 /\ AltHeld /\ focus)
                /\ toggles' = pushed
            BY <3>1, <3>5, <4>5, <5>4 DEF Observe
          <6>2. ~g_enter_down BY <5>4
          <6>3. owed' => swallowed BY <3>2, <3>3, <4>2, <6>1
          <6>4. owed' => toggles' = 1
            BY <3>2, <4>5, <6>1, <6>2, <6>3 DEF Pushes
          <6>5. QED BY <5>2, <6>4
        <5>5. QED BY <5>3, <5>4
      <4>6. QED BY <4>4, <4>5
    <3>6. QED BY <3>4, <3>5
  <2>4. CASE ~g_hook /\ UNCHANGED hookVars /\ Observe(k, down, 0, FALSE)
    <3>1. ~g_enter_down' BY <1>0, <2>4 DEF Fresh
    <3>2. CASE k = "VK_RETURN" /\ down /\ "VK_RETURN" \notin pressed
      <4>1. ~owed' BY <2>4, <3>2 DEF Observe
      <4>2. QED BY <3>1, <4>1
    <3>3. CASE ~(k = "VK_RETURN" /\ down /\ "VK_RETURN" \notin pressed)
      <4>1. owed' = owed /\ toggles' = toggles /\ (EnterDown' => EnterDown)
        BY <1>0, <2>1, <2>4, <3>3 DEF Observe
      <4>2. QED BY <3>1, <4>1
    <3>4. QED BY <3>2, <3>3
  <2>5. QED BY <1>4, <2>3, <2>4 DEF Key
<1>5. CASE UNCHANGED vars BY <1>5 DEF vars, AltHeld
<1>6. QED BY <1>1, <1>2, <1>3, <1>4, <1>5 DEF Next

LEMMA HookInvariant == Spec => [](ToggleInv /\ KnownInv /\ PressInv)
<1>1. Init => ToggleInv /\ KnownInv /\ PressInv
  <2> SUFFICES ASSUME Init PROVE ToggleInv /\ KnownInv /\ PressInv
    OBVIOUS
  <2>1. ToggleInv
    <3>1. TypeOK
      <4>1. /\ g_hook \in BOOLEAN /\ g_alt_down \in BOOLEAN /\ g_enter_down \in BOOLEAN
            /\ focus \in BOOLEAN /\ owed \in BOOLEAN /\ trapped \in BOOLEAN
            /\ g_enabled \in BOOLEAN
        BY Zenon DEF Init
      <4>2. /\ g_window \in Nat /\ g_hwnd \in Nat /\ window \in Nat /\ toggles \in Nat
            /\ rules \in RuleSets /\ pressed \in SUBSET Keys /\ repeating \in Keys
        BY DEF Init
      <4>3. QED BY <4>1, <4>2 DEF TypeOK
    <3>2. ~g_alt_down /\ ~g_enter_down /\ toggles = 0 BY DEF Init
    <3>3. QED BY <3>1, <3>2 DEF ToggleInv, Fresh, AtMostOneToggle
  <2>2. KnownInv
    BY DEF Init, KnownInv, NeverTrapped
  <2>3. PressInv
    BY DEF Init, PressInv, OneTogglePerPress, OneToggle, EnterDown
  <2>4. QED BY <2>1, <2>2, <2>3
<1>2. ToggleInv => TypeOK /\ Fresh BY DEF ToggleInv
<1>3. QED BY <1>1, <1>2, ToggleStep, KnownStep, PressStep, PTL DEF Spec

(* One press of Enter toggles once at most, in any order of events, and     *)
(* under all the rules not less.                                            *)
THEOREM PressTogglesOnce == Spec => []TogglesOnce
<1>1. ToggleInv /\ PressInv => TogglesOnce
  BY DEF ToggleInv, PressInv, TogglesOnce
<1>2. QED BY <1>1, HookInvariant, PTL

(* DXGI is kept out for any number of windows, keys and changes of focus.   *)
THEOREM KeepsDXGIOut == Spec => []NeverTrapped
<1>1. KnownInv => NeverTrapped BY DEF KnownInv
<1>2. QED BY <1>1, HookInvariant, PTL

(* What the hook has seen is what is held.                                  *)
THEOREM KnowsKeys == Spec => []HookKnowsKeys
<1>1. KnownInv /\ PressInv => HookKnowsKeys
  BY DEF KnownInv, Known, AllRules, PressInv, HookKnowsKeys
<1>2. QED BY <1>1, HookInvariant, PTL
=============================================================================
