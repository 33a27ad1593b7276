------------------------------ MODULE AltEnter ------------------------------
(***************************************************************************)
(* src/loader_altenter_win.c: the low-level keyboard hook that keeps the   *)
(* hardware Alt+Enter from DXGI, whose exclusive-fullscreen switch freezes *)
(* the game, and gives the game a synthetic Alt+Enter in its place.        *)
(*                                                                         *)
(* The hook sees key events one at a time, before the window that has the  *)
(* focus; all of its state is touched by the thread that pumps messages,   *)
(* so an event is one step.  The keyboard, the focus and the windows are   *)
(* the environment.                                                        *)
(***************************************************************************)
EXTENDS Integers, FiniteSets

CONSTANTS MaxWindows,   \* bound: windows the game creates, one after another
          RuleSets      \* sets of rules keyboard and game may respect

(* "one_alt":     only one of the two Alt keys is ever held.                *)
(* "enter_first": a player lets go of Enter before Alt,                     *)
(* "keeps_focus": and before leaving the game's window.                     *)
(* "one_window":  the game creates one window only.                         *)
(* "all_events":  the hook is called for every key event; Windows skips it  *)
(*                on the secure desktop, for one.                           *)
AllRules == {"one_alt", "enter_first", "keeps_focus", "one_window", "all_events"}

ASSUME RuleAssumption == MaxWindows \in Nat \ {0} /\ RuleSets \subseteq SUBSET AllRules

Alts == {"VK_LMENU", "VK_RMENU"}
Keys == Alts \cup {"VK_RETURN"}

VARIABLES
    rules,       \* those respected in this behaviour
    g_enabled, g_hook, g_window, g_hwnd,   \* 0 is no window
    g_alt_down, g_enter_down,
    window,      \* the game's window as it is now, 0 before the first
    focus,       \* the game's window is the foreground window
    pressed,     \* keys physically down
    repeating,   \* the key that auto-repeats: the last one pressed
    owed,        \* this press of Enter is a hardware Alt+Enter in the game
    toggles,     \* synthetic Alt+Enters pushed during this press of Enter
    trapped      \* DXGI has seen an Alt+Enter although the hook was set

hookVars == <<g_enabled, g_hook, g_window, g_hwnd, g_alt_down, g_enter_down>>
envVars  == <<window, focus, pressed, repeating>>
vars == <<rules, hookVars, envVars, owed, toggles, trapped>>

EnterDown == "VK_RETURN" \in pressed
AltHeld   == pressed \cap Alts # {}

(* altenter_fix_init: DOM6_ALTENTER_FIX decides. *)
Init ==
    /\ rules \in RuleSets
    /\ g_enabled \in BOOLEAN
    /\ g_hook = FALSE /\ g_window = 0 /\ g_hwnd = 0
    /\ g_alt_down = FALSE /\ g_enter_down = FALSE
    /\ window = 0 /\ focus = FALSE /\ pressed = {} /\ repeating \in Keys
    /\ owed = FALSE /\ toggles = 0 /\ trapped = FALSE

(* resolve_hwnd asks SDL for the handle of win as long as it has none; SDL   *)
(* may not answer.                                                          *)
resolve_hwnd(win) == IF g_hwnd # 0 THEN {g_hwnd} ELSE {0, win}

(* altenter_SDL_CreateWindow and altenter_fix_on_window: only the first     *)
(* window, or the first for which the hook could be set, is remembered.     *)
(* SDL_GetWindowWMInfo and SetWindowsHookEx may fail.  The game starts with *)
(* no key held.                                                             *)
CreateWindow ==
    /\ window < MaxWindows /\ ("one_window" \in rules => window = 0)
    /\ pressed = {}
    /\ window' = window + 1
    /\ IF ~g_enabled \/ g_hook
       THEN UNCHANGED <<g_hook, g_window, g_hwnd>>
       ELSE /\ g_window' = window'
            /\ g_hwnd' \in resolve_hwnd(window')
            /\ g_hook' \in BOOLEAN
    /\ UNCHANGED <<g_enabled, g_alt_down, g_enter_down, focus, pressed,
                   repeating, owed, toggles, trapped>>

Refocus ==
    /\ window # 0
    /\ "keeps_focus" \in rules => ~EnterDown
    /\ focus' = ~focus
    /\ UNCHANGED <<hookVars, window, pressed, repeating, owed, toggles, trapped>>

-----------------------------------------------------------------------------
(* What the keyboard can do next: press a key, repeat the last key pressed, *)
(* release a key.                                                           *)
MayPress(k) ==
    \/ /\ k \notin pressed
       /\ "one_alt" \in rules /\ k \in Alts => ~AltHeld
    \/ k \in pressed /\ repeating = k

MayRelease(k) ==
    /\ k \in pressed
    /\ "enter_first" \in rules /\ k \in Alts => ~EnterDown

Keyboard(k, down) ==
    /\ IF down THEN MayPress(k) ELSE MayRelease(k)
    /\ pressed' = IF down THEN pressed \cup {k} ELSE pressed \ {k}
    /\ repeating' = IF down THEN k ELSE repeating
    /\ UNCHANGED <<window, focus>>

(* AltAfter with a fault, for comparison: releases are not seen. *)
AltAfterPress(k, down) == IF k \in Alts THEN g_alt_down \/ down ELSE g_alt_down

(* What ll_kbd decides.  g_alt_down after the event: *)
AltAfter(k, down) == IF k \in Alts THEN down ELSE g_alt_down

(* Swallows with a fault, for comparison: only the first one is. *)
SwallowsFirst(k, alt, hwnd) ==
    k = "VK_RETURN" /\ alt /\ hwnd # 0 /\ focus /\ hwnd = window /\ ~g_enter_down

(* An Enter with Alt held, in the window of the handle, is swallowed:       *)
Swallows(k, alt, hwnd) ==
    k = "VK_RETURN" /\ alt /\ hwnd # 0 /\ focus /\ hwnd = window

(* ... its first press pushes a synthetic Alt+Enter ...                     *)
Pushes(swallowed, down) == IF swallowed /\ down /\ ~g_enter_down THEN 1 ELSE 0

(* EnterAfter with a fault, for comparison: the release is not recorded. *)
EnterAfterPress(swallowed, down) == g_enter_down \/ (swallowed /\ down)

(* ... and g_enter_down tells the first press from the repeats.             *)
EnterAfter(swallowed, down) == IF swallowed THEN down ELSE g_enter_down

(* ll_kbd on a key event: the new state of the hook, how many synthetic     *)
(* Alt+Enters it pushes, and whether it swallows the event.                 *)
ll_kbd(k, down, pushed, swallowed) ==
    LET alt == AltAfter(k, down) IN
    \E hwnd \in -1 .. MaxWindows :
      /\ g_alt_down' = alt
      /\ hwnd \in IF k = "VK_RETURN" /\ alt THEN resolve_hwnd(g_window) ELSE {g_hwnd}
      /\ g_hwnd' = hwnd
      /\ swallowed = Swallows(k, alt, hwnd)
      /\ pushed = Pushes(swallowed, down)
      /\ g_enter_down' = EnterAfter(swallowed, down)
      /\ UNCHANGED <<g_enabled, g_hook, g_window>>

(* Bookkeeping on the Enter key: what the press owes and what DXGI sees.    *)
(* A toggle is owed for a new press of Enter in the game with Alt held,     *)
(* once the hook is set and knows its window.                               *)
Observe(k, down, pushed, swallowed) ==
    LET new == k = "VK_RETURN" /\ down /\ ~EnterDown IN
    /\ owed' = IF new THEN g_hook /\ g_hwnd # 0 /\ AltHeld /\ focus ELSE owed
    /\ toggles' = IF new THEN pushed ELSE toggles + pushed
    /\ trapped' = (trapped \/ (/\ g_hook /\ g_hwnd' # 0 /\ ~swallowed
                               /\ k = "VK_RETURN" /\ down /\ AltHeld /\ focus))

Key(k, down) ==
    /\ window # 0 /\ toggles < 2
    /\ Keyboard(k, down)
    /\ \/ /\ g_hook
          /\ \E pushed \in 0 .. 1, swallowed \in BOOLEAN :
                /\ ll_kbd(k, down, pushed, swallowed)
                /\ Observe(k, down, pushed, swallowed)
       \/ /\ ~g_hook
          /\ UNCHANGED hookVars
          /\ Observe(k, down, 0, FALSE)

(* A key event the hook is not called for; the game does not get it either. *)
Missed(k, down) ==
    /\ window # 0 /\ ~("all_events" \in rules)
    /\ Keyboard(k, down)
    /\ owed' = FALSE
    /\ toggles' = IF k = "VK_RETURN" THEN 0 ELSE toggles
    /\ UNCHANGED <<hookVars, trapped>>

Next == /\ \/ CreateWindow \/ Refocus
           \/ \E k \in Keys, down \in BOOLEAN : Key(k, down) \/ Missed(k, down)
        /\ UNCHANGED rules

Spec == Init /\ [][Next]_vars

-----------------------------------------------------------------------------
(* Auto-repeat does not toggle again: one press of Enter, one toggle at     *)
(* most, in whatever order keys and focus change while it is down.          *)
AtMostOneToggle == toggles <= 1

(* One toggle per physical press: a hardware Alt+Enter in the game's window *)
(* has toggled by the time the press has been seen.  It holds for a player  *)
(* who lets go of Enter before anything else, in one window, with one Alt   *)
(* and no event missed.                                                     *)
OneToggle == EnterDown /\ owed => toggles = 1

OneTogglePerPress == rules = AllRules => OneToggle

(* One press of Enter, one toggle: never more, and under the rules not less. *)
TogglesOnce == AtMostOneToggle /\ OneTogglePerPress

(* DXGI never sees a hardware Alt+Enter while dom6 is foreground, in        *)
(* whatever order keys are released, with one Alt, one window and no event  *)
(* missed.                                                                  *)
NeverTrapped == {"one_alt", "one_window", "all_events"} \subseteq rules => ~trapped

(* g_alt_down and g_enter_down follow the keyboard: between two events they *)
(* say what is held, so that no later press is lost or mistaken for a chord.*)
HookKnowsKeys ==
    g_hook /\ rules = AllRules =>
        g_alt_down = AltHeld /\ (g_enter_down => EnterDown)
=============================================================================
