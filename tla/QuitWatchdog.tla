---------------------------- MODULE QuitWatchdog ----------------------------
(***************************************************************************)
(* The deadline on SDL_Quit: watchdog_SDL_Quit of src/loader_sdl_gl.c and  *)
(* the watchdog thread of src/loader_os_posix.c (src/loader_os_win32.c has *)
(* the same algorithm).                                                    *)
(*                                                                         *)
(* The main thread arms the watchdog, calls the host's SDL_Quit, which may *)
(* never return, and disarms it.  Arming starts a thread that polls a flag *)
(* ten times a second and ends the process when its polls run out.  The    *)
(* two threads share watchdog_disarmed and watchdog_seconds and no lock,   *)
(* so every read and write of them is a step of its own.                   *)
(***************************************************************************)
EXTENDS Integers

CONSTANTS
    EnvSecs,      \* what DOM6_QUIT_TIMEOUT may say; includes the default, 5
    UMod,         \* unsigned arithmetic is modulo UMod, 2^32 in the code
    PollsPerSec,  \* polls in a second, 10 in the code
    MaxQuits,     \* bound: calls of SDL_Quit by the engine
    Cap           \* bound: the clock stops counting here

ASSUME NumberAssumption ==
    /\ EnvSecs \subseteq Nat /\ UMod \in Nat \ {0} /\ PollsPerSec \in Nat \ {0}
    /\ MaxQuits \in Nat \ {0} /\ Cap \in Nat
    /\ \A s \in EnvSecs : s * PollsPerSec <= Cap

(* What the deadline has been exposed to:                                   *)
(* "overlap": SDL_Quit was called while a watchdog of an earlier call ran,  *)
(* "firing":  and one that had tested the flag for the last time.           *)
(* "wrap":    a timeout whose polls exceed an unsigned was asked for.       *)
(* "signal":  a signal handler cut a nanosleep short (POSIX).               *)
Disturbances == {"overlap", "firing", "wrap", "signal"}

Watchdogs == 1 .. MaxQuits    \* the i-th arming starts watchdog i

VARIABLES
    main,       \* where the main thread is
    asked,      \* the seconds the environment asks for in this call
    secs,       \* the same as an unsigned, the parameter of os_watchdog_arm
    quits,      \* calls of SDL_Quit so far
    wedged,     \* this call of the host's SDL_Quit never returns
    watchdog_disarmed, watchdog_seconds,
    pc, tenths, \* each watchdog thread: where it is, polls done
    slept,      \* whether a tenth of a second has passed in its nanosleep
    clock,      \* tenths of a second since os_watchdog_arm was called
    inTime,     \* the last os_watchdog_disarm came before its deadline
    exited,     \* "no", "normal" or "watchdog"
    disturbed   \* which of Disturbances have happened

mainVars   == <<main, asked, secs, quits, wedged, inTime>>
sharedVars == <<watchdog_disarmed, watchdog_seconds>>
threadVars == <<pc, tenths, slept>>
vars == <<mainVars, sharedVars, threadVars, clock, exited, disturbed>>

Deadline == asked * PollsPerSec

(* Polls with a fault, for comparison: seconds taken for polls. *)
PollsOfSeconds == watchdog_seconds % UMod

Polls    == (watchdog_seconds * PollsPerSec) % UMod    \* watchdog_seconds * 10
Running  == exited = "no"
NoWatchdogRuns == \A w \in Watchdogs : pc[w] \in {"none", "gone"}

Init ==
    /\ main = "game" /\ asked = 0 /\ secs = 0 /\ quits = 0
    /\ wedged = FALSE /\ inTime = FALSE
    /\ watchdog_disarmed = FALSE /\ watchdog_seconds = 0
    /\ pc = [w \in Watchdogs |-> "none"]
    /\ tenths = [w \in Watchdogs |-> 0]
    /\ slept = [w \in Watchdogs |-> FALSE]
    /\ clock = 0 /\ exited = "no" /\ disturbed = {}

-----------------------------------------------------------------------------
(* The main thread.  strtoul's result is cut to an unsigned; 0 arms nothing. *)
(* The environment is read anew on every call, but nobody changes it.       *)
SDL_Quit(s) ==
    /\ Running /\ main = "game" /\ quits < MaxQuits
    /\ quits > 0 => s = asked
    /\ asked' = s /\ secs' = s % UMod /\ quits' = quits + 1
    /\ wedged' \in BOOLEAN
    /\ main' = IF secs' = 0 THEN "sdl" ELSE "arm"
    /\ clock' = 0 /\ inTime' = FALSE
    /\ disturbed' = disturbed
                    \cup (IF NoWatchdogRuns THEN {} ELSE {"overlap"})
                    \cup (IF \E w \in Watchdogs : pc[w] = "fire" THEN {"firing"} ELSE {})
                    \cup (IF s * PollsPerSec < UMod THEN {} ELSE {"wrap"})
    /\ UNCHANGED <<sharedVars, threadVars, exited>>

(* ArmFlag with a fault, for comparison: the flag is not reset. *)
ArmNoFlag == /\ Running /\ main = "arm"
             /\ main' = "armed_flag"
             /\ UNCHANGED <<asked, secs, quits, wedged, inTime, sharedVars,
                            threadVars, clock, exited, disturbed>>

ArmFlag == /\ Running /\ main = "arm"
           /\ watchdog_disarmed' = FALSE
           /\ main' = "armed_flag"
           /\ UNCHANGED <<asked, secs, quits, wedged, inTime, watchdog_seconds,
                          threadVars, clock, exited, disturbed>>

ArmSeconds == /\ Running /\ main = "armed_flag"
              /\ watchdog_seconds' = secs
              /\ main' = "create"
              /\ UNCHANGED <<asked, secs, quits, wedged, inTime,
                             watchdog_disarmed, threadVars, clock, exited, disturbed>>

ArmCreate ==
    /\ Running /\ main = "create"
    /\ \/ pc' = [pc EXCEPT ![quits] = "loop"]
       \/ pc' = pc
    /\ main' = "sdl"
    /\ UNCHANGED <<asked, secs, quits, wedged, inTime, sharedVars, tenths,
                   slept, clock, exited, disturbed>>

HostReturns == /\ Running /\ main = "sdl" /\ ~wedged
               /\ main' = "back"
               /\ UNCHANGED <<asked, secs, quits, wedged, inTime, sharedVars,
                              threadVars, clock, exited, disturbed>>

Disarm == /\ Running /\ main = "back"
          /\ watchdog_disarmed' = TRUE
          /\ inTime' = (clock < Deadline)
          /\ main' = "game"
          /\ UNCHANGED <<asked, secs, quits, wedged, watchdog_seconds,
                         threadVars, clock, exited, disturbed>>

(* The engine ends the process, at any time it is not inside SDL_Quit. *)
Exit == /\ Running /\ main = "game" /\ quits > 0
        /\ exited' = "normal"
        /\ UNCHANGED <<mainVars, sharedVars, threadVars, clock, disturbed>>

-----------------------------------------------------------------------------
(* A watchdog thread, posix_watchdog. *)
Goto(w, from, to) == /\ Running /\ pc[w] = from
                     /\ pc' = [pc EXCEPT ![w] = to]

(* for (...; tenths < watchdog_seconds * 10; ...) *)
LoopTest(w) ==
    /\ Goto(w, "loop", IF tenths[w] < Polls THEN "poll" ELSE "last")
    /\ UNCHANGED <<mainVars, sharedVars, tenths, slept, clock, exited, disturbed>>

(* Poll with a fault, for comparison: continue for return. *)
PollContinues(w) ==
    /\ Goto(w, "poll", IF watchdog_disarmed THEN "loop" ELSE "sleep")
    /\ slept' = [slept EXCEPT ![w] = FALSE]
    /\ UNCHANGED <<mainVars, sharedVars, tenths, clock, exited, disturbed>>

(* if (watchdog_disarmed) return NULL; else sleep a tenth of a second *)
Poll(w) ==
    /\ Goto(w, "poll", IF watchdog_disarmed THEN "gone" ELSE "sleep")
    /\ slept' = [slept EXCEPT ![w] = FALSE]
    /\ UNCHANGED <<mainVars, sharedVars, tenths, clock, exited, disturbed>>

Wake(w) ==
    /\ Goto(w, "sleep", "loop")
    /\ tenths' = [tenths EXCEPT ![w] = (@ + 1) % UMod]
    /\ disturbed' = disturbed \cup (IF slept[w] THEN {} ELSE {"signal"})
    /\ UNCHANGED <<mainVars, sharedVars, slept, clock, exited>>

(* LastTest with a fault, for comparison: fires untested. *)
LastTestSkipped(w) ==
    /\ Goto(w, "last", "fire")
    /\ UNCHANGED <<mainVars, sharedVars, tenths, slept, clock, exited, disturbed>>

LastTest(w) ==
    /\ Goto(w, "last", IF watchdog_disarmed THEN "gone" ELSE "fire")
    /\ UNCHANGED <<mainVars, sharedVars, tenths, slept, clock, exited, disturbed>>

(* write the reason to stderr, then _exit(0) *)
Fire(w) ==
    /\ Goto(w, "fire", "gone")
    /\ exited' = "watchdog"
    /\ UNCHANGED <<mainVars, sharedVars, tenths, slept, clock, disturbed>>

Watchdog(w) == LoopTest(w) \/ Poll(w) \/ Wake(w) \/ LastTest(w) \/ Fire(w)

(* A tenth of a second passes. *)
Tick == /\ Running
        /\ clock' = IF clock < Cap THEN clock + 1 ELSE clock
        /\ slept' = [w \in Watchdogs |-> pc[w] = "sleep"]
        /\ UNCHANGED <<mainVars, sharedVars, pc, tenths, exited, disturbed>>

MainStep == ArmFlag \/ ArmSeconds \/ ArmCreate \/ HostReturns \/ Disarm

Next == \/ \E s \in EnvSecs : SDL_Quit(s)
        \/ MainStep \/ Exit
        \/ \E w \in Watchdogs : Watchdog(w)
        \/ Tick

(* Both threads are scheduled and time passes.  Nothing is assumed of the   *)
(* engine: it need not call SDL_Quit, nor exit.                             *)
Fairness == /\ WF_vars(MainStep) /\ WF_vars(Tick)
            /\ \A w \in Watchdogs : WF_vars(Watchdog(w))

Spec == Init /\ [][Next]_vars
FairSpec == Spec /\ Fairness

-----------------------------------------------------------------------------
(* The types of the two threads' variables. *)
TypeOK ==
    /\ main \in {"game", "arm", "armed_flag", "create", "sdl", "back"}
    /\ asked \in EnvSecs \cup {0} /\ secs \in 0 .. UMod - 1
    /\ quits \in 0 .. MaxQuits
    /\ wedged \in BOOLEAN /\ inTime \in BOOLEAN
    /\ watchdog_disarmed \in BOOLEAN /\ watchdog_seconds \in 0 .. UMod - 1
    /\ pc \in [Watchdogs -> {"none", "loop", "poll", "sleep", "last", "fire", "gone"}]
    /\ tenths \in [Watchdogs -> 0 .. UMod - 1]
    /\ slept \in [Watchdogs -> BOOLEAN]
    /\ clock \in 0 .. Cap
    /\ exited \in {"no", "normal", "watchdog"}
    /\ disturbed \subseteq Disturbances

(* os_watchdog_arm: the process is ended only when the seconds asked for    *)
(* have elapsed.                                                            *)
DeadlineMet == exited = "watchdog" => clock >= Deadline

(* It holds as long as calls are apart, nothing wraps and no sleep is cut   *)
(* short ...                                                                *)
NeverEarly == disturbed = {} => DeadlineMet

(* ... and should hold for calls that follow each other, too: a watchdog of *)
(* an earlier call that was disarmed, and has tests of the flag before it,  *)
(* does not cut the next call short.                                        *)
NeverEarlyAgain == disturbed \subseteq {"overlap"} => DeadlineMet

(* An os_watchdog_disarm that comes before the deadline is respected, even  *)
(* while the watchdog thread is between two polls.                          *)
DisarmInTimeHolds ==
    disturbed = {} /\ exited = "watchdog" /\ main = "game" => ~inTime

(* A call of SDL_Quit that never returns does not keep the process alive,   *)
(* if its watchdog thread could be created; whatever disturbs the deadline. *)
Watched == secs # 0 /\ pc[quits] # "none"
WedgedQuitEnds == (main = "sdl" /\ wedged /\ quits > 0 /\ Watched) ~> ~Running

(* Disarming ends the watchdog threads, unless the engine exits or calls    *)
(* SDL_Quit again first.                                                    *)
DisarmEndsThreads ==
    (main = "game" /\ quits > 0) ~> (NoWatchdogRuns \/ main # "game" \/ ~Running)
=============================================================================
