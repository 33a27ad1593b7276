------------------------- MODULE QuitWatchdogProofs -------------------------
(***************************************************************************)
(* Proofs about the SDL_Quit watchdog, for every deadline and poll rate.   *)
(* The two deadline properties speak of behaviours that nothing has        *)
(* disturbed so far; their inductive invariant does, too.                  *)
(***************************************************************************)
EXTENDS QuitWatchdog, TLAPS

(* What is left of a number in unsigned arithmetic is an unsigned number.   *)
LEMMA ModRange == ASSUME NEW n \in Nat PROVE n % UMod \in 0 .. UMod - 1
  BY NumberAssumption

(* Each step keeps the types of the two threads.                            *)
LEMMA TypeStep == ASSUME TypeOK, [Next]_vars PROVE TypeOK'
<1> USE NumberAssumption
<1>1. ASSUME NEW s \in EnvSecs, SDL_Quit(s) PROVE TypeOK'
  <2>1. s % UMod \in 0 .. UMod - 1 /\ s \in EnvSecs
    BY ModRange
  <2>2. quits' \in 0 .. MaxQuits /\ asked' \in EnvSecs \cup {0}
        /\ secs' \in 0 .. UMod - 1 /\ clock' \in 0 .. Cap
    BY <1>1, <2>1 DEF SDL_Quit, TypeOK
  <2>3. wedged' \in BOOLEAN /\ inTime' \in BOOLEAN
    BY <1>1 DEF SDL_Quit
  <2>4. main' \in {"game", "arm", "armed_flag", "create", "sdl", "back"}
    BY <1>1 DEF SDL_Quit
  <2>5. disturbed' \subseteq Disturbances
    BY <1>1 DEF SDL_Quit, TypeOK, Disturbances
  <2>6. QED
    BY <1>1, <2>2, <2>3, <2>4, <2>5 DEF SDL_Quit, TypeOK, sharedVars, threadVars
<1>2. CASE ArmFlag \/ ArmSeconds \/ HostReturns \/ Exit
  BY <1>2 DEF ArmFlag, ArmSeconds, HostReturns, Exit, TypeOK, mainVars, sharedVars, threadVars
<1>3. CASE ArmCreate
  BY <1>3 DEF ArmCreate, TypeOK, sharedVars
<1>4. CASE Disarm
  <2>1. inTime' \in BOOLEAN /\ watchdog_disarmed' \in BOOLEAN
    BY <1>4 DEF Disarm
  <2>2. QED BY <1>4, <2>1 DEF Disarm, TypeOK, threadVars
<1>5. ASSUME NEW w \in Watchdogs, Watchdog(w) PROVE TypeOK'
  <2>1. \A n \in 0 .. UMod - 1 : (n + 1) % UMod \in 0 .. UMod - 1
    BY ModRange
  <2>2. tenths' \in [Watchdogs -> 0 .. UMod - 1]
    BY <1>5, <2>1 DEF Watchdog, LoopTest, Poll, Wake, LastTest, Fire, TypeOK
  <2>3. pc' \in [Watchdogs -> {"none", "loop", "poll", "sleep", "last", "fire", "gone"}]
    BY <1>5 DEF Watchdog, LoopTest, Poll, Wake, LastTest, Fire, Goto, TypeOK
  <2>4. slept' \in [Watchdogs -> BOOLEAN]
    BY <1>5 DEF Watchdog, LoopTest, Poll, Wake, LastTest, Fire, TypeOK
  <2>5. UNCHANGED <<mainVars, sharedVars, clock>> /\ exited' \in {"no", "normal", "watchdog"}
    BY <1>5 DEF Watchdog, LoopTest, Poll, Wake, LastTest, Fire, TypeOK
  <2>6. disturbed' \subseteq Disturbances
    BY <1>5 DEF Watchdog, LoopTest, Poll, Wake, LastTest, Fire, TypeOK, Disturbances
  <2>7. QED BY <2>2, <2>3, <2>4, <2>5, <2>6 DEF TypeOK, mainVars, sharedVars
<1>6. CASE Tick
  <2>1. clock' \in 0 .. Cap /\ slept' \in [Watchdogs -> BOOLEAN]
    BY <1>6 DEF Tick, TypeOK
  <2>2. QED BY <1>6, <2>1 DEF Tick, TypeOK, mainVars, sharedVars
<1>7. CASE UNCHANGED vars
  BY <1>7 DEF TypeOK, vars, mainVars, sharedVars, threadVars
<1>8. QED
  BY <1>1, <1>2, <1>3, <1>4, <1>5, <1>6, <1>7 DEF Next, MainStep

(* Type correctness: polls and seconds stay unsigned, whatever the          *)
(* environment asks for.                                                    *)
THEOREM TypeCorrect == Spec => []TypeOK
<1>1. Init => TypeOK
  <2> SUFFICES ASSUME Init PROVE TypeOK
    OBVIOUS
  <2>1. /\ wedged \in BOOLEAN /\ inTime \in BOOLEAN /\ watchdog_disarmed \in BOOLEAN
        /\ slept \in [Watchdogs -> BOOLEAN]
    BY DEF Init
  <2>2. QED BY <2>1, NumberAssumption DEF Init, TypeOK
<1>2. QED BY <1>1, TypeStep, PTL DEF Spec

-----------------------------------------------------------------------------
Live(w) == pc[w] \notin {"none", "gone"}
Elapsed(n) == clock >= n \/ clock = Cap

(* The inductive invariant: only the watchdog of the current call runs, it  *)
(* runs for the seconds asked for, and it has not polled more often than    *)
(* tenths of a second have passed.                                          *)
OnlyLatest ==
    /\ \A w \in Watchdogs : w > quits => pc[w] = "none"
    /\ \A w \in Watchdogs : Live(w) => w = quits
    /\ main \in {"arm", "armed_flag", "create"}
          => quits \in Watchdogs /\ pc[quits] = "none"
    /\ \A w \in Watchdogs : pc[w] = "none" => tenths[w] = 0

SecondsAgree ==
    /\ secs = asked
    /\ asked * PollsPerSec < UMod
    /\ main = "create" => watchdog_seconds = secs
    /\ \A w \in Watchdogs : Live(w) => watchdog_seconds = secs

PollsInTime ==
    \A w \in Watchdogs : Live(w) =>
       /\ Elapsed(tenths[w])
       /\ pc[w] = "sleep" /\ slept[w] => Elapsed(tenths[w] + 1)
       /\ pc[w] \in {"loop", "poll", "sleep"} => tenths[w] <= Deadline
       /\ pc[w] \in {"poll", "sleep"} => tenths[w] < Deadline
       /\ pc[w] \in {"last", "fire"} => tenths[w] >= Deadline

FlagHolds ==
    main = "game" /\ inTime =>
       /\ watchdog_disarmed
       /\ \A w \in Watchdogs : pc[w] # "fire"

DeadlineInv == /\ OnlyLatest /\ SecondsAgree /\ PollsInTime /\ FlagHolds
               /\ NeverEarly /\ DisarmInTimeHolds

(* What has disturbed the deadline is never forgotten.                      *)
LEMMA DisturbedStays ==
    ASSUME [Next]_vars, disturbed' = {} PROVE disturbed = {}
  BY DEF Next, SDL_Quit, MainStep, ArmFlag, ArmSeconds, ArmCreate, HostReturns,
         Disarm, Exit, Watchdog, LoopTest, Poll, Wake, LastTest, Fire, Tick, vars

(* A number below the modulus does not wrap.                                *)
LEMMA Small == ASSUME NEW m \in Nat, NEW a \in Nat, a < m PROVE a % m = a
  OBVIOUS

(* Nothing wraps: the unsigned seconds are the seconds asked for, and the   *)
(* polls to make are the tenths of seconds to wait.                         *)
LEMMA NoWrap ==
    ASSUME NEW s \in EnvSecs \cup {0}, s * PollsPerSec < UMod
    PROVE  /\ s \in Nat /\ s * PollsPerSec \in Nat /\ s % UMod = s
           /\ (s * PollsPerSec) % UMod = s * PollsPerSec
           /\ s * PollsPerSec < UMod /\ s * PollsPerSec <= Cap
<1> USE NumberAssumption
<1>1. s \in Nat /\ s * PollsPerSec \in Nat
  OBVIOUS
<1>2. s * PollsPerSec < UMod /\ s * PollsPerSec <= Cap
  OBVIOUS
<1>3. s <= s * PollsPerSec
  BY <1>1
<1>4. s < UMod
  BY <1>1, <1>2, <1>3
<1>5. QED BY <1>1, <1>2, <1>4, Small

(* A call of SDL_Quit finds no watchdog running. *)
LEMMA CallStep ==
    ASSUME disturbed' = {}, TypeOK, DeadlineInv, NEW s \in EnvSecs, SDL_Quit(s)
    PROVE  DeadlineInv'
<1> USE NumberAssumption
<1>0. NoWatchdogRuns /\ s * PollsPerSec < UMod
  BY DEF SDL_Quit
<1>1. \A w \in Watchdogs : ~Live(w)
  BY <1>0 DEF NoWatchdogRuns, Live
<1>2. /\ pc' = pc /\ tenths' = tenths /\ exited = "no" /\ exited' = exited
      /\ quits' = quits + 1 /\ quits < MaxQuits /\ ~inTime'
      /\ asked' = s /\ secs' = s /\ main' \in {"sdl", "arm"}
  BY <1>0, NoWrap DEF SDL_Quit, Running, threadVars
<1>3. \A w \in Watchdogs : ~Live(w)'
  BY <1>1, <1>2 DEF Live
<1>4. quits' \in Watchdogs /\ quits' > quits
  BY <1>2 DEF TypeOK, Watchdogs
<1>5. OnlyLatest'
  BY <1>2, <1>3, <1>4 DEF DeadlineInv, OnlyLatest, Watchdogs, TypeOK
<1>6. SecondsAgree' /\ PollsInTime' /\ FlagHolds' /\ NeverEarly' /\ DisarmInTimeHolds'
  BY <1>0, <1>2, <1>3
     DEF SecondsAgree, PollsInTime, FlagHolds, NeverEarly, DeadlineMet, DisarmInTimeHolds
<1>7. QED BY <1>5, <1>6 DEF DeadlineInv

(* A new watchdog starts with no poll done and the seconds just stored.     *)
LEMMA CreateStep ==
    ASSUME disturbed = {}, TypeOK, DeadlineInv, ArmCreate PROVE DeadlineInv'
<1> USE NumberAssumption
<1>1. /\ main = "create" /\ main' = "sdl" /\ quits \in Watchdogs
      /\ pc[quits] = "none" /\ tenths[quits] = 0 /\ exited = "no"
      /\ watchdog_seconds = secs /\ secs = asked
  BY DEF ArmCreate, DeadlineInv, OnlyLatest, SecondsAgree, Running
<1>2. /\ UNCHANGED <<asked, secs, quits, inTime, watchdog_seconds, tenths,
                     slept, clock, exited, watchdog_disarmed>>
  BY DEF ArmCreate, sharedVars
<1>3. /\ \A w \in Watchdogs : w # quits => pc'[w] = pc[w]
      /\ pc'[quits] \in {"none", "loop"}
  BY <1>1 DEF ArmCreate, TypeOK
<1>4. OnlyLatest'
  BY <1>1, <1>2, <1>3 DEF DeadlineInv, OnlyLatest, Live, TypeOK, Watchdogs
<1>5. SecondsAgree'
  BY <1>1, <1>2, <1>3 DEF DeadlineInv, OnlyLatest, SecondsAgree, Live
<1>6. Deadline \in Nat /\ Deadline' = Deadline
  BY <1>2, NoWrap DEF Deadline, TypeOK
<1>7. PollsInTime'
  BY <1>1, <1>2, <1>3, <1>6
     DEF DeadlineInv, PollsInTime, OnlyLatest, Live, Elapsed, TypeOK
<1>8. FlagHolds' /\ NeverEarly' /\ DisarmInTimeHolds'
  BY <1>1, <1>2 DEF FlagHolds, NeverEarly, DeadlineMet, DisarmInTimeHolds
<1>9. QED BY <1>4, <1>5, <1>7, <1>8 DEF DeadlineInv

(* Disarming before the deadline finds no watchdog past its last test.      *)
LEMMA DisarmStep ==
    ASSUME disturbed = {}, TypeOK, DeadlineInv, Disarm PROVE DeadlineInv'
<1> USE NumberAssumption
<1>1. /\ UNCHANGED <<asked, secs, quits, watchdog_seconds, pc, tenths, slept,
                     clock, exited>>
      /\ exited = "no" /\ main' = "game" /\ watchdog_disarmed'
      /\ inTime' = (clock < Deadline)
  BY DEF Disarm, Running, threadVars
<1>2. Deadline \in Nat /\ Deadline <= Cap
  BY NoWrap DEF Deadline, TypeOK
<1>3. ASSUME NEW w \in Watchdogs, pc[w] = "fire" PROVE ~inTime'
  <2>1. Elapsed(tenths[w]) /\ tenths[w] >= Deadline
    BY <1>3 DEF DeadlineInv, PollsInTime, Live
  <2>2. ~(clock < Deadline)
    BY <1>2, <2>1 DEF Elapsed, TypeOK
  <2>3. QED BY <1>1, <2>2
<1>4. FlagHolds'
  BY <1>1, <1>3 DEF FlagHolds
<1>5. OnlyLatest' /\ SecondsAgree' /\ PollsInTime'
  BY <1>1 DEF DeadlineInv, OnlyLatest, SecondsAgree, PollsInTime, Live,
              Elapsed, Deadline
<1>6. NeverEarly' /\ DisarmInTimeHolds'
  BY <1>1 DEF NeverEarly, DeadlineMet, DisarmInTimeHolds
<1>7. QED BY <1>4, <1>5, <1>6 DEF DeadlineInv

(* A watchdog counts a poll only after a tenth of a second, and fires only  *)
(* after the last one.                                                      *)
LEMMA WatchdogStep ==
    ASSUME disturbed' = {}, TypeOK, DeadlineInv, NEW w \in Watchdogs, Watchdog(w)
    PROVE  DeadlineInv'
<1> USE NumberAssumption
<1>1. /\ UNCHANGED <<main, asked, secs, quits, inTime, watchdog_disarmed,
                     watchdog_seconds, clock>>
      /\ exited = "no" /\ Live(w)
      /\ \A v \in Watchdogs : v # w =>
            pc'[v] = pc[v] /\ tenths'[v] = tenths[v] /\ slept'[v] = slept[v]
      /\ pc'[w] # "none"
  BY DEF Watchdog, LoopTest, Poll, Wake, LastTest, Fire, Goto, Running, Live,
         mainVars, sharedVars, TypeOK
<1>2. w = quits /\ \A v \in Watchdogs : v # w => ~Live(v) /\ ~Live(v)'
  BY <1>1 DEF DeadlineInv, OnlyLatest, Live
<1>3. /\ Deadline \in Nat /\ Deadline <= Cap /\ Deadline < UMod
      /\ Polls = Deadline /\ Deadline' = Deadline
  BY <1>1, NoWrap DEF Deadline, Polls, TypeOK, DeadlineInv, SecondsAgree
<1>4. tenths[w] \in 0 .. UMod - 1 /\ clock \in 0 .. Cap
  BY DEF TypeOK
<1>5. OnlyLatest' /\ SecondsAgree'
  BY <1>1, <1>2 DEF DeadlineInv, OnlyLatest, SecondsAgree, Live, Watchdogs
<1>6. PollsInTime'
  <2>1. SUFFICES ASSUME Live(w)'
                 PROVE  /\ Elapsed(tenths[w])'
                        /\ pc'[w] = "sleep" /\ slept'[w] => Elapsed(tenths[w] + 1)'
                        /\ pc'[w] \in {"loop", "poll", "sleep"} => tenths'[w] <= Deadline
                        /\ pc'[w] \in {"poll", "sleep"} => tenths'[w] < Deadline
                        /\ pc'[w] \in {"last", "fire"} => tenths'[w] >= Deadline
    BY <1>2, <1>3 DEF PollsInTime
  <2>2. /\ Elapsed(tenths[w])
        /\ pc[w] = "sleep" /\ slept[w] => Elapsed(tenths[w] + 1)
        /\ pc[w] \in {"loop", "poll", "sleep"} => tenths[w] <= Deadline
        /\ pc[w] \in {"poll", "sleep"} => tenths[w] < Deadline
        /\ pc[w] \in {"last", "fire"} => tenths[w] >= Deadline
    BY <1>1 DEF DeadlineInv, PollsInTime
  <2>3. CASE LoopTest(w)
    <3>1. pc'[w] = (IF tenths[w] < Deadline THEN "poll" ELSE "last") /\ tenths' = tenths
      BY <2>3, <1>3 DEF LoopTest, Goto, TypeOK
    <3>2. QED BY <1>1, <1>3, <1>4, <2>2, <3>1 DEF Elapsed
  <2>4. CASE Poll(w)
    <3>1. pc[w] = "poll" /\ pc'[w] \in {"gone", "sleep"} /\ tenths' = tenths /\ ~slept'[w]
      BY <2>4 DEF Poll, Goto, TypeOK
    <3>2. QED BY <1>1, <1>3, <1>4, <2>2, <3>1 DEF Elapsed
  <2>5. CASE Wake(w)
    <3>1. pc[w] = "sleep" /\ pc'[w] = "loop" /\ slept[w] /\ tenths[w] < Deadline
      BY <2>2, <2>5 DEF Wake, Goto, TypeOK
    <3>2. (tenths[w] + 1) % UMod = tenths[w] + 1
      BY <1>3, <1>4, <3>1, Small
    <3>3. tenths'[w] = tenths[w] + 1
      BY <2>5, <3>2 DEF Wake, TypeOK
    <3>4. QED BY <1>1, <1>3, <1>4, <2>2, <3>1, <3>3 DEF Elapsed
  <2>6. CASE LastTest(w)
    <3>1. pc[w] = "last" /\ pc'[w] \in {"gone", "fire"} /\ tenths' = tenths
      BY <2>6 DEF LastTest, Goto, TypeOK
    <3>2. QED BY <1>1, <1>3, <1>4, <2>2, <3>1 DEF Elapsed
  <2>7. CASE Fire(w)
    <3>1. pc'[w] = "gone"
      BY <2>7 DEF Fire, Goto, TypeOK
    <3>2. QED BY <2>1, <3>1 DEF Live
  <2>8. QED BY <2>3, <2>4, <2>5, <2>6, <2>7 DEF Watchdog
<1>7. FlagHolds'
  <2>1. SUFFICES ASSUME main = "game", inTime PROVE \A v \in Watchdogs : pc'[v] # "fire"
    BY <1>1 DEF FlagHolds, DeadlineInv
  <2>2. watchdog_disarmed /\ \A v \in Watchdogs : pc[v] # "fire"
    BY <2>1 DEF DeadlineInv, FlagHolds
  <2>3. pc'[w] # "fire"
    BY <2>2 DEF Watchdog, LoopTest, Poll, Wake, LastTest, Fire, Goto, TypeOK
  <2>4. QED BY <1>1, <2>2, <2>3
<1>8. NeverEarly' /\ DisarmInTimeHolds'
  <2>1. CASE Fire(w)
    <3>1. pc[w] = "fire"
      BY <2>1 DEF Fire, Goto
    <3>2. tenths[w] >= Deadline /\ Elapsed(tenths[w])
      BY <1>1, <3>1 DEF DeadlineInv, PollsInTime
    <3>3. clock >= Deadline
      BY <1>3, <1>4, <3>2 DEF Elapsed
    <3>4. ~(main = "game" /\ inTime)
      BY <3>1 DEF DeadlineInv, FlagHolds
    <3>5. QED BY <1>1, <1>3, <3>3, <3>4 DEF NeverEarly, DeadlineMet, DisarmInTimeHolds
  <2>2. CASE exited' = exited
    BY <1>1, <2>2 DEF NeverEarly, DeadlineMet, DisarmInTimeHolds
  <2>3. QED BY <2>1, <2>2 DEF Watchdog, LoopTest, Poll, Wake, LastTest
<1>9. QED BY <1>5, <1>6, <1>7, <1>8 DEF DeadlineInv

(* Time only helps: what has elapsed stays elapsed.                         *)
LEMMA TickStep ==
    ASSUME disturbed = {}, TypeOK, DeadlineInv, Tick PROVE DeadlineInv'
<1> USE NumberAssumption
<1>1. /\ UNCHANGED <<main, asked, secs, quits, inTime, watchdog_disarmed,
                     watchdog_seconds, pc, tenths, exited>>
      /\ exited = "no"
      /\ clock' = IF clock < Cap THEN clock + 1 ELSE clock
      /\ clock \in 0 .. Cap
  BY DEF Tick, Running, mainVars, sharedVars, TypeOK
<1>2. \A n \in Nat : Elapsed(n) => Elapsed(n)' /\ Elapsed(n + 1)'
  BY <1>1 DEF Elapsed
<1>3. \A w \in Watchdogs : tenths[w] \in Nat
  BY DEF TypeOK
<1>4. PollsInTime'
  BY <1>1, <1>2, <1>3 DEF DeadlineInv, PollsInTime, Live, Deadline
<1>5. OnlyLatest' /\ SecondsAgree' /\ FlagHolds'
  BY <1>1 DEF DeadlineInv, OnlyLatest, SecondsAgree, FlagHolds, Live
<1>6. NeverEarly' /\ DisarmInTimeHolds'
  BY <1>1 DEF NeverEarly, DeadlineMet, DisarmInTimeHolds
<1>7. QED BY <1>4, <1>5, <1>6 DEF DeadlineInv

(* Each step keeps the inductive invariant.                                 *)
LEMMA DeadlineStep ==
    ASSUME disturbed' = {}, TypeOK, DeadlineInv, [Next]_vars PROVE DeadlineInv'
<1>1. CASE ArmFlag \/ ArmSeconds \/ HostReturns
  <2>1. /\ UNCHANGED <<asked, secs, quits, inTime, pc, tenths, slept, clock, exited>>
        /\ exited = "no" /\ main' # "game"
    BY <1>1 DEF ArmFlag, ArmSeconds, HostReturns, Running, threadVars
  <2>2. OnlyLatest'
    BY <1>1, <2>1 DEF ArmFlag, ArmSeconds, HostReturns, DeadlineInv, OnlyLatest, Live
  <2>3. SecondsAgree'
    BY <1>1, <2>1 DEF ArmFlag, ArmSeconds, HostReturns, DeadlineInv, SecondsAgree, Live, sharedVars
  <2>4. PollsInTime'
    BY <2>1 DEF DeadlineInv, PollsInTime, Live, Elapsed, Deadline
  <2>5. FlagHolds' /\ NeverEarly' /\ DisarmInTimeHolds'
    BY <2>1 DEF FlagHolds, NeverEarly, DeadlineMet, DisarmInTimeHolds
  <2>6. QED BY <2>2, <2>3, <2>4, <2>5 DEF DeadlineInv
<1>2. CASE Exit
  BY <1>2 DEF Exit, DeadlineInv, OnlyLatest, SecondsAgree, PollsInTime,
              FlagHolds, NeverEarly, DeadlineMet, DisarmInTimeHolds, Live, Elapsed, Deadline,
              mainVars, sharedVars, threadVars
<1>3. CASE UNCHANGED vars
  BY <1>3 DEF DeadlineInv, OnlyLatest, SecondsAgree, PollsInTime, FlagHolds,
              NeverEarly, DeadlineMet, DisarmInTimeHolds, Live, Elapsed, Deadline, vars,
              mainVars, sharedVars, threadVars
<1>4. disturbed = {}
  BY DisturbedStays
<1>5. QED
  BY <1>1, <1>2, <1>3, <1>4, CallStep, CreateStep, DisarmStep, WatchdogStep, TickStep
     DEF Next, MainStep

(* The inductive invariant holds while nothing has disturbed the deadline.  *)
LEMMA DeadlineInvariant == Spec => [](disturbed = {} => DeadlineInv)
<1> DEFINE IInv == disturbed = {} => DeadlineInv
<1>1. Init => IInv
  BY NumberAssumption
     DEF Init, DeadlineInv, OnlyLatest, SecondsAgree, PollsInTime, FlagHolds,
         NeverEarly, DeadlineMet, DisarmInTimeHolds, Live, Watchdogs
<1>2. TypeOK /\ IInv /\ [Next]_vars => IInv'
  <2> SUFFICES ASSUME TypeOK, IInv, [Next]_vars, disturbed' = {}
               PROVE  DeadlineInv'
    OBVIOUS
  <2>1. DeadlineInv
    BY DisturbedStays
  <2>2. QED BY <2>1, DeadlineStep
<1>3. QED
  <2> HIDE DEF IInv
  <2>1. Spec => []IInv
    BY <1>1, <1>2, TypeCorrect, PTL DEF Spec
  <2>2. QED BY <2>1 DEF IInv

(* While calls are apart, timeouts fit and no sleep is cut short, the       *)
(* watchdog ends the process only after the seconds asked for have elapsed. *)
THEOREM DeadlineKept == Spec => []NeverEarly
<1>1. (disturbed = {} => DeadlineInv) => NeverEarly
  BY DEF DeadlineInv, NeverEarly
<1>2. QED BY <1>1, DeadlineInvariant, PTL

(* Under the same conditions it never ends it after an os_watchdog_disarm   *)
(* that came in time, wherever between its polls the thread was.            *)
THEOREM DisarmRespected == Spec => []DisarmInTimeHolds
<1>1. (disturbed = {} => DeadlineInv) => DisarmInTimeHolds
  BY DEF DeadlineInv, DisarmInTimeHolds
<1>2. QED BY <1>1, DeadlineInvariant, PTL
=============================================================================
