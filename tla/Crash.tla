------------------------------- MODULE Crash -------------------------------
(***************************************************************************)
(* What happens when the game faults: the crash handler of                 *)
(* src/loader_crash.c, as src/loader_os_posix.c and src/loader_os_win32.c  *)
(* have it called.  It reports the fault, walks the chain of frames, which *)
(* the fault may have destroyed, prints the maps around the address and    *)
(* ends the process.  Reading a frame may itself fault, and another thread *)
(* may fault meanwhile.                                                    *)
(*                                                                         *)
(* A frame of the game is a number; what is stored there is the next       *)
(* frame, 0 for anything the walk refuses (null, misaligned, outside the   *)
(* 64 MB above the stack pointer), or one of the three ways to go wrong.   *)
(***************************************************************************)
EXTENDS Integers, Sequences, FiniteSets

CONSTANTS Threads,
          Frames,         \* of the game, positive numbers
          MaxFrames,      \* of a walk, 24 in the code
          HandlerFrames,  \* of one activation of the handler, before the game's
          Room            \* activations of the handler that fit a stack

ASSUME CrashAssumption ==
    /\ Frames \subseteq Nat \ {0} /\ MaxFrames \in Nat
    /\ HandlerFrames \in Nat \ {0} /\ Room \in Nat

Segv == -1               \* reading there is an access violation,
Bus == -2                \* a bus error,
LowLr == -3              \* or works, but the return address is none
Ill == -4
Signals == {Segv, Bus, Ill}

VARIABLES
    os,                  \* "posix" or "win32"
    frames,              \* what the frames of the game hold
    process,             \* "running", "exited" by the handler, "killed" by the system
    handlers,            \* the activations of handle_crash on each thread
    reset                \* POSIX: the signals whose handler SA_RESETHAND has taken away

crashVars == <<os, frames, process, handlers, reset>>

CrashInit ==
    /\ os \in {"posix", "win32"}
    /\ frames \in [Frames -> Frames \cup {0, Segv, Bus, LowLr}]
    /\ process = "running"
    /\ handlers = [t \in Threads |-> << >>]
    /\ reset = {}

Top(t) == handlers[t][Len(handlers[t])]
At(t, step) == process = "running" /\ handlers[t] # << >> /\ Top(t).step = step
SetTop(t, h) == handlers' = [handlers EXCEPT ![t][Len(handlers[t])] = h]

(* A signal or exception reaches the thread.  POSIX runs the handler once   *)
(* for each signal and kills the process at a second; Windows runs it every *)
(* time, on what is left of the stack.  The frames of the handler's earlier *)
(* activations come before those of the game, from start on.                *)
Raise(t, sig, start) ==
    IF IF os = "posix" THEN sig \in reset ELSE Len(handlers[t]) = Room
    THEN process' = "killed" /\ UNCHANGED <<handlers, reset>>
    ELSE /\ handlers' = [handlers EXCEPT ![t] = Append(@,
              [step |-> "report", depth |-> 0, start |-> start,
               own |-> HandlerFrames * Len(handlers[t]), frame |-> start])]
         /\ reset' = IF os = "posix" THEN reset \cup {sig} ELSE reset
         /\ UNCHANGED process

Fault(t) == /\ process = "running" /\ handlers[t] = << >>
            /\ \E sig \in Signals, start \in Frames \cup {0} : Raise(t, sig, start)
            /\ UNCHANGED <<os, frames>>

(* handle_crash: the signal and the registers, before anything can fail. *)
Report(t) == /\ At(t, "report")
             /\ SetTop(t, [Top(t) EXCEPT !.step = "walk"])
             /\ UNCHANGED <<os, frames, process, reset>>

(* Deeper with a fault, for comparison: depth is not counted. *)
DeeperUncounted(depth) == depth

Deeper(depth) == depth + 1

(* One round of the walk: a frame of the handler's own, or one of the game; *)
(* the walk ends after MaxFrames, at a frame it refuses, at a return        *)
(* address that is none and at a frame that names itself.                   *)
Walk(t) ==
    /\ At(t, "walk")
    /\ LET h == Top(t)
           next == frames[h.frame]
           ends == [h EXCEPT !.step = "map"]
       IN  IF h.depth >= MaxFrames \/ (h.own = 0 /\ h.frame = 0)
           THEN SetTop(t, ends) /\ UNCHANGED <<process, reset>>
           ELSE IF h.own > 0
           THEN /\ SetTop(t, [h EXCEPT !.own = @ - 1, !.depth = Deeper(@)])
                /\ UNCHANGED <<process, reset>>
           ELSE IF next \in {Segv, Bus}
           THEN Raise(t, next, h.start)
           ELSE /\ SetTop(t, IF next \in {LowLr, 0, h.frame} THEN ends
                             ELSE [h EXCEPT !.frame = next, !.depth = Deeper(@)])
                /\ UNCHANGED <<process, reset>>
    /\ UNCHANGED <<os, frames>>

os_print_memory_map(t) == /\ At(t, "map")
                          /\ SetTop(t, [Top(t) EXCEPT !.step = "exit"])
                          /\ UNCHANGED <<os, frames, process, reset>>

(* _exit(139) *)
Exit(t) == /\ At(t, "exit")
           /\ process' = "exited"
           /\ UNCHANGED <<os, frames, handlers, reset>>

Handles(t) == Report(t) \/ Walk(t) \/ os_print_memory_map(t) \/ Exit(t)

CrashNext == \E t \in Threads : Fault(t) \/ Handles(t)
CrashSpec == CrashInit /\ [][CrashNext]_crashVars

-----------------------------------------------------------------------------
(* The most activations the handler needs on one thread: one for each       *)
(* signal on POSIX, and on Windows so many that their own frames fill a     *)
(* walk.                                                                    *)
Nesting == IF os = "posix" THEN Cardinality(Signals)
           ELSE 1 + ((MaxFrames + HandlerFrames - 1) \div HandlerFrames)

(* However broken the chain of frames is, a handler that faults in its own  *)
(* walk does not do so for ever: its activations on a thread are few, and   *)
(* where the stack has room for them it is never the stack that ends the    *)
(* process.                                                                 *)
NestingBounded ==
    \A t \in Threads : /\ Len(handlers[t]) <= Nesting
                       /\ (os = "win32" /\ Nesting <= Room) => process # "killed"

(* A process with a crashed thread ends, whatever the frames hold and       *)
(* whatever the other threads do: neither a cycle of frames nor a fault in  *)
(* the handler keeps it alive.                                              *)
CrashEnds ==
    (\E t \in Threads : handlers[t] # << >>) ~> process # "running"
=============================================================================
