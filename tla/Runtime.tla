------------------------------ MODULE Runtime ------------------------------
(***************************************************************************)
(* What the loader does underneath the running game with instructions and  *)
(* handlers of its own: variadic calls (VarArgs), setjmp and longjmp       *)
(* (JumpBuf), the probe before a large frame (StackProbe), the counters of *)
(* calls (Counters) and the report of a crash (Crash).  They share no      *)
(* state, and a crash ends the process, so each is looked at while the     *)
(* others are at rest.                                                     *)
(***************************************************************************)
EXTENDS VarArgs, JumpBuf, StackProbe, Counters, Crash

vars == <<argVars, jumpVars, probeVars, countVars, crashVars>>

NoCall == at = "game" /\ shim = Shim("third", 2) /\ args = << >>
NoCrash == handlers = [t \in Threads |-> << >>] /\ frames = [f \in Frames |-> 0]

Init == /\ CrashInit /\ host = os /\ preempts = (os = "posix")
        /\ CountersInit /\ JumpInit /\ ProbeInit /\ VarArgsInit
        /\ NoCall \/ NoCrash

VarArgsTurn == /\ VarArgsNext
               /\ JumpInit /\ ProbeInit /\ CountersInit /\ NoCrash
               /\ UNCHANGED <<jumpVars, probeVars, countVars, crashVars>>
JumpTurn == /\ host = "win32" /\ JumpNext
            /\ NoCall /\ ProbeInit /\ CountersInit /\ NoCrash
            /\ UNCHANGED <<argVars, probeVars, countVars, crashVars>>
ProbeTurn == /\ host = "win32" /\ ProbeNext
             /\ NoCall /\ JumpInit /\ CountersInit /\ NoCrash
             /\ UNCHANGED <<argVars, jumpVars, countVars, crashVars>>
CountersTurn == /\ CountersNext
                /\ NoCall /\ JumpInit /\ ProbeInit /\ NoCrash
                /\ UNCHANGED <<argVars, jumpVars, probeVars, crashVars>>
CrashTurn == /\ CrashNext
             /\ NoCall /\ JumpInit /\ ProbeInit /\ CountersInit
             /\ UNCHANGED <<argVars, jumpVars, probeVars, countVars>>

Next == VarArgsTurn \/ JumpTurn \/ ProbeTurn \/ CountersTurn \/ CrashTurn

Spec == Init /\ [][Next]_vars

(* A thread in the crash handler goes on: it takes no lock of the game's,   *)
(* and the locks of the C library it prints the map under are given back.   *)
Fairness == \A t \in Threads :
    WF_vars(Handles(t) /\ UNCHANGED <<argVars, jumpVars, probeVars, countVars>>)
FairSpec == Spec /\ Fairness
=============================================================================
