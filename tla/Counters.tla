------------------------------ MODULE Counters ------------------------------
(***************************************************************************)
(* The counters of src/loader_counters.c: every shim adds to its own       *)
(* without a lock, on any thread, and a dump reads them one after the      *)
(* other.  A dump runs at exit and, on demand, in a signal handler (POSIX) *)
(* or on a thread of the console (Windows); the one may come in the middle *)
(* of the other.                                                           *)
(***************************************************************************)
EXTENDS Integers

CONSTANTS ShimCount,    \* SHIM_COUNT
          MaxHits,      \* bound: hits of one shim
          MaxDumps      \* bound: dumps on demand

ASSUME CountersAssumption ==
    ShimCount \in Nat /\ MaxHits \in Nat /\ MaxDumps \in Nat

ShimIds == 1 .. ShimCount
Dumpers == {"atexit", "demand"}
Idle == ShimCount + 1

VARIABLES
    preempts,           \* whether the dump on demand interrupts the other (POSIX)
    shim_counters,
    i,                  \* the loop of each dump, Idle when there is none
    before,             \* the counters when it began
    printed,            \* what it has printed of them
    dumps               \* dumps so far

countVars == <<preempts, shim_counters, i, before, printed, dumps>>

Zeros == [s \in ShimIds |-> 0]

CountersInit ==
    /\ preempts \in BOOLEAN
    /\ shim_counters = Zeros
    /\ i = [d \in Dumpers |-> Idle]
    /\ before = [d \in Dumpers |-> Zeros] /\ printed = [d \in Dumpers |-> Zeros]
    /\ dumps = [d \in Dumpers |-> 0]

SHIM_HIT(s) ==
    /\ shim_counters[s] < MaxHits
    /\ shim_counters' = [shim_counters EXCEPT ![s] = @ + 1]
    /\ UNCHANGED <<preempts, i, before, printed, dumps>>

(* The process exits once; a second signal waits until the first is done.   *)
StartDump(d) ==
    /\ i[d] = Idle /\ dumps[d] < (IF d = "atexit" THEN 1 ELSE MaxDumps)
    /\ dumps' = [dumps EXCEPT ![d] = @ + 1]
    /\ i' = [i EXCEPT ![d] = 1]
    /\ before' = [before EXCEPT ![d] = shim_counters]
    /\ printed' = [printed EXCEPT ![d] = Zeros]
    /\ UNCHANGED <<preempts, shim_counters>>

(* Prints with a fault, for comparison: two dumps share what they print. *)
PrintsShared(d) ==
    printed' = [e \in Dumpers |-> [printed[e] EXCEPT ![i[d]] = shim_counters[i[d]]]]

(* What one round of the loop prints; a counter of 0 is left out. *)
Prints(d) == printed' = [printed EXCEPT ![d][i[d]] = shim_counters[i[d]]]

(* On Windows the two dumps have threads of their own; on POSIX a signal    *)
(* stops what the thread was doing until its handler is done.               *)
MayRun(d) == preempts /\ d = "atexit" => i["demand"] = Idle

(* mac_shim_dump_counters; the total is that of what was printed. *)
DumpRound(d) ==
    /\ i[d] # Idle /\ MayRun(d)
    /\ Prints(d)
    /\ i' = [i EXCEPT ![d] = @ + 1]
    /\ UNCHANGED <<preempts, shim_counters, before, dumps>>

CountersNext == \/ \E s \in ShimIds : SHIM_HIT(s)
                \/ \E d \in Dumpers : StartDump(d) \/ DumpRound(d)
CountersSpec == CountersInit /\ [][CountersNext]_countVars

-----------------------------------------------------------------------------
(* A dump prints no counter lower than it was when the dump began nor       *)
(* higher than it is now, so its total lies between the totals before and   *)
(* after, although shims are hit all the time and another dump may run in   *)
(* the middle; and what it has not come to it has not printed.              *)
SnapshotBetween ==
    \A d \in Dumpers, s \in ShimIds :
        /\ s < i[d] /\ dumps[d] > 0 =>
              /\ before[d][s] <= printed[d][s]
              /\ printed[d][s] <= shim_counters[s]
        /\ s >= i[d] => printed[d][s] = 0
=============================================================================
