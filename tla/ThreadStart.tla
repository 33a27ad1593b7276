----------------------------- MODULE ThreadStart -----------------------------
(***************************************************************************)
(* Starting a thread on Windows, src/loader_shims.c: the function and its  *)
(* argument travel from mac_create_thread_impl to mac_thread_trampoline in *)
(* a malloc'd block.  Who frees it depends on whether pthread_create       *)
(* succeeded; the new thread may run to its end before pthread_create has  *)
(* returned.  Each step is one access of the block or one library call.    *)
(***************************************************************************)
EXTENDS Integers, FiniteSets

CONSTANTS Creators,   \* threads of the game that start threads
          Workers,    \* bound: threads that exist at a time
          Blocks,     \* bound: blocks malloc can return
          Jobs,       \* what the game asks to be run: function and data
          NULL, Free, Garbage

ASSUME ThreadAssumption ==
    /\ NULL \notin Blocks \cup Workers \cup Jobs
    /\ {Free, Garbage} \cap Jobs = {} /\ Free # Garbage

VARIABLES
    heap,     \* what each block holds, Free when it is not allocated
    pc, arg, want, tid,   \* mac_create_thread_impl in each creator
    alive, wpc, warg, job, asked,   \* the thread, its trampoline, what it runs
    joinable              \* threads whose resources pthread_detach must release

creatorVars == <<pc, arg, want, tid>>
workerVars  == <<alive, wpc, warg, job, asked>>
vars == <<heap, creatorVars, workerVars, joinable>>

Init ==
    /\ heap = [b \in Blocks |-> Free]
    /\ pc = [c \in Creators |-> "game"] /\ arg = [c \in Creators |-> NULL]
    /\ want = [c \in Creators |-> NULL] /\ tid = [c \in Creators |-> NULL]
    /\ alive = {} /\ wpc = [w \in Workers |-> "enter"]
    /\ warg = [w \in Workers |-> NULL] /\ job = [w \in Workers |-> NULL]
    /\ asked = [w \in Workers |-> NULL]
    /\ joinable = {}

Goto(c, from, to) == pc[c] = from /\ pc' = [pc EXCEPT ![c] = to]

(* mac_create_thread_impl: malloc, which may fail ... *)
Allocate(c, j) ==
    /\ pc[c] = "game"
    /\ want' = [want EXCEPT ![c] = j]
    /\ \/ \E b \in {k \in Blocks : heap[k] = Free} :
             /\ heap' = [heap EXCEPT ![b] = Garbage]
             /\ arg' = [arg EXCEPT ![c] = b]
             /\ pc' = [pc EXCEPT ![c] = "fill"]
       \/ UNCHANGED <<heap, arg, pc>>
    /\ UNCHANGED <<tid, workerVars, joinable>>

(* ... the block is filled in ... *)
Fill(c) ==
    /\ Goto(c, "fill", "create")
    /\ heap' = [heap EXCEPT ![arg[c]] = want[c]]
    /\ UNCHANGED <<arg, want, tid, workerVars, joinable>>

(* ... pthread_create starts a thread or fails ... *)
Create(c) ==
    \/ /\ Goto(c, "create", "detach")
       /\ \E w \in Workers \ (alive \cup joinable) :
             /\ alive' = alive \cup {w}
             /\ joinable' = joinable \cup {w}
             /\ tid' = [tid EXCEPT ![c] = w]
             /\ wpc' = [wpc EXCEPT ![w] = "enter"]
             /\ warg' = [warg EXCEPT ![w] = arg[c]]
             /\ asked' = [asked EXCEPT ![w] = want[c]]
             /\ job' = [job EXCEPT ![w] = NULL]
       /\ UNCHANGED <<heap, arg, want>>
    \/ /\ Goto(c, "create", "undo")
       /\ UNCHANGED <<heap, arg, want, tid, workerVars, joinable>>

(* Undo with a fault, for comparison: the block is not freed. *)
UndoNot(c) ==
    /\ Goto(c, "undo", "game")
    /\ arg' = [arg EXCEPT ![c] = NULL]
    /\ UNCHANGED <<heap, want, tid, workerVars, joinable>>

(* ... and the block is freed here only if there is no thread to do it.     *)
Undo(c) ==
    /\ Goto(c, "undo", "game")
    /\ heap' = [heap EXCEPT ![arg[c]] = Free]
    /\ arg' = [arg EXCEPT ![c] = NULL]
    /\ UNCHANGED <<want, tid, workerVars, joinable>>

(* Detach with a fault, for comparison: the block is freed here, too. *)
DetachAndFree(c) ==
    /\ Goto(c, "detach", "game")
    /\ joinable' = joinable \ {tid[c]}
    /\ heap' = [heap EXCEPT ![arg[c]] = Free]
    /\ arg' = [arg EXCEPT ![c] = NULL]
    /\ UNCHANGED <<want, tid, workerVars>>

Detach(c) ==
    /\ Goto(c, "detach", "game")
    /\ joinable' = joinable \ {tid[c]}
    /\ arg' = [arg EXCEPT ![c] = NULL]
    /\ UNCHANGED <<heap, want, tid, workerVars>>

-----------------------------------------------------------------------------
(* mac_thread_trampoline: take the job out of the block, free it, run.      *)
WGoto(w, from, to) ==
    w \in alive /\ wpc[w] = from /\ wpc' = [wpc EXCEPT ![w] = to]

Take(w) ==
    /\ WGoto(w, "enter", "free")
    /\ job' = [job EXCEPT ![w] = heap[warg[w]]]
    /\ UNCHANGED <<heap, creatorVars, alive, warg, asked, joinable>>

(* FreeArg with a fault, for comparison: nothing is freed. *)
FreeArgNot(w) ==
    /\ WGoto(w, "free", "run")
    /\ UNCHANGED <<heap, creatorVars, alive, warg, job, asked, joinable>>

FreeArg(w) ==
    /\ WGoto(w, "free", "run")
    /\ heap' = [heap EXCEPT ![warg[w]] = Free]
    /\ UNCHANGED <<creatorVars, alive, warg, job, asked, joinable>>

Return(w) ==
    /\ w \in alive /\ wpc[w] = "run"
    /\ alive' = alive \ {w}
    /\ UNCHANGED <<heap, creatorVars, wpc, warg, job, asked, joinable>>

Next == \/ \E c \in Creators : \/ \E j \in Jobs : Allocate(c, j)
                               \/ Fill(c) \/ Create(c) \/ Undo(c) \/ Detach(c)
        \/ \E w \in Workers : Take(w) \/ FreeArg(w) \/ Return(w)

Spec == Init /\ [][Next]_vars

(* Both sides go on as long as they can; that the game asks for a thread,   *)
(* or that what a thread runs returns, is not assumed.                      *)
FairSpec == /\ Spec
            /\ \A c \in Creators : WF_vars(Fill(c) \/ Create(c) \/ Undo(c) \/ Detach(c))
            /\ \A w \in Workers : WF_vars(Take(w) \/ FreeArg(w))

-----------------------------------------------------------------------------
(* A thread runs what it was started for, never what a freed, reused or     *)
(* unfilled block holds.                                                    *)
RunsWhatWasAsked == \A w \in alive : wpc[w] # "enter" => job[w] = asked[w]

(* Each block in use has one owner who will free it: a creator that has not *)
(* started its thread, or a thread that has not freed it yet.  So no block  *)
(* leaks and none is freed twice.                                           *)
Owners(b) == {c \in Creators : arg[c] = b /\ pc[c] \in {"fill", "create", "undo"}}
             \cup {w \in alive : warg[w] = b /\ wpc[w] \in {"enter", "free"}}

OneOwner == \A b \in Blocks :
               Cardinality(Owners(b)) = IF heap[b] = Free THEN 0 ELSE 1

(* Every block comes back: a thread start does not use up memory. *)
BlocksReturn == \A b \in Blocks : heap[b] # Free ~> heap[b] = Free

(* pthread_detach always finds its thread: the id is not given to another   *)
(* thread before, and no thread stays joinable.                             *)
DetachesItsOwn ==
    /\ \A c \in Creators : pc[c] = "detach" => tid[c] \in joinable
    /\ \A w \in joinable : \E c \in Creators : pc[c] = "detach" /\ tid[c] = w

(* Blocks and ids have one owner each, who gives them back once. *)
NothingLeaks == OneOwner /\ DetachesItsOwn
=============================================================================
