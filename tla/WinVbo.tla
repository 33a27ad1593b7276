------------------------------- MODULE WinVbo -------------------------------
(***************************************************************************)
(* src/loader_win_vbo.c: the software vertex buffer objects of the Windows *)
(* loader.  Eight of the game's GL function slots are patched.  While the  *)
(* four buffer slots hold "emul" the game's calls run the emulator of this *)
(* file; a glGenBuffers call that finds the driver's own functions (which  *)
(* wglGetProcAddress only knows once a GL context is current) writes them  *)
(* into the slots and takes the emulator out of the call path.             *)
(*                                                                         *)
(* All calls come from the game's GL thread, so each handler is one step,  *)
(* except that the loop of glGenBuffers over its n names is a step per     *)
(* name (genLeft names are still owed) and glDeleteBuffers, whose          *)
(* iterations share nothing, is a step per name.                           *)
(*                                                                         *)
(* The GL driver (host*, ctx, exported) and the game (held, src) are       *)
(* outside the file: they are modelled from how the file uses them.        *)
(***************************************************************************)
EXTENDS Integers, FiniteSets

CONSTANTS
    MaxVbo,         \* MAX_VBO: size of the table, 65536 in the code
    RetryBudget,    \* failed promotions before the emulator gives up, 16
    MaxBatch,       \* bound: names asked for in one glGenBuffers call
    Blocks,         \* bound: heap blocks malloc can return
    Payloads,       \* bound: contents of a data store
    PtrSlots,       \* the gl*Pointer slots of the game's table
    ExportSets,     \* what the driver may export: sets of <<family, slot>>
    MallocMayFail,  \* whether malloc may return NULL
    Rules,          \* what the game is assumed to respect, see GameRules
    NULL, Free

(* "binds_generated": the game binds and deletes only names it was given.   *)
(* "context_first":   it calls glGenBuffers only once a context is current. *)
GameRules == {"binds_generated", "context_first"}

VboSlots  == {"Gen", "Bind", "BufferData", "Delete"}
SlotNames == VboSlots \cup PtrSlots \cup {"DrawElements"}
Families  == {"arb", "core"}
Ids       == 1 .. MaxVbo - 1
BindTargets == {"array", "elem"}

ASSUME SizeAssumption == /\ MaxVbo \in Nat /\ MaxVbo > 1
                         /\ RetryBudget \in Nat
                         /\ MaxBatch \in 1 .. MaxVbo - 1
ASSUME ValueAssumption == /\ NULL \notin Blocks /\ Free \notin Payloads
                          /\ IsFiniteSet(Blocks) /\ Payloads # {}
ASSUME SetAssumption == /\ PtrSlots \cap (VboSlots \cup {"DrawElements"}) = {}
                        /\ MallocMayFail \in BOOLEAN
                        /\ Rules \subseteq GameRules

VARIABLES
    vbos,       \* s_vbos[id]: .allocated and .data (a block or NULL)
    heap,       \* what each malloc'd block holds, Free if not allocated
    s_bound,    \* s_bound_array and s_bound_elem
    scan_hint, live_now, live_peak,
    slots,      \* the function each GOT slot holds
    arb_state,  \* s_real_arb_state: 0 not attempted, 1 promoted, -1 gave up
    retries, wgl,
    installed,  \* install_win_vbo has run
    genLeft,    \* names the glGenBuffers call in progress still owes
    ctx, exported, hostNames, hostStore, hostBound,   \* the GL driver
    attrib,     \* the pointer the driver holds for each vertex array
    held,       \* the game: names it holds
    src         \* the buffer each array's pointer was set for, see Outdates

emuVars  == <<vbos, heap, s_bound, scan_hint, live_now, live_peak>>
modeVars == <<slots, arb_state, retries, wgl, installed>>
hostVars == <<ctx, exported, hostNames, hostStore, hostBound>>
gameVars == <<attrib, held, src>>
vars == <<emuVars, modeVars, hostVars, gameVars, genLeft>>

Emulated == slots["Gen"] = "emul"
Hosted   == slots["Gen"] \in Families
Idle     == installed /\ genLeft = 0

-----------------------------------------------------------------------------
(* install_win_vbo: arm the emulator, or leave the slots as                 *)
(* install_gl_redirect left them when the slot table misses a name.         *)
BootSlots     == [s \in SlotNames |-> IF s \in VboSlots THEN "nop" ELSE "host"]
EmulatorSlots == [s \in SlotNames |-> IF s \in VboSlots THEN "emul" ELSE "hook"]

Install ==
    /\ ~installed
    /\ installed' = TRUE
    /\ \E complete, opengl32 \in BOOLEAN :
         /\ slots' = IF complete THEN EmulatorSlots ELSE slots
         /\ wgl' = (complete /\ opengl32)
    /\ UNCHANGED <<emuVars, arb_state, retries, hostVars, gameVars, genLeft>>

(* SDL_GL_CreateContext: from here wglGetProcAddress answers. *)
MakeCurrent == /\ ~ctx /\ ctx' = TRUE
               /\ UNCHANGED <<emuVars, modeVars, gameVars, genLeft, exported,
                              hostNames, hostStore, hostBound>>

(* Resolves with a fault, for comparison: the first attempt does not count. *)
ResolvesLate(fam) == retries > 0 /\ ctx /\ \A s \in VboSlots : <<fam, s>> \in exported

Resolves(fam) == ctx /\ \A s \in VboSlots : <<fam, s>> \in exported

(* The ARB names are asked for first; one missing name discards all four. *)
Chosen(fam) == Resolves(fam) /\ (fam = "core" => ~Resolves("arb"))

(* HostSlots with a fault, for comparison: one slot forgotten. *)
HostSlotsButDraw(fam) == [s \in SlotNames |-> IF s \in VboSlots THEN fam
                         ELSE IF s = "DrawElements" THEN "hook" ELSE "host"]

HostSlots(fam) == [s \in SlotNames |-> IF s \in VboSlots THEN fam ELSE "host"]

(* try_promote_to_real_vbo with a fault, for comparison: the outcome is not *)
(* recorded.                                                                *)
PromoteUnrecorded ==
    \/ /\ arb_state = 0 /\ wgl
       /\ \E fam \in Families : Chosen(fam) /\ slots' = HostSlots(fam)
       /\ UNCHANGED <<arb_state, retries, wgl, installed>>
    \/ /\ arb_state # 0 \/ ~wgl \/ \A fam \in Families : ~Chosen(fam)
       /\ UNCHANGED modeVars

(* try_promote_to_real_vbo with a fault, for comparison: it goes on after   *)
(* giving up.                                                               *)
PromoteUnbounded ==
    \/ /\ \E fam \in Families : Chosen(fam) /\ slots' = HostSlots(fam)
       /\ arb_state' = 1
       /\ UNCHANGED <<retries, wgl, installed>>
    \/ /\ \A fam \in Families : ~Chosen(fam)
       /\ retries' = retries + 1
       /\ arb_state' = IF ~wgl \/ retries + 1 > RetryBudget THEN -1 ELSE arb_state
       /\ UNCHANGED <<slots, wgl, installed>>

try_promote_to_real_vbo ==
    \/ /\ arb_state # 0
       /\ UNCHANGED modeVars
    \/ /\ arb_state = 0 /\ ~wgl
       /\ arb_state' = -1
       /\ UNCHANGED <<slots, retries, wgl, installed>>
    \/ /\ arb_state = 0 /\ wgl
       /\ \E fam \in Families : Chosen(fam) /\ slots' = HostSlots(fam)
       /\ arb_state' = 1
       /\ UNCHANGED <<retries, wgl, installed>>
    \/ /\ arb_state = 0 /\ wgl
       /\ \A fam \in Families : ~Chosen(fam)
       /\ retries' = retries + 1
       /\ arb_state' = IF retries + 1 > RetryBudget THEN -1 ELSE 0
       /\ UNCHANGED <<slots, wgl, installed>>

(* Entry of glGenBuffers(n): the emulator first tries to hand over.  The    *)
(* driver of the model has no names beyond Ids (a bound).                   *)
GenCall(n) ==
    /\ Idle
    /\ Emulated \/ (Hosted /\ n <= Cardinality(Ids \ hostNames))
    /\ "context_first" \in Rules => ctx
    /\ genLeft' = n
    /\ IF Emulated THEN try_promote_to_real_vbo ELSE UNCHANGED modeVars
    /\ UNCHANGED <<emuVars, hostVars, gameVars>>

(* The slot the scan probes at its step-th attempt, wrapping past the end.  *)
Cand(hint, step) == IF hint + step >= MaxVbo
                    THEN 1 + ((hint + step - MaxVbo) % (MaxVbo - 1))
                    ELSE hint + step

Steps == 0 .. MaxVbo - 1
Taken(step) == vbos[Cand(scan_hint, step)].allocated

(* FirstFree with a fault, for comparison: a slot in use is taken. *)
FirstFreeUnchecked(step) == \A earlier \in 0 .. step - 1 : Taken(earlier)

FirstFree(step) == ~Taken(step) /\ \A earlier \in 0 .. step - 1 : Taken(earlier)

(* NextHint with a fault, for comparison: no wrap. *)
NextHintUnwrapped(id) == id + 1

(* Where the next scan starts. *)
NextHint(id) == IF id + 1 >= MaxVbo THEN 1 ELSE id + 1

(* One name: the first free slot at or after the hint. *)
GenTake ==
    /\ genLeft > 0 /\ Emulated
    /\ \E step \in Steps :
         LET id == Cand(scan_hint, step) IN
         /\ FirstFree(step)
         /\ vbos' = [vbos EXCEPT ![id].allocated = TRUE]
         /\ scan_hint' = NextHint(id)
         /\ held' = held \cup {id}
    /\ live_now' = live_now + 1
    /\ live_peak' = IF live_now' > live_peak THEN live_now' ELSE live_peak
    /\ genLeft' = genLeft - 1
    /\ UNCHANGED <<heap, s_bound, modeVars, hostVars, attrib, src>>

(* No free slot found: the game is given the name 0, which names nothing. *)
GenExhausted ==
    /\ genLeft > 0 /\ Emulated
    /\ \A step \in Steps : Taken(step)
    /\ genLeft' = genLeft - 1
    /\ UNCHANGED <<emuVars, modeVars, hostVars, gameVars>>

GenHost ==
    /\ genLeft > 0 /\ Hosted
    /\ \E id \in Ids \ hostNames : /\ hostNames' = hostNames \cup {id}
                                   /\ held' = held \cup {id}
    /\ genLeft' = genLeft - 1
    /\ UNCHANGED <<emuVars, modeVars, ctx, exported, hostStore, hostBound, attrib, src>>

-----------------------------------------------------------------------------
(* The names the game may pass: its own, or any number up to MAX_VBO. *)
NamesToPass == IF "binds_generated" \in Rules THEN held ELSE 1 .. MaxVbo

vbo_glBindBufferARB(t, id) ==
    /\ Idle /\ slots["Bind"] = "emul"
    /\ s_bound' = [s_bound EXCEPT ![t] = IF id >= MaxVbo THEN 0 ELSE id]
    /\ UNCHANGED <<vbos, heap, scan_hint, live_now, live_peak,
                   modeVars, hostVars, gameVars, genLeft>>

(* The driver creates a name it has not generated when it is bound. *)
HostBind(t, id) ==
    /\ Idle /\ slots["Bind"] \in Families
    /\ id < MaxVbo
    /\ hostBound' = [hostBound EXCEPT ![t] = id]
    /\ hostNames' = hostNames \cup ({id} \ {0})
    /\ UNCHANGED <<emuVars, modeVars, ctx, exported, hostStore, gameVars, genLeft>>

(* Arrays whose pointers were set for id before now keep pointers into what *)
(* id was: -1, until gl*Pointer is called for them again.                   *)
Outdates(id) == src' = [a \in PtrSlots |-> IF src[a] = id THEN -1 ELSE src[a]]

(* The buffer a glBufferData call addresses: any target that is not the     *)
(* array target is taken for the element target.                            *)
Addressed(t) == IF t = "array" THEN s_bound["array"] ELSE s_bound["elem"]

(* Freed with a fault, for comparison: nothing is freed. *)
FreedNot(b) == heap

Freed(b) == IF b = NULL THEN heap ELSE [heap EXCEPT ![b] = Free]

(* The old store is freed, then malloc'd anew unless p = NULL (size 0).     *)
vbo_glBufferDataARB(t, p) ==
    LET id == Addressed(t)
        heap1 == Freed(vbos[id].data)
    IN /\ Idle /\ slots["BufferData"] = "emul"
       /\ id # 0
       /\ \/ /\ p # NULL
             /\ \E b \in Blocks :
                  /\ heap1[b] = Free
                  /\ heap' = [heap1 EXCEPT ![b] = p]
                  /\ vbos' = [vbos EXCEPT ![id].data = b]
          \/ /\ p = NULL \/ MallocMayFail
             /\ heap' = heap1
             /\ vbos' = [vbos EXCEPT ![id].data = NULL]
       /\ Outdates(id)
       /\ UNCHANGED <<s_bound, scan_hint, live_now, live_peak,
                      modeVars, hostVars, attrib, held, genLeft>>

(* The driver's arrays refer to buffers, not to memory: they go along.      *)
HostBufferData(t, p) ==
    /\ Idle /\ slots["BufferData"] \in Families
    /\ hostBound[t] # 0
    /\ hostStore' = [hostStore EXCEPT ![hostBound[t]] = p]
    /\ UNCHANGED <<emuVars, modeVars, ctx, exported, hostNames, hostBound,
                   gameVars, genLeft>>

(* Unbound with a fault, for comparison: the binding stays. *)
StillBound(binding, id) == binding

Unbound(binding, id) ==
    [t \in BindTargets |-> IF binding[t] = id THEN 0 ELSE binding[t]]

(* Emptied with a fault, for comparison: the store stays. *)
EmptiedNot(id) == [vbos EXCEPT ![id].allocated = FALSE]

Emptied(id) == [vbos EXCEPT ![id] = [allocated |-> FALSE, data |-> NULL]]

(* One iteration of the delete loop; names out of range or free are skipped. *)
vbo_glDeleteBuffersARB(id) ==
    /\ Idle /\ slots["Delete"] = "emul"
    /\ id \in Ids /\ vbos[id].allocated
    /\ heap' = Freed(vbos[id].data)
    /\ vbos' = Emptied(id)
    /\ live_now' = live_now - 1
    /\ scan_hint' = IF id < scan_hint THEN id ELSE scan_hint
    /\ s_bound' = Unbound(s_bound, id)
    /\ held' = held \ {id}
    /\ Outdates(id)
    /\ UNCHANGED <<live_peak, modeVars, hostVars, attrib, genLeft>>

HostDelete(id) ==
    /\ Idle /\ slots["Delete"] \in Families
    /\ id \in Ids
    /\ hostNames' = hostNames \ {id}
    /\ hostStore' = [hostStore EXCEPT ![id] = NULL]
    /\ hostBound' = Unbound(hostBound, id)
    /\ held' = held \ {id}
    /\ Outdates(id)
    /\ UNCHANGED <<emuVars, modeVars, ctx, exported, attrib, genLeft>>

-----------------------------------------------------------------------------
(* Resolved with a fault, for comparison: the array binding for both. *)
ResolvedInArray(t) ==
    LET id == s_bound["array"] IN
    IF id = 0 THEN [kind |-> "client"]
    ELSE IF vbos[id].data = NULL THEN [kind |-> "offset"]
    ELSE [kind |-> "block", at |-> vbos[id].data]

(* resolve_array_ptr and resolve_elem_ptr: the offset becomes a pointer into *)
(* the bound buffer's block, or is passed through when there is none.        *)
Resolved(t) ==
    IF s_bound[t] = 0 THEN [kind |-> "client"]
    ELSE IF vbos[s_bound[t]].data = NULL THEN [kind |-> "offset"]
    ELSE [kind |-> "block", at |-> vbos[s_bound[t]].data]

(* What the driver makes of a pointer it is given directly. *)
HostPointer(t) == IF hostBound[t] = 0 THEN [kind |-> "client"]
                  ELSE [kind |-> "buffer", at |-> hostBound[t]]

(* The binding and store the game's calls work on. *)
BoundNow(t)   == IF Hosted THEN hostBound[t] ELSE s_bound[t]
LiveNames     == IF Hosted THEN hostNames ELSE {id \in Ids : vbos[id].allocated}
ContentOf(id) == IF Hosted THEN hostStore[id]
                 ELSE IF vbos[id].data = NULL THEN NULL ELSE heap[vbos[id].data]

(* gl*Pointer: the driver keeps the pointer for later draws. *)
Pointer(a) ==
    /\ Idle
    /\ attrib' = [attrib EXCEPT ![a] = IF slots[a] = "hook" THEN Resolved("array")
                                       ELSE HostPointer("array")]
    /\ src' = [src EXCEPT ![a] = BoundNow("array")]
    /\ UNCHANGED <<emuVars, modeVars, hostVars, held, genLeft>>

(* Where glDrawElements would fetch its indices from now. *)
IndexPointer == IF slots["DrawElements"] = "hook" THEN Resolved("elem")
                ELSE HostPointer("elem")

Init ==
    /\ vbos = [id \in 0 .. MaxVbo - 1 |-> [allocated |-> FALSE, data |-> NULL]]
    /\ heap = [b \in Blocks |-> Free]
    /\ s_bound = [t \in BindTargets |-> 0]
    /\ scan_hint = 1 /\ live_now = 0 /\ live_peak = 0
    /\ slots = BootSlots
    /\ arb_state = 0 /\ retries = 0 /\ wgl = FALSE /\ installed = FALSE
    /\ genLeft = 0
    /\ ctx = FALSE /\ exported \in ExportSets
    /\ hostNames = {} /\ hostStore = [id \in Ids |-> NULL]
    /\ hostBound = [t \in BindTargets |-> 0]
    /\ attrib = [a \in PtrSlots |-> [kind |-> "client"]]
    /\ held = {} /\ src = [a \in PtrSlots |-> -1]

Gen == \/ \E n \in 1 .. MaxBatch : GenCall(n)
       \/ GenTake \/ GenExhausted \/ GenHost

Bind == \E t \in BindTargets, id \in NamesToPass \cup {0} :
           vbo_glBindBufferARB(t, id) \/ HostBind(t, id)

BufferData == \E t \in BindTargets, p \in Payloads \cup {NULL} :
                 vbo_glBufferDataARB(t, p) \/ HostBufferData(t, p)

Delete == \E id \in NamesToPass : vbo_glDeleteBuffersARB(id) \/ HostDelete(id)

Next == \/ Install \/ MakeCurrent
        \/ Gen \/ Bind \/ BufferData \/ Delete
        \/ \E a \in PtrSlots : Pointer(a)

Spec == Init /\ [][Next]_vars
-----------------------------------------------------------------------------
(* The types of the file's state, of the driver and of the game. *)
Pointers == [kind : {"client", "offset"}] \cup [kind : {"block"}, at : Blocks]
            \cup [kind : {"buffer"}, at : Ids]

TypeOK ==
    /\ vbos \in [0 .. MaxVbo - 1 -> [allocated : BOOLEAN, data : Blocks \cup {NULL}]]
    /\ heap \in [Blocks -> Payloads \cup {Free}]
    /\ s_bound \in [BindTargets -> 0 .. MaxVbo - 1]
    /\ scan_hint \in Ids
    /\ live_now \in Int /\ live_peak \in Int
    /\ slots \in [SlotNames -> {"nop", "emul", "hook", "host"} \cup Families]
    /\ arb_state \in {-1, 0, 1} /\ retries \in Nat
    /\ wgl \in BOOLEAN /\ installed \in BOOLEAN /\ ctx \in BOOLEAN
    /\ genLeft \in 0 .. MaxBatch
    /\ hostNames \subseteq Ids
    /\ hostStore \in [Ids -> Payloads \cup {NULL}]
    /\ hostBound \in [BindTargets -> 0 .. MaxVbo - 1]
    /\ attrib \in [PtrSlots -> Pointers]
    /\ held \subseteq Ids
    /\ src \in [PtrSlots -> -1 .. MaxVbo - 1]

(* The eight slots change together: the game never runs one function of the *)
(* emulator beside one of the driver, nor two families of the driver, and   *)
(* s_real_arb_state says which of them it runs.                             *)
SlotsAgree ==
    \/ slots = BootSlots /\ arb_state = 0
    \/ slots = EmulatorSlots /\ arb_state \in {-1, 0}
    \/ /\ \E fam \in Families : slots = HostSlots(fam)
       /\ arb_state = 1

(* malloc and free balance: every block in use is the store of exactly one  *)
(* slot and every store is a block in use.  No leak, no double free, no     *)
(* read of freed memory by the emulator itself.                             *)
OwnedBlocks ==
    /\ \A b \in Blocks : heap[b] # Free => \E id \in Ids : vbos[id].data = b
    /\ \A id \in 0 .. MaxVbo - 1 :
          vbos[id].data # NULL => heap[vbos[id].data] # Free
    /\ \A i, j \in 0 .. MaxVbo - 1 :
          vbos[i].data = vbos[j].data /\ vbos[i].data # NULL => i = j

(* struct win_vbo: a slot whose allocated is 0 is free; slot 0 is reserved. *)
(* A free slot has no store, so the name it is handed out under starts      *)
(* without contents.                                                        *)
FreeSlotsEmpty ==
    \A id \in 0 .. MaxVbo - 1 : ~vbos[id].allocated => vbos[id].data = NULL

(* The bindings name a slot in use, or none. *)
BoundIsAllocated ==
    /\ ~vbos[0].allocated
    /\ \A t \in BindTargets : s_bound[t] = 0 \/ vbos[s_bound[t]].allocated

(* After glDeleteBuffers, and a malloc that failed, neither a store nor a   *)
(* binding of the old life is left for the next life of the name.           *)
NoOldLife == FreeSlotsEmpty /\ BoundIsAllocated

(* s_live_now is the number of slots in use and s_live_peak its maximum.    *)
LiveCount ==
    /\ live_now = Cardinality({id \in Ids : vbos[id].allocated})
    /\ live_now <= live_peak /\ live_peak < MaxVbo

(* Every name the game holds is live in the implementation its slots run.   *)
(* try_promote_to_real_vbo changes the implementation under names that were *)
(* already given out, and carries none of them over.                        *)
HeldNamesAreLive == held \subseteq LiveNames

(* Drawing reads what the game stored: the pointer glDrawElements would use *)
(* now leads into the store the bound buffer has now, and so do the         *)
(* pointers the driver holds for the arrays; while the emulator runs, only  *)
(* those that were set since their buffer's last glBufferData.  (The others *)
(* lead into a block that is freed: hook_gl*Pointer translates once, and    *)
(* nothing tells the driver of the new block.)                              *)
FollowsStore(pointer, id) ==
    ContentOf(id) = NULL \/
    pointer = IF Hosted THEN [kind |-> "buffer", at |-> id]
              ELSE [kind |-> "block", at |-> vbos[id].data]

DrawsReadStores ==
    /\ \A a \in PtrSlots :
          src[a] > 0 => FollowsStore(attrib[a], src[a])
    /\ BoundNow("elem") # 0 => FollowsStore(IndexPointer, BoundNow("elem"))

(* A name handed out by glGenBuffers is one the game does not hold already, *)
(* and 0 is handed out only when every name of the table is in use.         *)
GenNamesAreNew ==
    [][genLeft' < genLeft => \/ held' # held
                             \/ Emulated /\ \A id \in Ids : vbos[id].allocated]_vars

(* Once the slots hold the driver's functions, or the emulator has given    *)
(* up, no call brings the other back; and the emulator's tables, which the  *)
(* game's slots no longer reach after the promotion, stay as they were.     *)
DecisionIsFinal ==
    [][arb_state # 0 => /\ UNCHANGED <<slots, arb_state, retries>>
                        /\ Hosted => UNCHANGED emuVars]_vars

(* The emulator and the hand-over together give the game the buffers that   *)
(* ARB_vertex_buffer_object promises.                                       *)
Abstract == INSTANCE GLBuffers
                WITH names <- LiveNames,
                     content <- [id \in Ids |-> ContentOf(id)],
                     bound <- [t \in BindTargets |-> BoundNow(t)],
                     NoData <- NULL

ImplementsGLBuffers == Abstract!Spec
=============================================================================
