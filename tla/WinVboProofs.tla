---------------------------- MODULE WinVboProofs ----------------------------
(***************************************************************************)
(* Proofs about the vertex buffer emulator, for every table size, retry    *)
(* budget and game.  Type correctness comes first; the invariants are then *)
(* proved one by one, each from those before it.                           *)
(***************************************************************************)
EXTENDS WinVbo, FiniteSetTheorems, TLAPS

(* The modulus of a number below the divisor is the number itself. *)
LEMMA SmallMod == ASSUME NEW m \in Nat, NEW a \in Nat, a < m
                  PROVE  a % m = a
  OBVIOUS

(* The scan never leaves the table and never probes the reserved slot 0.    *)
LEMMA CandInRange ==
    ASSUME NEW hint \in Ids, NEW step \in Steps PROVE Cand(hint, step) \in Ids
<1> USE SizeAssumption
<1>1. CASE hint + step < MaxVbo
  BY <1>1 DEF Cand, Ids, Steps
<1>2. CASE hint + step >= MaxVbo
  <2>1. (hint + step - MaxVbo) % (MaxVbo - 1) = hint + step - MaxVbo
    BY <1>2, SmallMod DEF Ids, Steps
  <2>2. QED BY <1>2, <2>1 DEF Cand, Ids, Steps
<1>3. QED BY <1>1, <1>2 DEF Ids, Steps

(* The scan probes every name, wherever the hint makes it start: when it    *)
(* finds nothing, the table really is full.                                 *)
LEMMA ScanCovers ==
    ASSUME NEW hint \in Ids, NEW id \in Ids
    PROVE  \E step \in Steps : Cand(hint, step) = id
<1> USE SizeAssumption
<1>1. CASE id >= hint
  <2>1. id - hint \in Steps /\ Cand(hint, id - hint) = id
    BY <1>1 DEF Cand, Ids, Steps
  <2>2. QED BY <2>1
<1>2. CASE id < hint
  <2> DEFINE step == MaxVbo + id - 1 - hint
  <2>1. step \in Steps /\ hint + step - MaxVbo = id - 1 /\ hint + step >= MaxVbo
    BY <1>2 DEF Ids, Steps
  <2>2. (id - 1) % (MaxVbo - 1) = id - 1
    BY <1>2, SmallMod DEF Ids
  <2>3. Cand(hint, step) = id
    BY <2>1, <2>2 DEF Cand, Ids
  <2>4. QED BY <2>1, <2>3
<1>3. QED BY <1>1, <1>2 DEF Ids

-----------------------------------------------------------------------------
(* Type correctness. *)

(* What freeing a block leaves is a heap, for any store there was. *)
LEMMA FreedType ==
    ASSUME heap \in [Blocks -> Payloads \cup {Free}], NEW b \in Blocks \cup {NULL}
    PROVE  Freed(b) \in [Blocks -> Payloads \cup {Free}]
  BY DEF Freed

(* The arrays the game gives up draw from no buffer.                        *)
LEMMA OutdatesType ==
    ASSUME TypeOK, NEW id, Outdates(id)
    PROVE  src' \in [PtrSlots -> -1 .. MaxVbo - 1]
  BY SizeAssumption DEF TypeOK, Outdates

(* Unbinding a name leaves bindings.                                        *)
LEMMA UnboundType ==
    ASSUME NEW binding \in [BindTargets -> 0 .. MaxVbo - 1], NEW id
    PROVE  Unbound(binding, id) \in [BindTargets -> 0 .. MaxVbo - 1]
  BY SizeAssumption DEF Unbound, Ids

(* The emulator's and the driver's slot tables are slot tables.             *)
LEMMA SlotTypes ==
    /\ EmulatorSlots \in [SlotNames -> {"nop", "emul", "hook", "host"} \cup Families]
    /\ \A fam \in Families : HostSlots(fam)
          \in [SlotNames -> {"nop", "emul", "hook", "host"} \cup Families]
  BY DEF EmulatorSlots, HostSlots

(* No name the game may pass lies beyond MAX_VBO.                           *)
LEMMA NamesType == ASSUME TypeOK, NEW id \in NamesToPass \cup {0}
                   PROVE  id \in 0 .. MaxVbo
  BY SizeAssumption DEF TypeOK, NamesToPass, Ids

(* What resolve_array_ptr returns is a pointer of the model.                *)
LEMMA ResolvedType == ASSUME TypeOK PROVE Resolved("array") \in Pointers
<1>1. s_bound["array"] \in 0 .. MaxVbo - 1
  BY DEF TypeOK, BindTargets
<1>2. vbos[s_bound["array"]].data \in Blocks \cup {NULL}
  BY <1>1 DEF TypeOK
<1>3. QED BY <1>1, <1>2 DEF Resolved, Pointers

(* So is what the driver makes of a pointer it is given.                    *)
LEMMA HostPointerType == ASSUME TypeOK PROVE HostPointer("array") \in Pointers
<1>1. hostBound["array"] \in 0 .. MaxVbo - 1
  BY DEF TypeOK, BindTargets
<1>2. QED BY <1>1, SizeAssumption DEF HostPointer, Pointers, Ids

(* The handlers only ever leave values of their types: ids stay inside the  *)
(* table, the hint stays on a usable slot, a slot holds a function.         *)
THEOREM TypeCorrect == Spec => []TypeOK
<1>1. Init => TypeOK
  <2> SUFFICES ASSUME Init PROVE TypeOK
    OBVIOUS
  <2>1. vbos \in [0 .. MaxVbo - 1 -> [allocated : BOOLEAN, data : Blocks \cup {NULL}]]
    BY DEF Init
  <2>2. attrib \in [PtrSlots -> Pointers]
    BY DEF Init, Pointers
  <2>3. slots \in [SlotNames -> {"nop", "emul", "hook", "host"} \cup Families]
    BY DEF Init, BootSlots
  <2>4. /\ s_bound \in [BindTargets -> 0 .. MaxVbo - 1]
        /\ hostBound \in [BindTargets -> 0 .. MaxVbo - 1]
        /\ src \in [PtrSlots -> -1 .. MaxVbo - 1]
        /\ scan_hint \in Ids /\ genLeft \in 0 .. MaxBatch
    BY SizeAssumption DEF Init, Ids
  <2>5. /\ heap \in [Blocks -> Payloads \cup {Free}]
        /\ hostStore \in [Ids -> Payloads \cup {NULL}]
    BY DEF Init
  <2>6. /\ live_now \in Int /\ live_peak \in Int
        /\ arb_state \in {-1, 0, 1} /\ retries \in Nat
        /\ hostNames \subseteq Ids /\ held \subseteq Ids
    BY DEF Init
  <2>7. wgl \in BOOLEAN /\ installed \in BOOLEAN /\ ctx \in BOOLEAN
    BY DEF Init
  <2>8. QED
    BY <2>1, <2>2, <2>3, <2>4, <2>5, <2>6, <2>7 DEF TypeOK
<1>2. TypeOK /\ [Next]_vars => TypeOK'
  <2> SUFFICES ASSUME TypeOK, [Next]_vars PROVE TypeOK'
    OBVIOUS
  <2> USE SizeAssumption
  <2>1. CASE Install
    BY <2>1, SlotTypes DEF Install, TypeOK, emuVars, hostVars, gameVars
  <2>2. CASE MakeCurrent
    BY <2>2 DEF MakeCurrent, TypeOK, emuVars, modeVars, gameVars
  <2>3. ASSUME NEW n \in 1 .. MaxBatch, GenCall(n) PROVE TypeOK'
    <3>1. slots' \in [SlotNames -> {"nop", "emul", "hook", "host"} \cup Families]
      BY <2>3, SlotTypes DEF GenCall, try_promote_to_real_vbo, TypeOK, modeVars
    <3>2. arb_state' \in {-1, 0, 1} /\ retries' \in Nat /\ wgl' \in BOOLEAN
          /\ installed' \in BOOLEAN
      BY <2>3 DEF GenCall, try_promote_to_real_vbo, TypeOK, modeVars
    <3>3. QED
      BY <2>3, <3>1, <3>2 DEF GenCall, TypeOK, emuVars, hostVars, gameVars
  <2>4. CASE GenTake
    <3>1. PICK step \in Steps :
             /\ vbos' = [vbos EXCEPT ![Cand(scan_hint, step)].allocated = TRUE]
             /\ scan_hint' = IF Cand(scan_hint, step) + 1 >= MaxVbo THEN 1
                             ELSE Cand(scan_hint, step) + 1
             /\ held' = held \cup {Cand(scan_hint, step)}
      BY <2>4 DEF GenTake, NextHint
    <3>2. Cand(scan_hint, step) \in Ids
      BY CandInRange DEF TypeOK
    <3>3. vbos' \in [0 .. MaxVbo - 1 -> [allocated : BOOLEAN, data : Blocks \cup {NULL}]]
      BY <3>1, <3>2 DEF TypeOK, Ids
    <3>4. scan_hint' \in Ids /\ held' \subseteq Ids
      BY <3>1, <3>2 DEF TypeOK, Ids
    <3>5. live_now' \in Int /\ live_peak' \in Int /\ genLeft' \in 0 .. MaxBatch
      BY <2>4 DEF GenTake, NextHint, TypeOK
    <3>6. QED
      BY <2>4, <3>3, <3>4, <3>5 DEF GenTake, NextHint, TypeOK, modeVars, hostVars
  <2>5. CASE GenExhausted
    BY <2>5 DEF GenExhausted, TypeOK, emuVars, modeVars, hostVars, gameVars
  <2>6. CASE GenHost
    BY <2>6 DEF GenHost, TypeOK, emuVars, modeVars
  <2>7. ASSUME NEW t \in BindTargets, NEW id \in NamesToPass \cup {0},
               vbo_glBindBufferARB(t, id)
        PROVE  TypeOK'
    <3>1. id \in 0 .. MaxVbo
      BY NamesType
    <3>2. QED
      BY <2>7, <3>1 DEF vbo_glBindBufferARB, TypeOK, modeVars, hostVars, gameVars
  <2>8. ASSUME NEW t \in BindTargets, NEW id \in NamesToPass \cup {0}, HostBind(t, id)
        PROVE  TypeOK'
    <3>1. id \in 0 .. MaxVbo
      BY NamesType
    <3>2. QED
      BY <2>8, <3>1 DEF HostBind, TypeOK, Ids, emuVars, modeVars, gameVars
  <2>9. ASSUME NEW t \in BindTargets, NEW p \in Payloads \cup {NULL},
               vbo_glBufferDataARB(t, p)
        PROVE  TypeOK'
    <3>1. Addressed(t) \in 0 .. MaxVbo - 1
      BY DEF Addressed, TypeOK, BindTargets
    <3>2. Freed(vbos[Addressed(t)].data) \in [Blocks -> Payloads \cup {Free}]
      BY <3>1, FreedType DEF TypeOK
    <3>3. /\ vbos' \in [0 .. MaxVbo - 1 -> [allocated : BOOLEAN, data : Blocks \cup {NULL}]]
          /\ heap' \in [Blocks -> Payloads \cup {Free}]
      <4> DEFINE v == vbos[Addressed(t)].data
      <4>1. CASE \E b \in Blocks : /\ p # NULL
                                  /\ heap' = [Freed(v) EXCEPT ![b] = p]
                                  /\ vbos' = [vbos EXCEPT ![Addressed(t)].data = b]
        <5>1. PICK b \in Blocks : /\ p # NULL
                                 /\ heap' = [Freed(v) EXCEPT ![b] = p]
                                 /\ vbos' = [vbos EXCEPT ![Addressed(t)].data = b]
          BY <4>1
        <5>2. p \in Payloads
          BY <5>1
        <5>3. QED BY <5>1, <5>2, <3>1, <3>2 DEF TypeOK
      <4>2. CASE /\ heap' = Freed(v)
                 /\ vbos' = [vbos EXCEPT ![Addressed(t)].data = NULL]
        BY <4>2, <3>1, <3>2 DEF TypeOK
      <4>3. QED BY <2>9, <4>1, <4>2 DEF vbo_glBufferDataARB
    <3>4. src' \in [PtrSlots -> -1 .. MaxVbo - 1]
      BY <2>9, OutdatesType DEF vbo_glBufferDataARB
    <3>5. QED
      BY <2>9, <3>3, <3>4 DEF vbo_glBufferDataARB, TypeOK, modeVars, hostVars
  <2>10. ASSUME NEW t \in BindTargets, NEW p \in Payloads \cup {NULL},
                HostBufferData(t, p)
         PROVE  TypeOK'
    BY <2>10 DEF HostBufferData, TypeOK, emuVars, modeVars, gameVars
  <2>11. ASSUME NEW id \in NamesToPass, vbo_glDeleteBuffersARB(id) PROVE TypeOK'
    <3>1. id \in 0 .. MaxVbo - 1 /\ id \in Ids
      BY <2>11 DEF vbo_glDeleteBuffersARB, Emptied, Ids
    <3>2. heap' \in [Blocks -> Payloads \cup {Free}]
      BY <2>11, <3>1, FreedType DEF vbo_glDeleteBuffersARB, Emptied, TypeOK
    <3>3. src' \in [PtrSlots -> -1 .. MaxVbo - 1]
      BY <2>11, OutdatesType DEF vbo_glDeleteBuffersARB, Emptied
    <3>4. s_bound' \in [BindTargets -> 0 .. MaxVbo - 1]
      BY <2>11, UnboundType DEF vbo_glDeleteBuffersARB, Emptied, TypeOK
    <3>5. vbos' \in [0 .. MaxVbo - 1 -> [allocated : BOOLEAN, data : Blocks \cup {NULL}]]
      BY <2>11, <3>1 DEF vbo_glDeleteBuffersARB, Emptied, TypeOK
    <3>6. QED
      BY <2>11, <3>1, <3>2, <3>3, <3>4, <3>5
         DEF vbo_glDeleteBuffersARB, Emptied, TypeOK, modeVars, hostVars
  <2>12. ASSUME NEW id \in NamesToPass, HostDelete(id) PROVE TypeOK'
    <3>1. src' \in [PtrSlots -> -1 .. MaxVbo - 1]
      BY <2>12, OutdatesType DEF HostDelete
    <3>2. hostBound' \in [BindTargets -> 0 .. MaxVbo - 1]
      BY <2>12, UnboundType DEF HostDelete, TypeOK
    <3>3. QED
      BY <2>12, <3>1, <3>2 DEF HostDelete, TypeOK, emuVars, modeVars
  <2>13. ASSUME NEW a \in PtrSlots, Pointer(a) PROVE TypeOK'
    <3>1. BoundNow("array") \in -1 .. MaxVbo - 1
      BY DEF BoundNow, TypeOK, BindTargets
    <3>2. QED
      BY <2>13, <3>1, ResolvedType, HostPointerType
         DEF Pointer, TypeOK, emuVars, modeVars, hostVars
  <2>14. CASE UNCHANGED vars
    BY <2>14 DEF TypeOK, vars, emuVars, modeVars, hostVars, gameVars
  <2>15. QED
    BY <2>1, <2>2, <2>3, <2>4, <2>5, <2>6, <2>7, <2>8, <2>9, <2>10, <2>11,
       <2>12, <2>13, <2>14 DEF Next, Gen, Bind, BufferData, Delete
<1>3. QED BY <1>1, <1>2, PTL DEF Spec

-----------------------------------------------------------------------------
(* Which implementation runs. *)

(* Before install_win_vbo nothing has been decided. *)
ModeInv == SlotsAgree /\ (~installed => slots = BootSlots /\ arb_state = 0)

(* What a slot holds in each of the three slot tables. *)
LEMMA SlotFacts ==
    /\ \A s \in VboSlots : BootSlots[s] = "nop" /\ EmulatorSlots[s] = "emul"
    /\ \A fam \in Families, s \in VboSlots : HostSlots(fam)[s] = fam
    /\ "emul" \notin Families /\ "nop" \notin Families
    /\ VboSlots \subseteq SlotNames /\ "Gen" \in VboSlots
  BY DEF BootSlots, EmulatorSlots, HostSlots, SlotNames, VboSlots, Families

(* A glGenBuffers call, with the promotion it tries, keeps the slots together. *)
LEMMA GenCallMode ==
    ASSUME ModeInv, NEW n, GenCall(n) PROVE ModeInv'
<1>1. installed /\ installed' = installed
  BY DEF GenCall, Idle, try_promote_to_real_vbo, modeVars
<1>2. CASE UNCHANGED modeVars
  BY <1>1, <1>2 DEF ModeInv, SlotsAgree, modeVars
<1>3. CASE Emulated /\ try_promote_to_real_vbo
  <2>1. slots = EmulatorSlots
    BY <1>3, SlotFacts DEF ModeInv, SlotsAgree, Emulated
  <2>2. \/ UNCHANGED <<slots, arb_state>>
        \/ slots' = slots /\ arb_state' \in {-1, 0}
        \/ arb_state' = 1 /\ \E fam \in Families : slots' = HostSlots(fam)
    BY <1>3 DEF try_promote_to_real_vbo, modeVars
  <2>3. QED BY <1>1, <2>1, <2>2 DEF ModeInv, SlotsAgree
<1>4. QED BY <1>2, <1>3 DEF GenCall

(* No other step touches the slots or s_real_arb_state.                     *)
LEMMA ModeStep == ASSUME ModeInv, [Next]_vars PROVE ModeInv'
<1>1. CASE Install
  BY <1>1 DEF Install, ModeInv, SlotsAgree
<1>2. CASE \E n \in 1 .. MaxBatch : GenCall(n)
  BY <1>2, GenCallMode
<1>3. CASE UNCHANGED modeVars
  BY <1>3 DEF ModeInv, SlotsAgree, modeVars
<1>4. QED
  BY <1>1, <1>2, <1>3
     DEF Next, Gen, Bind, BufferData, Delete, MakeCurrent, GenTake, NextHint,
         GenExhausted, GenHost, vbo_glBindBufferARB, HostBind,
         vbo_glBufferDataARB, HostBufferData, vbo_glDeleteBuffersARB, Emptied,
         HostDelete, Pointer, vars

(* ModeInv holds of every behaviour.                                        *)
LEMMA ModeInvariant == Spec => []ModeInv
<1>1. Init => ModeInv
  BY DEF Init, ModeInv, SlotsAgree
<1>2. QED BY <1>1, ModeStep, PTL DEF Spec

(* Whatever the driver exports, and however often the promotion is retried, *)
(* the game's eight slots all belong to one implementation.                 *)
THEOREM SlotsAlwaysAgree == Spec => []SlotsAgree
  BY ModeInvariant, PTL DEF ModeInv

(* The promotion and the giving up are final, and the emulator's tables are *)
(* frozen once the game's slots bypass it.                                  *)
THEOREM DecisionStays == Spec => DecisionIsFinal
<1>1. ModeInv /\ [Next]_vars
         => [arb_state # 0 => /\ UNCHANGED <<slots, arb_state, retries>>
                              /\ Hosted => UNCHANGED emuVars]_vars
  <2> SUFFICES ASSUME ModeInv, [Next]_vars, arb_state # 0
               PROVE  /\ UNCHANGED <<slots, arb_state, retries>>
                      /\ Hosted => UNCHANGED emuVars
    OBVIOUS
  <2>1. UNCHANGED <<slots, arb_state, retries>>
    BY DEF ModeInv, Next, Install, MakeCurrent, Gen, GenCall,
           try_promote_to_real_vbo, GenTake, NextHint, GenExhausted, GenHost, Bind,
           vbo_glBindBufferARB, HostBind, BufferData, vbo_glBufferDataARB,
           HostBufferData, Delete, vbo_glDeleteBuffersARB, Emptied, HostDelete, Pointer,
           vars, modeVars
  <2>2. ASSUME Hosted PROVE \A s \in VboSlots : slots[s] # "emul"
    BY <2>2, SlotFacts DEF ModeInv, SlotsAgree, Hosted
  <2>3. ASSUME Hosted PROVE UNCHANGED emuVars
    BY <2>2, <2>3
       DEF Next, Install, MakeCurrent, Gen, GenCall, GenTake, NextHint, GenExhausted,
           GenHost, Bind, vbo_glBindBufferARB, HostBind, BufferData,
           vbo_glBufferDataARB, HostBufferData, Delete,
           vbo_glDeleteBuffersARB, Emptied, HostDelete, Pointer, Emulated, VboSlots,
           vars, emuVars
  <2>4. QED BY <2>1, <2>3
<1>2. QED BY <1>1, ModeInvariant, PTL DEF Spec, DecisionIsFinal

-----------------------------------------------------------------------------
(* Memory. *)

(* The step that gives slot id the block b (or NULL) in place of its old    *)
(* store keeps every block owned by exactly one slot.                       *)
LEMMA Reowned ==
    ASSUME TypeOK, OwnedBlocks, NEW id \in Ids, NEW b \in Blocks \cup {NULL},
           \A i \in 0 .. MaxVbo - 1 :
              vbos'[i].data = IF i = id THEN b ELSE vbos[i].data,
           b # NULL => /\ Freed(vbos[id].data)[b] = Free
                       /\ heap'[b] # Free,
           \A x \in Blocks \ {b} : heap'[x] = Freed(vbos[id].data)[x]
    PROVE  OwnedBlocks'
<1> DEFINE old == vbos[id].data
<1> DEFINE Table == 0 .. MaxVbo - 1
<1>1. id \in Table /\ old \in Blocks \cup {NULL} /\ NULL \notin Blocks
  BY SizeAssumption, ValueAssumption DEF Ids, TypeOK
<1>2. /\ \A x \in Blocks : Freed(old)[x] = IF x = old THEN Free ELSE heap[x]
      /\ \A i \in Table : vbos[i].data \in Blocks \cup {NULL}
  BY <1>1 DEF Freed, TypeOK
<1>3. ASSUME NEW i \in Table, vbos[i].data = b, b # NULL, i # id
      PROVE  FALSE
  BY <1>1, <1>2, <1>3 DEF OwnedBlocks
<1>4. ASSUME NEW x \in Blocks, heap'[x] # Free
      PROVE  \E i \in Ids : vbos'[i].data = x
  <2>1. CASE x = b
    BY <1>1, <2>1
  <2>2. CASE x # b
    <3>1. x # old /\ heap[x] # Free
      BY <1>2, <1>4, <2>2
    <3>2. PICK i \in Ids : vbos[i].data = x
      BY <3>1 DEF OwnedBlocks
    <3>3. i # id /\ i \in Table
      BY <3>1, <3>2, SizeAssumption DEF Ids
    <3>4. QED BY <3>2, <3>3
  <2>3. QED BY <2>1, <2>2
<1>5. ASSUME NEW i \in Table, vbos'[i].data # NULL
      PROVE  heap'[vbos'[i].data] # Free
  <2>1. CASE i = id
    BY <1>5, <2>1
  <2>2. CASE i # id
    <3>1. vbos'[i].data = vbos[i].data /\ vbos[i].data \in Blocks
      BY <1>2, <1>5, <2>2
    <3>2. vbos[i].data # b
      BY <1>1, <1>3, <2>2, <3>1
    <3>3. vbos[i].data # old /\ heap[vbos[i].data] # Free
      BY <1>1, <2>2, <3>1 DEF OwnedBlocks
    <3>4. QED BY <1>2, <3>1, <3>2, <3>3
  <2>3. QED BY <2>1, <2>2
<1>6. ASSUME NEW i \in Table, NEW j \in Table,
             vbos'[i].data = vbos'[j].data, vbos'[i].data # NULL
      PROVE  i = j
  BY <1>3, <1>6 DEF OwnedBlocks
<1>7. QED BY <1>4, <1>5, <1>6 DEF OwnedBlocks

(* Each step keeps every block owned by exactly one slot.                   *)
LEMMA MemoryStep == ASSUME TypeOK, OwnedBlocks, [Next]_vars PROVE OwnedBlocks'
<1>1. ASSUME NEW t \in BindTargets, NEW p \in Payloads \cup {NULL},
             vbo_glBufferDataARB(t, p)
      PROVE  OwnedBlocks'
  <2> DEFINE id == Addressed(t)
  <2>1. id \in Ids
    BY <1>1, SizeAssumption DEF vbo_glBufferDataARB, Addressed, TypeOK, BindTargets, Ids
  <2>2. Freed(vbos[id].data) \in [Blocks -> Payloads \cup {Free}]
    BY <2>1, FreedType DEF TypeOK, Ids
  <2>3. CASE \E b \in Blocks : /\ p # NULL
                              /\ Freed(vbos[id].data)[b] = Free
                              /\ heap' = [Freed(vbos[id].data) EXCEPT ![b] = p]
                              /\ vbos' = [vbos EXCEPT ![id].data = b]
    <3>1. PICK b \in Blocks : /\ p # NULL
                              /\ Freed(vbos[id].data)[b] = Free
                              /\ heap' = [Freed(vbos[id].data) EXCEPT ![b] = p]
                              /\ vbos' = [vbos EXCEPT ![id].data = b]
      BY <2>3
    <3>2. heap'[b] # Free
      BY <3>1, <2>2, ValueAssumption
    <3>3. \A i \in 0 .. MaxVbo - 1 :
             vbos'[i].data = IF i = id THEN b ELSE vbos[i].data
      BY <3>1, <2>1 DEF TypeOK
    <3>4. \A x \in Blocks \ {b} : heap'[x] = Freed(vbos[id].data)[x]
      BY <3>1, <2>2
    <3>5. QED BY <2>1, <3>1, <3>2, <3>3, <3>4, Reowned
  <2>4. CASE /\ heap' = Freed(vbos[id].data)
             /\ vbos' = [vbos EXCEPT ![id].data = NULL]
    <3>1. \A i \in 0 .. MaxVbo - 1 :
             vbos'[i].data = IF i = id THEN NULL ELSE vbos[i].data
      BY <2>4, <2>1 DEF TypeOK
    <3>2. QED BY <2>1, <2>4, <3>1, Reowned
  <2>5. QED BY <1>1, <2>3, <2>4 DEF vbo_glBufferDataARB
<1>2. ASSUME NEW id, vbo_glDeleteBuffersARB(id)
      PROVE  OwnedBlocks'
  <2>1. \A i \in 0 .. MaxVbo - 1 :
           vbos'[i].data = IF i = id THEN NULL ELSE vbos[i].data
    BY <1>2 DEF vbo_glDeleteBuffersARB, Emptied, TypeOK
  <2>2. id \in Ids /\ heap' = Freed(vbos[id].data)
    BY <1>2 DEF vbo_glDeleteBuffersARB, Emptied
  <2>3. QED BY <2>1, <2>2, Reowned
<1>3. CASE GenTake
  <2>1. PICK step \in Steps :
           vbos' = [vbos EXCEPT ![Cand(scan_hint, step)].allocated = TRUE]
    BY <1>3 DEF GenTake, NextHint
  <2>2. /\ \A i \in 0 .. MaxVbo - 1 : vbos'[i].data = vbos[i].data
        /\ heap' = heap
    BY <1>3, <2>1 DEF GenTake, NextHint, TypeOK
  <2>3. QED BY <2>2, SizeAssumption DEF OwnedBlocks, Ids
<1>4. CASE UNCHANGED <<vbos, heap>>
  BY <1>4 DEF OwnedBlocks
<1>5. QED
  BY <1>1, <1>2, <1>3, <1>4
     DEF Next, Install, MakeCurrent, Gen, GenCall, GenExhausted, GenHost, Bind,
         vbo_glBindBufferARB, HostBind, BufferData, HostBufferData, Delete,
         HostDelete, Pointer, vars, emuVars

(* No handler leaks a block, frees one twice or keeps one it has freed, for *)
(* any calls of the game and any answer of malloc.                          *)
THEOREM BlocksOwned == Spec => []OwnedBlocks
<1>1. Init => OwnedBlocks
  BY SizeAssumption DEF Init, OwnedBlocks
<1>2. QED BY <1>1, MemoryStep, TypeCorrect, PTL DEF Spec

-----------------------------------------------------------------------------
(* Names and bindings, for a game that binds only names it was given. *)

Allocated == {id \in Ids : vbos[id].allocated}

(* While the driver does not own the buffers the game holds names of slots  *)
(* in use only; this is what keeps a stranger out of a free slot.           *)
NameInv == /\ FreeSlotsEmpty
           /\ BoundIsAllocated
           /\ ~Hosted => held \subseteq Allocated

(* Any one of the four buffer slots tells which implementation all of them run. *)
LEMMA ModeFacts ==
    ASSUME ModeInv
    PROVE  /\ \A s \in VboSlots : slots[s] = "emul" => Emulated
           /\ Hosted => \A s \in VboSlots : slots[s] # "emul"
           /\ \A s \in VboSlots : slots[s] \in Families => Hosted
           /\ Emulated => ~Hosted
  BY SlotFacts DEF ModeInv, SlotsAgree, Emulated, Hosted

(* Each step keeps bindings and stores on slots in use.                     *)
LEMMA NameStep ==
    ASSUME "binds_generated" \in Rules, TypeOK, ModeInv, ModeInv', NameInv,
           [Next]_vars
    PROVE  NameInv'
<1> USE SizeAssumption
<1>1. CASE Install
  <2>1. held = {} \/ Allocated = Allocated'
    BY <1>1 DEF Install, Allocated, emuVars
  <2>2. ~Hosted
    BY <1>1, SlotFacts DEF Install, ModeInv, Hosted
  <2>3. QED
    BY <1>1, <2>1, <2>2
       DEF Install, NameInv, FreeSlotsEmpty, BoundIsAllocated, Allocated,
           emuVars, gameVars
<1>2. ASSUME NEW n, GenCall(n) PROVE NameInv'
  <2>1. Hosted => Hosted'
    BY <1>2, ModeFacts DEF GenCall, Emulated
       , modeVars, Hosted
  <2>2. QED
    BY <1>2, <2>1
       DEF GenCall, NameInv, FreeSlotsEmpty, BoundIsAllocated, Allocated,
           emuVars, gameVars
<1>3. CASE GenTake
  <2>1. PICK step \in Steps :
           /\ vbos' = [vbos EXCEPT ![Cand(scan_hint, step)].allocated = TRUE]
           /\ held' = held \cup {Cand(scan_hint, step)}
    BY <1>3 DEF GenTake, NextHint
  <2>2. Cand(scan_hint, step) \in Ids
    BY CandInRange DEF TypeOK
  <2>3. \A i \in 0 .. MaxVbo - 1 :
           /\ vbos'[i].data = vbos[i].data
           /\ vbos'[i].allocated <=> (i = Cand(scan_hint, step) \/ vbos[i].allocated)
    BY <2>1, <2>2 DEF TypeOK, Ids
  <2>4. ~Hosted /\ s_bound' = s_bound
    BY <1>3, ModeFacts DEF GenTake, NextHint
  <2>5. FreeSlotsEmpty'
    BY <2>3 DEF NameInv, FreeSlotsEmpty
  <2>6. BoundIsAllocated'
    <3>1. \A t \in BindTargets : s_bound[t] \in 0 .. MaxVbo - 1
      BY DEF TypeOK
    <3>2. Cand(scan_hint, step) # 0 /\ 0 \in 0 .. MaxVbo - 1
      BY <2>2 DEF Ids
    <3>3. ~vbos'[0].allocated
      BY <2>3, <3>2 DEF NameInv, BoundIsAllocated
    <3>4. \A t \in BindTargets : s_bound'[t] = 0 \/ vbos'[s_bound'[t]].allocated
      BY <2>3, <2>4, <3>1 DEF NameInv, BoundIsAllocated
    <3>5. QED BY <3>3, <3>4 DEF BoundIsAllocated
  <2>7. held' \subseteq Allocated'
    BY <2>1, <2>2, <2>3, <2>4 DEF NameInv, Allocated, Ids
  <2>8. QED BY <2>5, <2>6, <2>7 DEF NameInv
<1>4. ASSUME NEW t \in BindTargets, NEW id \in NamesToPass \cup {0},
             vbo_glBindBufferARB(t, id)
      PROVE  NameInv'
  <2>1. ~Hosted /\ UNCHANGED <<vbos, held, slots>>
    BY <1>4, ModeFacts DEF vbo_glBindBufferARB, modeVars, gameVars, VboSlots
  <2>2. id = 0 \/ (id \in Ids /\ vbos[id].allocated)
    BY <2>1 DEF NamesToPass, NameInv, Allocated
  <2>3. s_bound' = [s_bound EXCEPT ![t] = id]
    <3>1. ~(id >= MaxVbo)
      BY <2>2 DEF Ids
    <3>2. QED BY <1>4, <3>1 DEF vbo_glBindBufferARB
  <2>4. BoundIsAllocated'
    BY <2>1, <2>2, <2>3 DEF NameInv, BoundIsAllocated, TypeOK
  <2>5. QED BY <2>1, <2>4 DEF NameInv, FreeSlotsEmpty, Allocated, Hosted
<1>5. ASSUME NEW t \in BindTargets, NEW p, vbo_glBufferDataARB(t, p)
      PROVE  NameInv'
  <2> DEFINE id == Addressed(t)
  <2>1. id \in Ids /\ vbos[id].allocated
    BY <1>5, SMTT(30) DEF vbo_glBufferDataARB, Addressed, NameInv, BoundIsAllocated,
                          TypeOK, BindTargets, Ids
  <2>2. PICK b : vbos' = [vbos EXCEPT ![id].data = b]
    BY <1>5 DEF vbo_glBufferDataARB
  <2>3. \A i \in 0 .. MaxVbo - 1 :
           /\ vbos'[i].allocated = vbos[i].allocated
           /\ i # id => vbos'[i].data = vbos[i].data
    BY <2>1, <2>2 DEF TypeOK, Ids
  <2>4. UNCHANGED <<s_bound, held, slots>>
    BY <1>5 DEF vbo_glBufferDataARB, modeVars
  <2>5. FreeSlotsEmpty'
    BY <2>1, <2>3 DEF NameInv, FreeSlotsEmpty
  <2>6. BoundIsAllocated'
    <3>1. 0 \in 0 .. MaxVbo - 1 /\ \A u \in BindTargets : s_bound[u] \in 0 .. MaxVbo - 1
      BY SizeAssumption DEF TypeOK
    <3>2. BoundIsAllocated
      BY DEF NameInv
    <3>3. QED BY <2>3, <2>4, <3>1, <3>2 DEF BoundIsAllocated
  <2>7. Allocated' = Allocated /\ Hosted' = Hosted
    BY <2>3, <2>4 DEF Allocated, Ids, Hosted
  <2>8. QED BY <2>4, <2>5, <2>6, <2>7 DEF NameInv
<1>6. ASSUME NEW id, vbo_glDeleteBuffersARB(id) PROVE NameInv'
  <2>1. /\ id \in Ids /\ slots' = slots /\ held' = held \ {id}
        /\ s_bound' = Unbound(s_bound, id)
    BY <1>6 DEF vbo_glDeleteBuffersARB, Emptied, modeVars
  <2>2. \A i \in 0 .. MaxVbo - 1 :
           vbos'[i] = IF i = id THEN [allocated |-> FALSE, data |-> NULL] ELSE vbos[i]
    BY <1>6 DEF vbo_glDeleteBuffersARB, Emptied, TypeOK
  <2>3. FreeSlotsEmpty'
    BY <2>2 DEF NameInv, FreeSlotsEmpty
  <2>4. BoundIsAllocated'
    BY <2>1, <2>2 DEF NameInv, BoundIsAllocated, Unbound, TypeOK, Ids
  <2>5. ~Hosted' => held' \subseteq Allocated'
    BY <2>1, <2>2 DEF NameInv, Allocated, Hosted, Ids
  <2>6. QED BY <2>3, <2>4, <2>5 DEF NameInv
<1>7. CASE UNCHANGED <<vbos, s_bound, slots>> /\ (held' = held \/ Hosted)
  BY <1>7 DEF NameInv, FreeSlotsEmpty, BoundIsAllocated, Allocated, Hosted
<1>8. ASSUME NEW id, HostDelete(id) PROVE Hosted
  BY <1>8, ModeFacts DEF HostDelete, VboSlots
<1>9. QED
  BY <1>1, <1>2, <1>3, <1>4, <1>5, <1>6, <1>7, <1>8
     DEF Next, MakeCurrent, Gen, GenExhausted, GenHost, Bind, HostBind,
         BufferData, HostBufferData, Delete, HostDelete, Pointer, vars,
         emuVars, modeVars, gameVars

(* NameInv holds for a game that binds only names it was given.             *)
LEMMA NameInvariant ==
    ASSUME "binds_generated" \in Rules PROVE Spec => []NameInv
<1>1. Init => NameInv
  BY SizeAssumption DEF Init, NameInv, FreeSlotsEmpty, BoundIsAllocated, Allocated
<1>2. "binds_generated" \in Rules
  OBVIOUS
<1>3. TypeOK /\ ModeInv /\ ModeInv' /\ NameInv /\ [Next]_vars => NameInv'
  BY <1>2, NameStep
<1>4. QED BY <1>1, <1>3, TypeCorrect, ModeInvariant, PTL DEF Spec

(* Bindings name slots in use, and a name handed out comes without the      *)
(* contents of an earlier buffer, for a game that binds only names it was   *)
(* given.                                                                   *)
THEOREM BindingsInUse ==
    ASSUME "binds_generated" \in Rules
    PROVE  Spec => []NoOldLife
<1>1. NameInv => NoOldLife
  BY DEF NameInv, NoOldLife
<1>2. QED BY <1>1, NameInvariant, PTL

-----------------------------------------------------------------------------
(* The live count. *)

(* The names are finitely many, and so are the slots in use.                *)
LEMMA AllocatedFinite ==
    /\ IsFiniteSet(Ids) /\ Cardinality(Ids) = MaxVbo - 1
    /\ IsFiniteSet(Allocated) /\ Cardinality(Allocated) \in Nat
    /\ Cardinality(Allocated) <= MaxVbo - 1
<1>1. IsFiniteSet(Ids) /\ Cardinality(Ids) = MaxVbo - 1
  BY FS_Interval, SizeAssumption DEF Ids
<1>2. Allocated \subseteq Ids
  BY DEF Allocated
<1>3. QED BY <1>1, <1>2, FS_Subset, FS_CardinalityType

(* Each step counts the slots it takes and returns.                         *)
LEMMA CountStep ==
    ASSUME TypeOK, LiveCount, [Next]_vars PROVE LiveCount'
<1> USE SizeAssumption
<1>0. live_now = Cardinality(Allocated)
  BY DEF LiveCount, Allocated
<1>1. CASE GenTake
  <2>1. PICK step \in Steps :
           /\ FirstFree(step)
           /\ vbos' = [vbos EXCEPT ![Cand(scan_hint, step)].allocated = TRUE]
    BY <1>1 DEF GenTake, NextHint
  <2> DEFINE id == Cand(scan_hint, step)
  <2>2. id \in Ids /\ ~vbos[id].allocated
    BY <2>1, CandInRange DEF TypeOK, FirstFree, Taken
  <2>3. Allocated' = Allocated \cup {id}
    BY <2>1, <2>2 DEF Allocated, TypeOK, Ids
  <2>4. id \notin Allocated
    BY <2>2 DEF Allocated
  <2>5. /\ Cardinality(Allocated') = Cardinality(Allocated) + 1
    BY <2>3, <2>4, AllocatedFinite, FS_AddElement
  <2>6. Allocated' \subseteq Ids
    BY <2>2, <2>3 DEF Allocated
  <2>7. Cardinality(Allocated') <= MaxVbo - 1
    BY <2>6, AllocatedFinite, FS_Subset
  <2>8. live_now' = Cardinality(Allocated')
    BY <1>0, <1>1, <2>5 DEF GenTake, NextHint
  <2>9. live_now' <= live_peak' /\ live_peak' < MaxVbo
    BY <1>1, <2>7, <2>8 DEF GenTake, NextHint, LiveCount, TypeOK
  <2>10. QED BY <2>8, <2>9 DEF LiveCount, Allocated
<1>2. ASSUME NEW id, vbo_glDeleteBuffersARB(id) PROVE LiveCount'
  <2>1. id \in Ids /\ vbos[id].allocated
    BY <1>2 DEF vbo_glDeleteBuffersARB, Emptied
  <2>2. Allocated' = Allocated \ {id}
    BY <1>2, <2>1 DEF vbo_glDeleteBuffersARB, Emptied, Allocated, TypeOK, Ids
  <2>3. id \in Allocated
    BY <2>1 DEF Allocated
  <2>4. Cardinality(Allocated') = Cardinality(Allocated) - 1
    BY <2>2, <2>3, AllocatedFinite, FS_RemoveElement
  <2>5. live_now' = Cardinality(Allocated')
    BY <1>0, <1>2, <2>4 DEF vbo_glDeleteBuffersARB, Emptied
  <2>6. live_now' <= live_peak' /\ live_peak' < MaxVbo
    BY <1>2 DEF vbo_glDeleteBuffersARB, Emptied, LiveCount, TypeOK
  <2>7. QED BY <2>5, <2>6 DEF LiveCount, Allocated
<1>3. ASSUME NEW t \in BindTargets, NEW p, vbo_glBufferDataARB(t, p)
      PROVE  LiveCount'
  <2>1. PICK b : vbos' = [vbos EXCEPT ![Addressed(t)].data = b]
    BY <1>3 DEF vbo_glBufferDataARB
  <2>2. Allocated' = Allocated
    BY <2>1 DEF Allocated, TypeOK, Ids
  <2>3. QED
    BY <1>3, <2>2 DEF vbo_glBufferDataARB, LiveCount, Allocated
<1>4. CASE UNCHANGED <<vbos, live_now, live_peak>>
  BY <1>4 DEF LiveCount
<1>5. QED
  BY <1>1, <1>2, <1>3, <1>4
     DEF Next, Install, MakeCurrent, Gen, GenCall, GenExhausted, GenHost, Bind,
         vbo_glBindBufferARB, HostBind, BufferData, HostBufferData, Delete,
         HostDelete, Pointer, vars, emuVars

(* s_live_now counts the slots in use, so it can neither wrap below zero    *)
(* nor pass the size of the table, whatever names the game deletes.         *)
THEOREM LiveNamesCounted == Spec => []LiveCount
<1>1. Init => LiveCount
  <2> SUFFICES ASSUME Init PROVE LiveCount
    OBVIOUS
  <2>1. {id \in Ids : vbos[id].allocated} = {}
    BY DEF Init, Ids
  <2>2. Cardinality({id \in Ids : vbos[id].allocated}) = 0
    BY <2>1, FS_EmptySet
  <2>3. live_now = 0 /\ live_peak = 0
    BY DEF Init
  <2>4. QED BY <2>2, <2>3, SizeAssumption DEF LiveCount
<1>2. QED BY <1>1, CountStep, TypeCorrect, PTL DEF Spec

-----------------------------------------------------------------------------
(* The hand-over, for a game that waits for its GL context. *)

(* If the game already holds names, the hand-over has been tried with a     *)
(* context and failed, and what the driver exports does not change.         *)
HandOverInv ==
    /\ Emulated /\ arb_state = 0 /\ (held # {} \/ genLeft > 0)
          => ctx /\ \A fam \in Families : ~Chosen(fam)
    /\ Emulated /\ arb_state = 0 /\ (held # {} \/ genLeft > 0) => wgl
    /\ ~(Emulated \/ Hosted) => held = {} /\ genLeft = 0
    /\ Hosted => held \subseteq hostNames

(* Each step keeps the game's names live in the implementation it runs.     *)
LEMMA HandOverStep ==
    ASSUME {"binds_generated", "context_first"} \subseteq Rules, TypeOK,
           ModeInv, ModeInv', HandOverInv, [Next]_vars
    PROVE  HandOverInv'
<1>1. CASE Install
  <2>1. held = {} /\ genLeft = 0 /\ UNCHANGED <<held, genLeft>>
    BY <1>1, SlotFacts DEF Install, HandOverInv, ModeInv, Emulated, Hosted, gameVars
  <2>2. ~Hosted'
    BY <1>1, SlotFacts DEF Install, ModeInv, Hosted
  <2>3. QED BY <2>1, <2>2 DEF HandOverInv
<1>2. CASE MakeCurrent
  BY <1>2 DEF MakeCurrent, HandOverInv, Emulated, Hosted, Chosen, Resolves,
              modeVars, gameVars
<1>3. ASSUME NEW n \in 1 .. MaxBatch, GenCall(n) PROVE HandOverInv'
  <2>1. /\ ctx /\ UNCHANGED <<ctx, exported, hostNames, held>> /\ genLeft = 0
        /\ Emulated \/ Hosted
    BY <1>3 DEF GenCall, Idle, hostVars, gameVars
  <2>2. \A fam \in Families : Chosen(fam)' = Chosen(fam)
    BY <2>1 DEF Chosen, Resolves
  <2>3. CASE Hosted
    BY <1>3, <2>1, <2>3, ModeFacts
       DEF GenCall, HandOverInv, Hosted, Emulated, modeVars
  <2>4. CASE Emulated
    <3>1. try_promote_to_real_vbo
      BY <1>3, <2>4 DEF GenCall
    <3>2. CASE \E fam \in Families : Chosen(fam) /\ slots' = HostSlots(fam)
                                     /\ arb_state = 0
      <4>1. held = {}
        BY <2>4, <3>2 DEF HandOverInv
      <4>2. Hosted' /\ ~Emulated'
        BY <3>2, SlotFacts DEF Hosted, Emulated
      <4>3. QED BY <2>1, <4>1, <4>2 DEF HandOverInv
    <3>3. CASE slots' = slots /\ wgl' = wgl /\
               (arb_state' = 0 => wgl /\ \A fam \in Families : ~Chosen(fam))
      BY <2>1, <2>2, <2>4, <3>3, ModeFacts DEF HandOverInv, Emulated, Hosted
    <3>4. arb_state # 1
      BY <2>4, SlotFacts DEF ModeInv, SlotsAgree, Emulated
    <3>5. QED BY <3>1, <3>2, <3>3, <3>4 DEF try_promote_to_real_vbo, modeVars
  <2>5. QED BY <2>1, <2>3, <2>4
<1>4. ASSUME GenTake \/ GenExhausted \/ GenHost PROVE HandOverInv'
  <2>1. /\ genLeft > 0 /\ (Emulated \/ Hosted)
        /\ UNCHANGED <<slots, arb_state, wgl, ctx, exported>>
    BY <1>4 DEF GenTake, NextHint, GenExhausted, GenHost, modeVars, hostVars
  <2>2. /\ Emulated' = Emulated /\ Hosted' = Hosted
        /\ \A fam \in Families : Chosen(fam)' = Chosen(fam)
    BY <2>1 DEF Chosen, Resolves, Emulated, Hosted
  <2>3. Hosted => held' \subseteq hostNames'
    BY <1>4, ModeFacts DEF GenTake, NextHint, GenExhausted, GenHost, HandOverInv, hostVars, gameVars
  <2>4. genLeft > 0
    BY <1>4 DEF GenTake, NextHint, GenExhausted, GenHost
  <2>5. QED BY <2>1, <2>2, <2>3, <2>4 DEF HandOverInv
<1>5. CASE \E t \in BindTargets, id \in NamesToPass \cup {0} : HostBind(t, id)
  <2>1. Hosted
    BY <1>5, ModeFacts DEF HostBind, VboSlots
  <2>2. QED
    BY <1>5, <2>1, ModeFacts
       DEF HostBind, HandOverInv, Emulated, Hosted, modeVars, gameVars
<1>6. CASE \E id \in NamesToPass : HostDelete(id)
  <2>1. Hosted
    BY <1>6, ModeFacts DEF HostDelete, VboSlots
  <2>2. QED
    BY <1>6, <2>1, ModeFacts
       DEF HostDelete, HandOverInv, Emulated, Hosted, modeVars
<1>7. ASSUME /\ UNCHANGED <<slots, arb_state, wgl, ctx, exported, hostNames, genLeft>>
             /\ held' \subseteq held
      PROVE  HandOverInv'
  <2>1. /\ Emulated' = Emulated /\ Hosted' = Hosted
        /\ \A fam \in Families : Chosen(fam)' = Chosen(fam)
    BY <1>7 DEF Chosen, Resolves, Emulated, Hosted
  <2>2. QED BY <1>7, <2>1 DEF HandOverInv
<1>8. QED
  BY <1>1, <1>2, <1>3, <1>4, <1>5, <1>6, <1>7
     DEF Next, Gen, Bind, vbo_glBindBufferARB, BufferData, vbo_glBufferDataARB,
         HostBufferData, Delete, vbo_glDeleteBuffersARB, Emptied, Pointer, vars,
         modeVars, hostVars, gameVars

(* HandOverInv holds for a game that makes its context current first.       *)
LEMMA HandOverInvariant ==
    ASSUME {"binds_generated", "context_first"} \subseteq Rules
    PROVE  Spec => []HandOverInv
<1>1. Init => HandOverInv
  BY SlotFacts DEF Init, HandOverInv, Emulated, Hosted
<1>2. TypeOK /\ ModeInv /\ ModeInv' /\ HandOverInv /\ [Next]_vars => HandOverInv'
  BY HandOverStep
<1>3. QED BY <1>1, <1>2, TypeCorrect, ModeInvariant, PTL DEF Spec

(* The hand-over takes no name from a game that asks for its first name     *)
(* only once its context is current.                                        *)
THEOREM GameNamesLive ==
    ASSUME {"binds_generated", "context_first"} \subseteq Rules
    PROVE  Spec => []HeldNamesAreLive
<1>1. "binds_generated" \in Rules
  OBVIOUS
<1>2. NameInv /\ HandOverInv => HeldNamesAreLive
  BY DEF NameInv, HandOverInv, HeldNamesAreLive, LiveNames, Allocated
<1>3. QED BY <1>1, <1>2, NameInvariant, HandOverInvariant, PTL

(* Such a game is never given a name twice, and is refused one only when    *)
(* every name of the table is in use: the scan misses no free slot.         *)
THEOREM NamesNew ==
    ASSUME {"binds_generated", "context_first"} \subseteq Rules
    PROVE  Spec => GenNamesAreNew
<1>1. "binds_generated" \in Rules
  OBVIOUS
<1>2. TypeOK /\ ModeInv /\ NameInv /\ HandOverInv /\ [Next]_vars
         => [genLeft' < genLeft => \/ held' # held
                                   \/ Emulated /\ \A id \in Ids : vbos[id].allocated]_vars
  <2> SUFFICES ASSUME TypeOK, ModeInv, NameInv, HandOverInv, [Next]_vars,
                      genLeft' < genLeft
               PROVE  \/ held' # held
                      \/ Emulated /\ \A id \in Ids : vbos[id].allocated
    OBVIOUS
  <2>1. CASE GenTake
    <3>1. PICK step \in Steps : FirstFree(step) /\
                                held' = held \cup {Cand(scan_hint, step)}
      BY <2>1 DEF GenTake, NextHint
    <3>2. Cand(scan_hint, step) \notin held
      BY <2>1, <3>1, ModeFacts
         DEF GenTake, NextHint, FirstFree, Taken, NameInv, Allocated
    <3>3. QED BY <3>1, <3>2
  <2>2. CASE GenExhausted
    <3>1. \A id \in Ids : vbos[id].allocated
      BY <2>2, ScanCovers DEF GenExhausted, Taken, TypeOK
    <3>2. QED BY <2>2, <3>1 DEF GenExhausted
  <2>3. CASE GenHost
    BY <2>3 DEF GenHost, HandOverInv
  <2>4. ASSUME NEW n \in 1 .. MaxBatch, GenCall(n) PROVE FALSE
    BY <2>4 DEF GenCall, Idle
  <2>5. CASE UNCHANGED genLeft
    BY <2>5 DEF TypeOK
  <2>6. QED
    BY <2>1, <2>2, <2>3, <2>4, <2>5
       DEF Next, Install, MakeCurrent, Gen, Bind, vbo_glBindBufferARB, HostBind,
           BufferData, vbo_glBufferDataARB, HostBufferData, Delete,
           vbo_glDeleteBuffersARB, Emptied, HostDelete, Pointer, vars
<1>3. QED
  BY <1>1, <1>2, TypeCorrect, ModeInvariant, NameInvariant, HandOverInvariant,
     PTL DEF Spec, GenNamesAreNew

-----------------------------------------------------------------------------
(* Drawing, and what the game sees of the hand-over. *)

(* Until the hand-over the driver has no buffers and every slot in use is   *)
(* one of the game's names.                                                 *)
DriverInv ==
    ~Hosted => /\ hostNames = {}
               /\ hostStore = [id \in Ids |-> NULL]
               /\ hostBound = [t \in BindTargets |-> 0]
               /\ Allocated \subseteq held

(* No step takes the game back from the driver.                             *)
LEMMA HostedStays == ASSUME ModeInv, [Next]_vars, Hosted PROVE Hosted'
<1>1. slots # BootSlots /\ ~Emulated
  BY SlotFacts, ModeFacts DEF Hosted
<1>2. installed
  BY <1>1 DEF ModeInv
<1>3. slots' = slots
  BY <1>1, <1>2
     DEF Next, Install, MakeCurrent, Gen, GenCall, GenTake, GenExhausted, GenHost,
         Bind, vbo_glBindBufferARB, HostBind, BufferData, vbo_glBufferDataARB,
         HostBufferData, Delete, vbo_glDeleteBuffersARB, HostDelete, Pointer,
         vars, modeVars
<1>4. QED BY <1>3 DEF Hosted

(* Each step before the hand-over leaves the driver without buffers.        *)
LEMMA DriverStep ==
    ASSUME TypeOK, ModeInv, DriverInv, [Next]_vars PROVE DriverInv'
<1> SUFFICES ASSUME ~Hosted'
             PROVE  /\ UNCHANGED <<hostNames, hostStore, hostBound>>
                    /\ Allocated' \subseteq held'
  BY HostedStays DEF DriverInv
<1>1. ~Hosted /\ Allocated \subseteq held
  BY HostedStays DEF DriverInv
<1>2. CASE GenTake
  <2>1. PICK step \in Steps :
           /\ vbos' = [vbos EXCEPT ![Cand(scan_hint, step)].allocated = TRUE]
           /\ held' = held \cup {Cand(scan_hint, step)}
    BY <1>2 DEF GenTake
  <2>2. Cand(scan_hint, step) \in Ids
    BY CandInRange DEF TypeOK
  <2>3. \A i \in Ids : vbos'[i].allocated => vbos[i].allocated \/ i = Cand(scan_hint, step)
    BY <2>1, <2>2 DEF TypeOK, Ids
  <2>4. QED BY <1>1, <1>2, <2>1, <2>3 DEF GenTake, hostVars, Allocated
<1>3. ASSUME NEW t \in BindTargets, NEW p, vbo_glBufferDataARB(t, p)
      PROVE  UNCHANGED <<hostNames, hostStore, hostBound>> /\ Allocated' \subseteq held'
  <2>1. PICK b : vbos' = [vbos EXCEPT ![Addressed(t)].data = b]
    BY <1>3 DEF vbo_glBufferDataARB
  <2>2. Allocated' = Allocated
    BY <2>1 DEF Allocated, TypeOK, Ids
  <2>3. QED BY <1>1, <1>3, <2>2 DEF vbo_glBufferDataARB, hostVars
<1>4. ASSUME NEW id, vbo_glDeleteBuffersARB(id)
      PROVE  UNCHANGED <<hostNames, hostStore, hostBound>> /\ Allocated' \subseteq held'
  <2>1. Allocated' = Allocated \ {id}
    BY <1>4 DEF vbo_glDeleteBuffersARB, Emptied, Allocated, TypeOK, Ids
  <2>2. QED BY <1>1, <1>4, <2>1 DEF vbo_glDeleteBuffersARB, hostVars
<1>5. CASE UNCHANGED <<vbos, held, hostNames, hostStore, hostBound>>
  BY <1>1, <1>5 DEF Allocated
<1>6. /\ ~GenHost
      /\ \A t, id : ~HostBind(t, id)
      /\ \A t, p : ~HostBufferData(t, p)
      /\ \A id : ~HostDelete(id)
  BY <1>1, ModeFacts DEF GenHost, HostBind, HostBufferData, HostDelete, VboSlots
<1>7. QED
  BY <1>2, <1>3, <1>4, <1>5, <1>6
     DEF Next, Install, MakeCurrent, Gen, GenCall, GenExhausted, Bind,
         vbo_glBindBufferARB, BufferData, Delete, Pointer, vars, emuVars, hostVars,
         gameVars

(* DriverInv holds for every game.                                          *)
LEMMA DriverInvariant == Spec => []DriverInv
<1>1. Init => DriverInv
  BY DEF Init, DriverInv, Allocated, Ids
<1>2. QED BY <1>1, DriverStep, TypeCorrect, ModeInvariant, PTL DEF Spec

(* An emulator whose game holds no name has no store and no binding left:   *)
(* the hand-over has nothing to lose.                                       *)
LEMMA NothingHeld ==
    ASSUME TypeOK, NameInv, DriverInv, ~Hosted, held = {}
    PROVE  /\ Allocated = {}
           /\ \A id \in Ids : vbos[id].data = NULL
           /\ \A t \in BindTargets : s_bound[t] = 0
<1>1. Allocated = {}
  BY DEF DriverInv
<1>2. ASSUME NEW id \in Ids PROVE vbos[id].data = NULL
  <2>1. ~vbos[id].allocated /\ id \in 0 .. MaxVbo - 1
    BY <1>1 DEF Allocated, Ids
  <2>2. QED BY <2>1 DEF NameInv, FreeSlotsEmpty
<1>3. ASSUME NEW t \in BindTargets PROVE s_bound[t] = 0
  <2>1. s_bound[t] \in 0 .. MaxVbo - 1
    BY DEF TypeOK
  <2>2. s_bound[t] \in Ids => ~vbos[s_bound[t]].allocated
    BY <1>1 DEF Allocated
  <2>3. s_bound[t] = 0 \/ vbos[s_bound[t]].allocated
    BY DEF NameInv, BoundIsAllocated
  <2>4. QED BY <2>1, <2>2, <2>3 DEF Ids
<1>4. QED BY <1>1, <1>2, <1>3

(* What the driver holds for an array that draws from a buffer: the store   *)
(* of the slot in use, if it has one; after the hand-over, the buffer.      *)
Follows(a) ==
    IF Hosted THEN attrib[a] = [kind |-> "buffer", at |-> src[a]]
    ELSE /\ vbos[src[a]].allocated
         /\ vbos[src[a]].data # NULL =>
               attrib[a] = [kind |-> "block", at |-> vbos[src[a]].data]

DrawInv == \A a \in PtrSlots : src[a] > 0 => Follows(a)

(* A promotion finds no name with the game.                                 *)
LEMMA PromotionFindsNothing ==
    ASSUME ModeInv, HandOverInv, [Next]_vars, ~Hosted, Hosted'
    PROVE  held = {} /\ UNCHANGED <<emuVars, hostVars, gameVars>>
<1>1. slots' # slots /\ ~Install
  <2>1. slots' # slots
    BY DEF Hosted
  <2>2. ASSUME Install PROVE FALSE
    BY <2>2, SlotFacts DEF Install, ModeInv, Hosted
  <2>3. QED BY <2>1, <2>2
<1>2. PICK n \in 1 .. MaxBatch : GenCall(n)
  BY <1>1
     DEF Next, MakeCurrent, Gen, GenTake, GenExhausted, GenHost,
         Bind, vbo_glBindBufferARB, HostBind, BufferData, vbo_glBufferDataARB,
         HostBufferData, Delete, vbo_glDeleteBuffersARB, HostDelete, Pointer,
         vars, modeVars
<1>3. Emulated /\ try_promote_to_real_vbo
  BY <1>1, <1>2 DEF GenCall, modeVars
<1>4. arb_state = 0 /\ \E fam \in Families : Chosen(fam)
  BY <1>1, <1>3 DEF try_promote_to_real_vbo, modeVars
<1>5. held = {}
  BY <1>3, <1>4 DEF HandOverInv
<1>6. QED BY <1>2, <1>5 DEF GenCall

(* The emulator runs only with its own slot table.                          *)
LEMMA EmulatedTable == ASSUME ModeInv, Emulated PROVE slots = EmulatorSlots
  BY SlotFacts DEF ModeInv, SlotsAgree, Emulated

(* Where a pointer set for a buffer leads.                                  *)
LEMMA PointerFollows ==
    ASSUME TypeOK, ModeInv, NameInv, HandOverInv, DriverInv,
           NEW a \in PtrSlots, Pointer(a), src'[a] > 0
    PROVE  Follows(a)'
<1>1. /\ attrib'[a] = IF slots[a] = "hook" THEN Resolved("array") ELSE HostPointer("array")
      /\ src'[a] = BoundNow("array")
      /\ UNCHANGED <<slots, vbos, hostBound>> /\ Hosted' = Hosted
  BY DEF Pointer, TypeOK, emuVars, modeVars, hostVars, Hosted
<1>2. a \in SlotNames /\ a \notin VboSlots
  BY SetAssumption DEF SlotNames
<1>3. CASE Hosted
  <2>1. slots[a] = "host"
    BY <1>2, <1>3, SetAssumption, SlotFacts
       DEF ModeInv, SlotsAgree, Hosted, HostSlots, Families
  <2>2. BoundNow("array") = hostBound["array"] /\ hostBound["array"] # 0
    BY <1>1, <1>3 DEF BoundNow
  <2>3. attrib'[a] = [kind |-> "buffer", at |-> src'[a]]
    BY <1>1, <2>1, <2>2 DEF HostPointer
  <2>4. QED BY <1>1, <1>3, <2>3 DEF Follows
<1>4. CASE ~Hosted
  <2>1. src'[a] = s_bound["array"]
    BY <1>1, <1>4 DEF BoundNow
  <2>2. s_bound["array"] \in Ids /\ vbos[s_bound["array"]].allocated
    BY <2>1 DEF NameInv, BoundIsAllocated, BindTargets, TypeOK, Ids
  <2>3. Emulated
    BY <1>4, <2>2 DEF DriverInv, Allocated, HandOverInv
  <2>4. slots[a] = "hook"
    BY <1>2, <2>3, EmulatedTable DEF EmulatorSlots
  <2>5. vbos[s_bound["array"]].data # NULL =>
           attrib'[a] = [kind |-> "block", at |-> vbos[s_bound["array"]].data]
    BY <1>1, <2>2, <2>4 DEF Resolved, Ids
  <2>6. QED BY <1>1, <1>4, <2>1, <2>2, <2>5 DEF Follows
<1>5. QED BY <1>3, <1>4

(* Each step keeps the arrays on the stores they were set for, or outdates  *)
(* their pointers.                                                          *)
LEMMA DrawStep ==
    ASSUME TypeOK, ModeInv, NameInv, HandOverInv, DriverInv, DrawInv, [Next]_vars
    PROVE  DrawInv'
<1> SUFFICES ASSUME NEW a \in PtrSlots, src'[a] > 0 PROVE Follows(a)'
  BY DEF DrawInv
<1>0. src[a] \in -1 .. MaxVbo - 1
  BY DEF TypeOK
<1>1. CASE Pointer(a)
  BY <1>1, PointerFollows
<1>2. CASE ~Hosted /\ Hosted'
  <2>1. held = {} /\ src' = src
    BY <1>2, PromotionFindsNothing DEF gameVars
  <2>2. src[a] \in Ids => ~vbos[src[a]].allocated
    BY <1>2, <2>1, NothingHeld DEF Allocated
  <2>3. src[a] > 0
    BY <2>1
  <2>4. src[a] \in Ids /\ vbos[src[a]].allocated
    <3>1. Follows(a)
      BY <2>3 DEF DrawInv
    <3>2. vbos[src[a]].allocated
      BY <1>2, <3>1 DEF Follows
    <3>3. src[a] \in Ids
      BY <1>0, <2>3 DEF Ids
    <3>4. QED BY <3>2, <3>3
  <2>5. QED BY <2>2, <2>4
<1>3. ASSUME src'[a] = src[a], attrib'[a] = attrib[a], Hosted' = Hosted,
             ~Hosted => vbos'[src[a]] = vbos[src[a]]
      PROVE  Follows(a)'
  <2>1. Follows(a)
    BY <1>3 DEF DrawInv
  <2>2. QED BY <1>3, <2>1 DEF Follows
<1>4. ASSUME src'[a] = src[a], attrib'[a] = attrib[a], Hosted' = Hosted,
             vbos'[src[a]].allocated, vbos'[src[a]].data = vbos[src[a]].data
      PROVE  Follows(a)'
  <2>1. Follows(a)
    BY <1>4 DEF DrawInv
  <2>2. QED BY <1>4, <2>1 DEF Follows
<1>5. ASSUME NEW b \in PtrSlots, Pointer(b), b # a PROVE Follows(a)'
  BY <1>3, <1>5 DEF Pointer, TypeOK, emuVars, modeVars, Hosted
<1>6. ASSUME NEW id, Outdates(id) PROVE src[a] # id /\ src'[a] = src[a]
  BY <1>6 DEF Outdates
<1>7. ASSUME NEW t \in BindTargets, NEW p, vbo_glBufferDataARB(t, p)
      PROVE  Follows(a)'
  <2>1. PICK b : vbos' = [vbos EXCEPT ![Addressed(t)].data = b]
    BY <1>7 DEF vbo_glBufferDataARB
  <2>2. Outdates(Addressed(t)) /\ UNCHANGED <<slots, attrib>>
    BY <1>7 DEF vbo_glBufferDataARB, modeVars
  <2>3. src[a] # Addressed(t) /\ src'[a] = src[a]
    BY <2>2, <1>6
  <2>4. vbos'[src[a]] = vbos[src[a]]
    BY <1>0, <2>1, <2>3 DEF TypeOK
  <2>5. QED BY <1>3, <2>2, <2>3, <2>4 DEF Hosted
<1>8. ASSUME NEW id, vbo_glDeleteBuffersARB(id) PROVE Follows(a)'
  <2>1. Outdates(id) /\ UNCHANGED <<slots, attrib>> /\ vbos' = Emptied(id)
    BY <1>8 DEF vbo_glDeleteBuffersARB, modeVars
  <2>2. src[a] # id /\ src'[a] = src[a]
    BY <2>1, <1>6
  <2>3. vbos'[src[a]] = vbos[src[a]]
    BY <2>1, <2>2 DEF Emptied, TypeOK
  <2>4. QED BY <1>3, <2>1, <2>2, <2>3 DEF Hosted
<1>9. CASE (\E t, p : HostBufferData(t, p)) \/ (\E id : HostDelete(id))
  <2>1. UNCHANGED <<slots, attrib, vbos>> /\ (src' = src \/ \E id : Outdates(id))
    BY <1>9 DEF HostBufferData, HostDelete, emuVars, modeVars, gameVars
  <2>2. src'[a] = src[a]
    BY <2>1, <1>6
  <2>3. QED BY <1>3, <2>1, <2>2 DEF Hosted
<1>10. CASE GenTake
  <2>1. PICK step \in Steps :
           vbos' = [vbos EXCEPT ![Cand(scan_hint, step)].allocated = TRUE]
    BY <1>10 DEF GenTake
  <2>2. UNCHANGED <<slots, attrib, src>> /\ ~Hosted
    BY <1>10, ModeFacts DEF GenTake, modeVars
  <2>3. src[a] > 0 /\ src[a] \in 0 .. MaxVbo - 1
    BY <1>0, <2>2
  <2>4. vbos[src[a]].allocated
    BY <2>2, <2>3 DEF DrawInv, Follows
  <2>5. vbos'[src[a]].allocated /\ vbos'[src[a]].data = vbos[src[a]].data
    BY <2>1, <2>3, <2>4 DEF TypeOK
  <2>6. QED BY <1>4, <2>2, <2>5 DEF Hosted
<1>11. CASE UNCHANGED <<vbos, attrib, src>> /\ Hosted' = Hosted
  BY <1>3, <1>11
<1>12. UNCHANGED slots => Hosted' = Hosted
  BY DEF Hosted
<1>13. ASSUME Install \/ \E n \in 1 .. MaxBatch : GenCall(n) PROVE Follows(a)'
  <2>1. UNCHANGED <<vbos, attrib, src>>
    BY <1>13 DEF Install, GenCall, emuVars, gameVars
  <2>2. QED BY <1>2, <1>11, <2>1, HostedStays DEF Hosted
<1>14. QED
  BY <1>1, <1>5, <1>7, <1>8, <1>9, <1>10, <1>11, <1>12, <1>13
     DEF Next, MakeCurrent, Gen, GenExhausted, GenHost, Bind, vbo_glBindBufferARB,
         HostBind, BufferData, Delete, vars, emuVars, modeVars, gameVars

(* Where glDrawElements takes its indices from: the store of the buffer     *)
(* bound now.                                                               *)
LEMMA IndicesFollow ==
    ASSUME TypeOK, ModeInv, NameInv, HandOverInv, DriverInv, BoundNow("elem") # 0
    PROVE  FollowsStore(IndexPointer, BoundNow("elem"))
<1>1. "DrawElements" \in SlotNames /\ "DrawElements" \notin VboSlots
  BY DEF SlotNames, VboSlots
<1>2. CASE Hosted
  <2>1. slots["DrawElements"] = "host"
    BY <1>1, <1>2, SlotFacts DEF ModeInv, SlotsAgree, Hosted, HostSlots, Families
  <2>2. QED
    BY <1>2, <2>1 DEF FollowsStore, IndexPointer, HostPointer, BoundNow
<1>3. CASE ~Hosted
  <2>1. BoundNow("elem") = s_bound["elem"]
    BY <1>3 DEF BoundNow
  <2>2. s_bound["elem"] \in Ids /\ vbos[s_bound["elem"]].allocated
    BY <2>1 DEF NameInv, BoundIsAllocated, BindTargets, TypeOK, Ids
  <2>3. Emulated
    BY <1>3, <2>2 DEF DriverInv, Allocated, HandOverInv
  <2>4. slots["DrawElements"] = "hook"
    BY <1>1, <2>3, EmulatedTable DEF EmulatorSlots
  <2>5. CASE vbos[s_bound["elem"]].data = NULL
    BY <1>3, <2>1, <2>5 DEF FollowsStore, ContentOf
  <2>6. CASE vbos[s_bound["elem"]].data # NULL
    BY <1>3, <2>1, <2>2, <2>4, <2>6 DEF FollowsStore, IndexPointer, Resolved, Ids
  <2>7. QED BY <2>5, <2>6
<1>4. QED BY <1>2, <1>3

(* Whatever the driver exports and whenever the promotion comes, indices    *)
(* are fetched from the present store of the bound buffer, and so is each   *)
(* array: after the hand-over always, before it from gl*Pointer to the next *)
(* glBufferData on its buffer.  For a game that binds only names it was     *)
(* given and makes its context current first.                               *)
THEOREM DrawsFollowStores ==
    ASSUME GameRules \subseteq Rules
    PROVE  Spec => []DrawsReadStores
<1>1. Init => DrawInv
  BY DEF Init, DrawInv
<1>2. /\ "binds_generated" \in Rules
      /\ {"binds_generated", "context_first"} \subseteq Rules
  BY DEF GameRules
<1>3. TypeOK /\ ModeInv /\ NameInv /\ HandOverInv /\ DriverInv /\ DrawInv /\ [Next]_vars
         => DrawInv'
  BY <1>2, DrawStep
<1>4. TypeOK /\ ModeInv /\ NameInv /\ HandOverInv /\ DriverInv /\ DrawInv => DrawsReadStores
  <2> SUFFICES ASSUME TypeOK, ModeInv, NameInv, HandOverInv, DriverInv, DrawInv
               PROVE  DrawsReadStores
    OBVIOUS
  <2>1. ASSUME NEW a \in PtrSlots, src[a] > 0 PROVE FollowsStore(attrib[a], src[a])
    <3>1. Follows(a)
      BY <2>1 DEF DrawInv
    <3>2. QED BY <3>1 DEF Follows, FollowsStore, ContentOf
  <2>2. QED BY <2>1, IndicesFollow DEF DrawsReadStores
<1>5. QED
  BY <1>1, <1>2, <1>3, <1>4, TypeCorrect, ModeInvariant, NameInvariant, HandOverInvariant,
     DriverInvariant, PTL DEF Spec

-----------------------------------------------------------------------------
(* The buffers of ARB_vertex_buffer_object. *)

(* The two specifications have the same targets, and one of each of the     *)
(* things a step of GLBuffers is about.                                     *)
LEMMA AbstractInputs ==
    /\ Abstract!BindTargets = BindTargets
    /\ 1 \in Ids /\ "array" \in BindTargets
    /\ \E p \in Payloads : TRUE
  BY SizeAssumption, ValueAssumption DEF Abstract!BindTargets, BindTargets, Ids

(* A step that leaves names, stores and bindings alone is none to the game. *)
LEMMA AbstractStutter ==
    ASSUME LiveNames' = LiveNames,
           \A id \in Ids : ContentOf(id)' = ContentOf(id),
           \A t \in BindTargets : BoundNow(t)' = BoundNow(t)
    PROVE  UNCHANGED Abstract!vars
  BY DEF Abstract!vars

(* The four steps that are some to the game.                                *)
LEMMA AbstractGen ==
    ASSUME NEW new \in Ids, new \notin LiveNames,
           LiveNames' = LiveNames \cup {new},
           \A id \in Ids : ContentOf(id)' = ContentOf(id),
           \A t \in BindTargets : BoundNow(t)' = BoundNow(t)
    PROVE  Abstract!Next
<1>1. Abstract!Gen(new)
  BY DEF Abstract!Gen
<1>2. QED BY <1>1, AbstractInputs DEF Abstract!Next

LEMMA AbstractBind ==
    ASSUME NEW u \in BindTargets, NEW id \in LiveNames \cup {0}, LiveNames \subseteq Ids,
           LiveNames' = LiveNames,
           \A i \in Ids : ContentOf(i)' = ContentOf(i),
           \A t \in BindTargets : BoundNow(t)' = IF t = u THEN id ELSE BoundNow(t)
    PROVE  Abstract!Next
<1>1. Abstract!Bind(u, id)
  BY DEF Abstract!Bind
<1>2. QED BY <1>1, AbstractInputs DEF Abstract!Next

LEMMA AbstractBufferData ==
    ASSUME NEW u \in BindTargets, NEW p \in Payloads \cup {NULL}, NEW d \in {p, NULL},
           BoundNow(u) \in Ids,
           LiveNames' = LiveNames,
           \A id \in Ids : ContentOf(id)' = IF id = BoundNow(u) THEN d ELSE ContentOf(id),
           \A t \in BindTargets : BoundNow(t)' = BoundNow(t)
    PROVE  Abstract!Next
<1>1. PICK q \in Payloads : d \in {q, NULL}
  BY AbstractInputs
<1>2. Abstract!BufferData(u, q)
  <2>1. [t \in BindTargets |-> BoundNow(t)][u] = BoundNow(u)
    OBVIOUS
  <2>2. [id \in Ids |-> ContentOf(id)]'
           = [[id \in Ids |-> ContentOf(id)] EXCEPT ![BoundNow(u)] = d]
    OBVIOUS
  <2>3. BoundNow(u) # 0
    BY DEF Ids
  <2>4. QED BY <1>1, <2>1, <2>2, <2>3 DEF Abstract!BufferData
<1>3. QED BY <1>2, AbstractInputs DEF Abstract!Next

LEMMA AbstractDelete ==
    ASSUME NEW old \in Ids, old \in LiveNames,
           LiveNames' = LiveNames \ {old},
           \A id \in Ids : ContentOf(id)' = IF id = old THEN NULL ELSE ContentOf(id),
           \A t \in BindTargets : BoundNow(t)' = IF BoundNow(t) = old THEN 0 ELSE BoundNow(t)
    PROVE  Abstract!Next
<1>1. Abstract!Delete(old)
  BY AbstractInputs DEF Abstract!Delete
<1>2. QED BY <1>1, AbstractInputs DEF Abstract!Next

(* While the emulator runs the game sees its slots; after that the driver.  *)
LEMMA Views ==
    /\ ~Hosted => /\ LiveNames = Allocated
                  /\ \A t \in BindTargets : BoundNow(t) = s_bound[t]
                  /\ \A id \in Ids : ContentOf(id) =
                        IF vbos[id].data = NULL THEN NULL ELSE heap[vbos[id].data]
    /\ Hosted => /\ LiveNames = hostNames
                 /\ \A t \in BindTargets : BoundNow(t) = hostBound[t]
                 /\ \A id \in Ids : ContentOf(id) = hostStore[id]
  BY DEF LiveNames, Allocated, BoundNow, ContentOf

(* The same a step later.                                                   *)
LEMMA NextViews ==
    /\ ~Hosted' => /\ LiveNames' = Allocated'
                   /\ \A t \in BindTargets : BoundNow(t)' = s_bound'[t]
                   /\ \A id \in Ids : ContentOf(id)' =
                         IF vbos'[id].data = NULL THEN NULL ELSE heap'[vbos'[id].data]
    /\ Hosted' => /\ LiveNames' = hostNames'
                  /\ \A t \in BindTargets : BoundNow(t)' = hostBound'[t]
                  /\ \A id \in Ids : ContentOf(id)' = hostStore'[id]
  BY DEF LiveNames, Allocated, BoundNow, ContentOf

(* The hand-over, and install_win_vbo, which only arms the emulator.        *)
LEMMA ModeChangeUnseen ==
    ASSUME TypeOK, ModeInv, NameInv, HandOverInv, DriverInv, [Next]_vars,
           UNCHANGED <<vbos, heap, s_bound, hostNames, hostStore, hostBound>>
    PROVE  UNCHANGED Abstract!vars
<1>1. CASE ~Hosted /\ Hosted'
  <2>1. held = {}
    BY <1>1, PromotionFindsNothing
  <2>2. /\ LiveNames = {}
        /\ \A id \in Ids : ContentOf(id) = NULL
        /\ \A t \in BindTargets : BoundNow(t) = 0
    BY <1>1, <2>1, NothingHeld, Views
  <2>3. /\ LiveNames' = {}
        /\ \A id \in Ids : ContentOf(id)' = NULL
        /\ \A t \in BindTargets : BoundNow(t)' = 0
    BY <1>1, NextViews DEF DriverInv
  <2>4. QED BY <2>2, <2>3, AbstractStutter
<1>2. CASE Hosted' = Hosted
  <2>1. /\ LiveNames' = LiveNames
        /\ \A id \in Ids : ContentOf(id)' = ContentOf(id)
        /\ \A t \in BindTargets : BoundNow(t)' = BoundNow(t)
    BY <1>2 DEF LiveNames, ContentOf, BoundNow
  <2>2. QED BY <2>1, AbstractStutter
<1>3. QED BY <1>1, <1>2, HostedStays DEF Hosted

(* Storing into one buffer leaves every other store alone: no two slots own *)
(* a block, and malloc gives none that is owned.                            *)
LEMMA OtherStores ==
    ASSUME TypeOK, OwnedBlocks, NEW id \in Ids, NEW b \in Blocks \cup {NULL},
           \A i \in Ids \ {id} : vbos'[i].data = vbos[i].data,
           b # NULL => Freed(vbos[id].data)[b] = Free,
           \A x \in Blocks \ {b} : heap'[x] = Freed(vbos[id].data)[x],
           ~Hosted, ~Hosted', NEW i \in Ids, i # id
    PROVE  ContentOf(i)' = ContentOf(i)
<1>1. i \in 0 .. MaxVbo - 1 /\ id \in 0 .. MaxVbo - 1 /\ NULL \notin Blocks
  BY ValueAssumption DEF Ids
<1>2. vbos[i].data \in Blocks \cup {NULL} /\ vbos[id].data \in Blocks \cup {NULL}
  BY <1>1 DEF TypeOK
<1>3. CASE vbos[i].data = NULL
  BY <1>3, Views, NextViews
<1>4. CASE vbos[i].data # NULL
  <2>1. vbos[i].data \in Blocks /\ heap[vbos[i].data] # Free
    BY <1>1, <1>2, <1>4 DEF OwnedBlocks
  <2>2. vbos[i].data # vbos[id].data
    BY <1>1, <1>4 DEF OwnedBlocks
  <2>3. Freed(vbos[id].data)[vbos[i].data] = heap[vbos[i].data]
    BY <2>1, <2>2 DEF Freed, TypeOK
  <2>4. vbos[i].data # b
    BY <2>1, <2>3, <1>1
  <2>5. heap'[vbos'[i].data] = heap[vbos[i].data] /\ vbos'[i].data = vbos[i].data
    BY <2>1, <2>3, <2>4
  <2>6. QED BY <2>5, Views, NextViews
<1>5. QED BY <1>3, <1>4

(* The handlers of the emulator are the steps of GLBuffers.                 *)
LEMMA EmulatorGen ==
    ASSUME TypeOK, ModeInv, GenTake PROVE Abstract!Next
<1>1. ~Hosted /\ ~Hosted'
  BY ModeFacts DEF GenTake, modeVars, Hosted
<1>2. PICK step \in Steps :
         /\ FirstFree(step)
         /\ vbos' = [vbos EXCEPT ![Cand(scan_hint, step)].allocated = TRUE]
  BY DEF GenTake
<1> DEFINE new == Cand(scan_hint, step)
<1>3. new \in Ids /\ ~vbos[new].allocated
  BY <1>2, CandInRange DEF TypeOK, FirstFree, Taken
<1>4. /\ \A i \in Ids : vbos'[i].data = vbos[i].data
      /\ Allocated' = Allocated \cup {new} /\ new \notin Allocated
  BY <1>2, <1>3 DEF TypeOK, Allocated, Ids
<1>5. heap' = heap /\ s_bound' = s_bound
  BY DEF GenTake
<1>6. /\ new \notin LiveNames /\ LiveNames' = LiveNames \cup {new}
      /\ \A id \in Ids : ContentOf(id)' = ContentOf(id)
      /\ \A t \in BindTargets : BoundNow(t)' = BoundNow(t)
  BY <1>1, <1>4, <1>5, Views, NextViews
<1>7. QED BY <1>3, <1>6, AbstractGen

LEMMA EmulatorBind ==
    ASSUME "binds_generated" \in Rules, TypeOK, ModeInv, NameInv,
           NEW u \in BindTargets, NEW id \in NamesToPass \cup {0},
           vbo_glBindBufferARB(u, id)
    PROVE  Abstract!Next
<1>1. ~Hosted /\ ~Hosted'
  BY ModeFacts DEF vbo_glBindBufferARB, modeVars, Hosted, VboSlots
<1>2. id \in Allocated \cup {0}
  BY <1>1 DEF NamesToPass, NameInv
<1>3. ~(id >= MaxVbo)
  BY <1>2, SizeAssumption DEF Allocated, Ids
<1>4. s_bound' = [s_bound EXCEPT ![u] = id] /\ UNCHANGED <<vbos, heap>>
  BY <1>3 DEF vbo_glBindBufferARB
<1>5. id \in LiveNames \cup {0} /\ LiveNames \subseteq Ids /\ LiveNames' = LiveNames
  <2>1. Allocated' = Allocated /\ Allocated \subseteq Ids
    BY <1>4 DEF Allocated
  <2>2. QED BY <1>1, <1>2, <2>1, Views, NextViews
<1>6. \A i \in Ids : ContentOf(i)' = ContentOf(i)
  BY <1>1, <1>4, Views, NextViews
<1>7. \A t \in BindTargets : BoundNow(t)' = IF t = u THEN id ELSE BoundNow(t)
  <2>1. \A t \in BindTargets : s_bound'[t] = IF t = u THEN id ELSE s_bound[t]
    BY <1>4 DEF TypeOK
  <2>2. QED BY <1>1, <2>1, Views, NextViews
<1>8. QED BY <1>5, <1>6, <1>7, AbstractBind

LEMMA EmulatorBufferData ==
    ASSUME TypeOK, ModeInv, OwnedBlocks, NEW u \in BindTargets,
           NEW p \in Payloads \cup {NULL}, vbo_glBufferDataARB(u, p)
    PROVE  Abstract!Next
<1>1. ~Hosted /\ ~Hosted'
  BY ModeFacts DEF vbo_glBufferDataARB, modeVars, Hosted, VboSlots
<1>2. PICK id \in Ids : id = Addressed(u) /\ BoundNow(u) = id /\ s_bound' = s_bound
  BY <1>1, SizeAssumption, Views
     DEF vbo_glBufferDataARB, Addressed, TypeOK, BindTargets, Ids
<1>3. Freed(vbos[id].data) \in [Blocks -> Payloads \cup {Free}]
  BY <1>2, FreedType DEF TypeOK, Ids
<1>4. PICK b \in Blocks \cup {NULL}, d \in {p, NULL} :
         /\ vbos' = [vbos EXCEPT ![id].data = b]
         /\ b # NULL => /\ Freed(vbos[id].data)[b] = Free
                        /\ heap' = [Freed(vbos[id].data) EXCEPT ![b] = p] /\ d = p
         /\ b = NULL => heap' = Freed(vbos[id].data) /\ d = NULL
  <2>1. CASE \E b \in Blocks : /\ Freed(vbos[id].data)[b] = Free
                              /\ heap' = [Freed(vbos[id].data) EXCEPT ![b] = p]
                              /\ vbos' = [vbos EXCEPT ![id].data = b]
    BY <2>1, ValueAssumption
  <2>2. CASE /\ heap' = Freed(vbos[id].data)
             /\ vbos' = [vbos EXCEPT ![id].data = NULL]
    BY <2>2
  <2>3. QED BY <1>2, <2>1, <2>2 DEF vbo_glBufferDataARB
<1>5. /\ \A i \in Ids \ {id} : vbos'[i].data = vbos[i].data
      /\ vbos'[id].data = b
      /\ \A i \in Ids : vbos'[i].allocated = vbos[i].allocated
  BY <1>2, <1>4 DEF TypeOK, Ids
<1>6. /\ \A x \in Blocks \ {b} : heap'[x] = Freed(vbos[id].data)[x]
      /\ b # NULL => heap'[b] = d
  BY <1>3, <1>4
<1>7. \A i \in Ids : ContentOf(i)' = IF i = id THEN d ELSE ContentOf(i)
  <2>1. ContentOf(id)' = IF b = NULL THEN NULL ELSE heap'[b]
    BY <1>1, <1>2, <1>5, NextViews
  <2>2. ContentOf(id)' = d
    BY <1>4, <1>6, <2>1
  <2>3. ASSUME NEW i \in Ids, i # id PROVE ContentOf(i)' = ContentOf(i)
    BY <1>1, <1>2, <1>4, <1>5, <1>6, <2>3, OtherStores
  <2>4. QED BY <2>2, <2>3
<1>8. LiveNames' = LiveNames
  <2>1. Allocated' = Allocated
    BY <1>5 DEF Allocated
  <2>2. QED BY <1>1, <2>1, Views, NextViews
<1>9. \A t \in BindTargets : BoundNow(t)' = BoundNow(t)
  BY <1>1, <1>2, Views, NextViews
<1>10. QED BY <1>2, <1>7, <1>8, <1>9, AbstractBufferData

LEMMA EmulatorDelete ==
    ASSUME TypeOK, ModeInv, OwnedBlocks, NEW old, vbo_glDeleteBuffersARB(old)
    PROVE  Abstract!Next
<1>1. ~Hosted /\ ~Hosted'
  BY ModeFacts DEF vbo_glDeleteBuffersARB, modeVars, Hosted, VboSlots
<1>2. /\ old \in Ids /\ vbos[old].allocated
      /\ heap' = Freed(vbos[old].data) /\ s_bound' = Unbound(s_bound, old)
  BY DEF vbo_glDeleteBuffersARB
<1>3. \A i \in 0 .. MaxVbo - 1 :
         vbos'[i] = IF i = old THEN [allocated |-> FALSE, data |-> NULL] ELSE vbos[i]
  BY DEF vbo_glDeleteBuffersARB, Emptied, TypeOK
<1>4. old \in Allocated /\ Allocated' = Allocated \ {old}
  BY <1>2, <1>3 DEF Allocated, Ids
<1>5. vbos'[old].data = NULL /\ \A i \in Ids \ {old} : vbos'[i].data = vbos[i].data
  BY <1>2, <1>3 DEF Ids
<1>6. \A i \in Ids : ContentOf(i)' = IF i = old THEN NULL ELSE ContentOf(i)
  <2>1. ContentOf(old)' = NULL
    BY <1>1, <1>2, <1>5, NextViews
  <2>2. ASSUME NEW i \in Ids, i # old PROVE ContentOf(i)' = ContentOf(i)
    BY <1>1, <1>2, <1>5, <2>2, OtherStores
  <2>3. QED BY <2>1, <2>2
<1>7. \A t \in BindTargets : BoundNow(t)' = IF BoundNow(t) = old THEN 0 ELSE BoundNow(t)
  BY <1>1, <1>2, Views, NextViews DEF Unbound
<1>8. QED BY <1>1, <1>2, <1>4, <1>6, <1>7, Views, NextViews, AbstractDelete

(* So are the driver's functions, for names the game was given.             *)
LEMMA DriverSteps ==
    ASSUME {"binds_generated", "context_first"} \subseteq Rules, TypeOK, ModeInv,
           HandOverInv,
           \/ GenHost
           \/ \E u \in BindTargets, id \in NamesToPass \cup {0} : HostBind(u, id)
           \/ \E u \in BindTargets, p \in Payloads \cup {NULL} : HostBufferData(u, p)
           \/ \E id \in NamesToPass : HostDelete(id)
    PROVE  Abstract!Next
<1>1. Hosted /\ slots' = slots
  BY ModeFacts DEF GenHost, HostBind, HostBufferData, HostDelete, modeVars, VboSlots
<1>2. Hosted'
  BY <1>1 DEF Hosted
<1>3. NamesToPass \subseteq hostNames /\ hostNames \subseteq Ids
  BY <1>1 DEF NamesToPass, HandOverInv, TypeOK
<1>4. CASE GenHost
  <2>1. PICK new \in Ids \ hostNames : hostNames' = hostNames \cup {new}
    BY <1>4 DEF GenHost
  <2>2. UNCHANGED <<hostStore, hostBound>>
    BY <1>4 DEF GenHost
  <2>3. /\ new \notin LiveNames /\ LiveNames' = LiveNames \cup {new}
        /\ \A id \in Ids : ContentOf(id)' = ContentOf(id)
        /\ \A t \in BindTargets : BoundNow(t)' = BoundNow(t)
    BY <1>1, <1>2, <2>1, <2>2, Views, NextViews
  <2>4. QED BY <2>3, AbstractGen
<1>5. ASSUME NEW u \in BindTargets, NEW id \in NamesToPass \cup {0}, HostBind(u, id)
      PROVE  Abstract!Next
  <2>1. /\ hostBound' = [hostBound EXCEPT ![u] = id]
        /\ hostNames' = hostNames \cup ({id} \ {0}) /\ hostStore' = hostStore
    BY <1>5 DEF HostBind
  <2>2. id \in hostNames \cup {0} /\ hostNames' = hostNames
    BY <1>3, <2>1
  <2>3. id \in LiveNames \cup {0} /\ LiveNames \subseteq Ids /\ LiveNames' = LiveNames
    BY <1>1, <1>2, <1>3, <2>2, Views, NextViews
  <2>4. \A i \in Ids : ContentOf(i)' = ContentOf(i)
    BY <1>1, <1>2, <2>1, Views, NextViews
  <2>5. \A t \in BindTargets : hostBound'[t] = IF t = u THEN id ELSE hostBound[t]
    BY <2>1 DEF TypeOK
  <2>6. \A t \in BindTargets : BoundNow(t)' = IF t = u THEN id ELSE BoundNow(t)
    BY <1>1, <1>2, <2>5, Views, NextViews
  <2>7. QED BY <2>3, <2>4, <2>6, AbstractBind
<1>6. ASSUME NEW u \in BindTargets, NEW p \in Payloads \cup {NULL}, HostBufferData(u, p)
      PROVE  Abstract!Next
  <2>1. /\ hostBound[u] # 0 /\ UNCHANGED <<hostNames, hostBound>>
        /\ hostStore' = [hostStore EXCEPT ![hostBound[u]] = p]
    BY <1>6 DEF HostBufferData
  <2>2. BoundNow(u) = hostBound[u] /\ BoundNow(u) \in Ids
    BY <1>1, <2>1, Views DEF TypeOK, Ids
  <2>3. /\ LiveNames' = LiveNames
        /\ \A i \in Ids : ContentOf(i)' = IF i = BoundNow(u) THEN p ELSE ContentOf(i)
        /\ \A t \in BindTargets : BoundNow(t)' = BoundNow(t)
    BY <1>1, <1>2, <2>1, <2>2, Views, NextViews DEF TypeOK
  <2>4. QED BY <2>2, <2>3, AbstractBufferData
<1>7. ASSUME NEW old \in NamesToPass, HostDelete(old)
      PROVE  Abstract!Next
  <2>1. /\ old \in Ids /\ hostNames' = hostNames \ {old}
        /\ hostStore' = [hostStore EXCEPT ![old] = NULL]
        /\ hostBound' = Unbound(hostBound, old)
    BY <1>7 DEF HostDelete
  <2>2. old \in LiveNames /\ LiveNames' = LiveNames \ {old}
    BY <1>1, <1>2, <1>3, <2>1, Views, NextViews
  <2>3. \A i \in Ids : ContentOf(i)' = IF i = old THEN NULL ELSE ContentOf(i)
    BY <1>1, <1>2, <2>1, Views, NextViews DEF TypeOK
  <2>4. \A t \in BindTargets : BoundNow(t)' = IF BoundNow(t) = old THEN 0 ELSE BoundNow(t)
    BY <1>1, <1>2, <2>1, Views, NextViews DEF Unbound
  <2>5. QED BY <2>1, <2>2, <2>3, <2>4, AbstractDelete
<1>8. QED BY <1>4, <1>5, <1>6, <1>7

(* For a game that binds only names it was given, and asks for the first    *)
(* once its context is current, the emulator, the hand-over and the driver  *)
(* together are the buffers of GLBuffers: with any table size, any exports  *)
(* of the driver and any answers of malloc.                                 *)
THEOREM BuffersImplemented ==
    ASSUME {"binds_generated", "context_first"} \subseteq Rules
    PROVE  Spec => ImplementsGLBuffers
<1>1. Init => Abstract!Init
  <2> SUFFICES ASSUME Init PROVE Abstract!Init
    OBVIOUS
  <2>1. ~Hosted
    BY SlotFacts DEF Init, Hosted
  <2>2. /\ \A id \in Ids : ~vbos[id].allocated /\ vbos[id].data = NULL
        /\ \A t \in BindTargets : s_bound[t] = 0
    BY DEF Init, Ids
  <2>3. /\ LiveNames = {}
        /\ \A id \in Ids : ContentOf(id) = NULL
        /\ \A t \in BindTargets : BoundNow(t) = 0
    BY <2>1, <2>2, Views DEF Allocated
  <2>4. QED BY <2>3, AbstractInputs DEF Abstract!Init
<1>2. "binds_generated" \in Rules /\ {"binds_generated", "context_first"} \subseteq Rules
  OBVIOUS
<1>3. TypeOK /\ ModeInv /\ OwnedBlocks /\ NameInv /\ HandOverInv /\ DriverInv /\ [Next]_vars
         => [Abstract!Next]_(Abstract!vars)
  <2> SUFFICES ASSUME TypeOK, ModeInv, OwnedBlocks, NameInv, HandOverInv, DriverInv,
                      [Next]_vars
               PROVE  Abstract!Next \/ UNCHANGED Abstract!vars
    OBVIOUS
  <2>1. CASE GenTake
    BY <2>1, EmulatorGen
  <2>2. ASSUME NEW u \in BindTargets, NEW id \in NamesToPass \cup {0},
               vbo_glBindBufferARB(u, id)
        PROVE  Abstract!Next
    BY <1>2, <2>2, EmulatorBind
  <2>3. ASSUME NEW u \in BindTargets, NEW p \in Payloads \cup {NULL},
               vbo_glBufferDataARB(u, p)
        PROVE  Abstract!Next
    BY <2>3, EmulatorBufferData
  <2>4. ASSUME NEW id \in NamesToPass, vbo_glDeleteBuffersARB(id) PROVE Abstract!Next
    BY <2>4, EmulatorDelete
  <2>5. CASE \/ GenHost
             \/ \E u \in BindTargets, id \in NamesToPass \cup {0} : HostBind(u, id)
             \/ \E u \in BindTargets, p \in Payloads \cup {NULL} : HostBufferData(u, p)
             \/ \E id \in NamesToPass : HostDelete(id)
    BY <1>2, <2>5, DriverSteps
  <2>6. CASE \/ Install \/ MakeCurrent \/ GenExhausted \/ UNCHANGED vars
             \/ \E n \in 1 .. MaxBatch : GenCall(n)
             \/ \E a \in PtrSlots : Pointer(a)
    <3>1. UNCHANGED <<vbos, heap, s_bound, hostNames, hostStore, hostBound>>
      BY <2>6 DEF Install, MakeCurrent, GenExhausted, GenCall, Pointer, vars,
                  emuVars, hostVars
    <3>2. QED BY <3>1, ModeChangeUnseen
  <2>7. QED
    BY <2>1, <2>2, <2>3, <2>4, <2>5, <2>6 DEF Next, Gen, Bind, BufferData, Delete
<1>4. QED
  BY <1>1, <1>2, <1>3, TypeCorrect, ModeInvariant, BlocksOwned, NameInvariant,
     HandOverInvariant, DriverInvariant, PTL DEF Spec, ImplementsGLBuffers, Abstract!Spec
=============================================================================
