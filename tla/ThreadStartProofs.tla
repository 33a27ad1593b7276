-------------------------- MODULE ThreadStartProofs --------------------------
(***************************************************************************)
(* Theorems about ThreadStart, for any number of creators, threads and     *)
(* blocks.                                                                 *)
(***************************************************************************)
EXTENDS ThreadStart, FiniteSetTheorems, TLAPS

TypeOK ==
    /\ heap \in [Blocks -> Jobs \cup {Free, Garbage}]
    /\ pc \in [Creators -> {"game", "fill", "create", "undo", "detach"}]
    /\ arg \in [Creators -> Blocks \cup {NULL}]
    /\ want \in [Creators -> Jobs \cup {NULL}]
    /\ tid \in [Creators -> Workers \cup {NULL}]
    /\ alive \in SUBSET Workers /\ joinable \in SUBSET Workers
    /\ wpc \in [Workers -> {"enter", "free", "run"}]
    /\ warg \in [Workers -> Blocks \cup {NULL}]
    /\ job \in [Workers -> Jobs \cup {NULL, Free, Garbage}]
    /\ asked \in [Workers -> Jobs \cup {NULL}]

(* The two sides of a block.                                                *)
CreatorOwns(c, b) == arg[c] = b /\ pc[c] \in {"fill", "create", "undo"}
WorkerOwns(w, b)  == w \in alive /\ warg[w] = b /\ wpc[w] \in {"enter", "free"}

(* A block in use has an owner, and one only, and what an owner needs is    *)
(* in its block.                                                            *)
BlockInv ==
    /\ \A c \in Creators : pc[c] \in {"fill", "create", "undo"} =>
           /\ arg[c] \in Blocks /\ heap[arg[c]] # Free
           /\ want[c] \in Jobs
           /\ pc[c] = "create" => heap[arg[c]] = want[c]
    /\ \A w \in alive :
           /\ wpc[w] \in {"enter", "free"} => warg[w] \in Blocks /\ heap[warg[w]] # Free
           /\ wpc[w] = "enter" => heap[warg[w]] = asked[w]
           /\ wpc[w] # "enter" => job[w] = asked[w]
    /\ \A b \in Blocks :
           /\ heap[b] # Free => \/ \E c \in Creators : CreatorOwns(c, b)
                                \/ \E w \in Workers : WorkerOwns(w, b)
           /\ \A c, d \in Creators : CreatorOwns(c, b) /\ CreatorOwns(d, b) => c = d
           /\ \A v, w \in Workers : WorkerOwns(v, b) /\ WorkerOwns(w, b) => v = w
           /\ \A c \in Creators, w \in Workers : ~(CreatorOwns(c, b) /\ WorkerOwns(w, b))

(* A thread is joinable as long as its creator has still to detach it.      *)
DetachInv ==
    /\ DetachesItsOwn
    /\ \A c, d \in Creators : pc[c] = "detach" /\ pc[d] = "detach" /\ tid[c] = tid[d]
                              => c = d

LEMMA TypeStep == ASSUME TypeOK, BlockInv, [Next]_vars PROVE TypeOK'
<1> USE DEF TypeOK, creatorVars, workerVars
<1>1. ASSUME NEW c \in Creators, NEW j \in Jobs, Allocate(c, j) PROVE TypeOK'
  BY <1>1 DEF Allocate
<1>2. ASSUME NEW c \in Creators, Fill(c) PROVE TypeOK'
  BY <1>2 DEF Fill, Goto, BlockInv
<1>3. ASSUME NEW c \in Creators, Create(c) PROVE TypeOK'
  BY <1>3 DEF Create, Goto
<1>4. ASSUME NEW c \in Creators, Undo(c) PROVE TypeOK'
  BY <1>4 DEF Undo, Goto
<1>5. ASSUME NEW c \in Creators, Detach(c) PROVE TypeOK'
  BY <1>5 DEF Detach, Goto
<1>6. ASSUME NEW w \in Workers, Take(w) PROVE TypeOK'
  BY <1>6 DEF Take, WGoto, BlockInv
<1>7. ASSUME NEW w \in Workers, FreeArg(w) PROVE TypeOK'
  BY <1>7 DEF FreeArg, WGoto
<1>8. ASSUME NEW w \in Workers, Return(w) PROVE TypeOK'
  BY <1>8 DEF Return
<1>9. CASE UNCHANGED vars BY <1>9 DEF vars
<1>10. QED BY <1>1, <1>2, <1>3, <1>4, <1>5, <1>6, <1>7, <1>8, <1>9 DEF Next

-----------------------------------------------------------------------------
LEMMA BlockStep ==
    ASSUME TypeOK, BlockInv, [Next]_vars PROVE BlockInv'
<1> USE ThreadAssumption DEF TypeOK, BlockInv, CreatorOwns, WorkerOwns,
                             creatorVars, workerVars
<1>1. ASSUME NEW c \in Creators, NEW j \in Jobs, Allocate(c, j) PROVE BlockInv'
  <2>1. CASE UNCHANGED <<heap, arg, pc>>
    BY <1>1, <2>1 DEF Allocate
  <2>2. CASE \E b \in {k \in Blocks : heap[k] = Free} :
                /\ heap' = [heap EXCEPT ![b] = Garbage]
                /\ arg' = [arg EXCEPT ![c] = b]
                /\ pc' = [pc EXCEPT ![c] = "fill"]
    <3>1. PICK b \in Blocks : /\ heap[b] = Free
                             /\ heap' = [heap EXCEPT ![b] = Garbage]
                             /\ arg' = [arg EXCEPT ![c] = b]
                             /\ pc' = [pc EXCEPT ![c] = "fill"]
      BY <2>2
    <3>2. /\ pc[c] = "game" /\ want' = [want EXCEPT ![c] = j]
          /\ UNCHANGED <<alive, wpc, warg, job, asked>>
      BY <1>1 DEF Allocate
    <3>3. \A k \in Blocks : k # b => heap'[k] = heap[k]
      BY <3>1
    <3>4. heap'[b] = Garbage /\ Garbage # Free BY <3>1
    <3>5. /\ arg'[c] = b /\ pc'[c] = "fill" /\ want'[c] = j
          /\ \A d \in Creators \ {c} : arg'[d] = arg[d] /\ pc'[d] = pc[d] /\ want'[d] = want[d]
      BY <3>1, <3>2
    <3>6. \A d \in Creators \ {c} : pc[d] \in {"fill", "create", "undo"} => arg[d] # b
      BY <3>1
    <3>7. \A w \in alive : wpc[w] \in {"enter", "free"} => warg[w] # b
      BY <3>1
    <3>8. \A d \in Creators : pc'[d] \in {"fill", "create", "undo"} =>
            /\ arg'[d] \in Blocks /\ heap'[arg'[d]] # Free
            /\ want'[d] \in Jobs
            /\ pc'[d] = "create" => heap'[arg'[d]] = want'[d]
      BY <3>3, <3>4, <3>5, <3>6
    <3>9. \A w \in alive' :
            /\ wpc'[w] \in {"enter", "free"} => warg'[w] \in Blocks /\ heap'[warg'[w]] # Free
            /\ wpc'[w] = "enter" => heap'[warg'[w]] = asked'[w]
            /\ wpc'[w] # "enter" => job'[w] = asked'[w]
      BY <3>2, <3>3, <3>7
    <3>10. \A w \in Workers, k \in Blocks : WorkerOwns(w, k)' <=> WorkerOwns(w, k)
      BY <3>2
    <3>11. \A d \in Creators \ {c}, k \in Blocks : CreatorOwns(d, k)' <=> CreatorOwns(d, k)
      BY <3>5
    <3>12. \A k \in Blocks : ~CreatorOwns(c, k) /\ (CreatorOwns(c, k)' <=> k = b)
      BY <3>2, <3>5
    <3>13. /\ \A d \in Creators : ~CreatorOwns(d, b)
           /\ \A w \in Workers : ~WorkerOwns(w, b)
      BY <3>1
    <3>14. \A k \in Blocks : heap'[k] # Free =>
             (\E d \in Creators : CreatorOwns(d, k)') \/ (\E w \in Workers : WorkerOwns(w, k)')
      <4> SUFFICES ASSUME NEW k \in Blocks, heap'[k] # Free
                   PROVE  \/ \E d \in Creators : CreatorOwns(d, k)'
                          \/ \E w \in Workers : WorkerOwns(w, k)'
        OBVIOUS
      <4>1. CASE k = b BY <3>12, <4>1
      <4>2. CASE k # b
        <5>1. heap[k] # Free BY <3>3, <4>2
        <5>2. (\E d \in Creators : CreatorOwns(d, k)) \/ (\E w \in Workers : WorkerOwns(w, k))
          BY <5>1
        <5> HIDE DEF CreatorOwns, WorkerOwns, TypeOK, BlockInv
        <5>3. QED BY <5>2, <3>10, <3>11, <3>12
      <4>3. QED BY <4>1, <4>2
    <3>15. \A k \in Blocks :
             /\ \A d, e \in Creators : CreatorOwns(d, k)' /\ CreatorOwns(e, k)' => d = e
             /\ \A v, w \in Workers : WorkerOwns(v, k)' /\ WorkerOwns(w, k)' => v = w
             /\ \A d \in Creators, w \in Workers : ~(CreatorOwns(d, k)' /\ WorkerOwns(w, k)')
      <4>1. \A k \in Blocks :
              /\ \A d, e \in Creators : CreatorOwns(d, k) /\ CreatorOwns(e, k) => d = e
              /\ \A v, w \in Workers : WorkerOwns(v, k) /\ WorkerOwns(w, k) => v = w
              /\ \A d \in Creators, w \in Workers : ~(CreatorOwns(d, k) /\ WorkerOwns(w, k))
        OBVIOUS
      <4> HIDE DEF CreatorOwns, WorkerOwns, TypeOK, BlockInv
      <4>2. QED BY <4>1, <3>10, <3>11, <3>12, <3>13
    <3>16. QED BY <3>8, <3>9, <3>14, <3>15
  <2>3. QED BY <1>1, <2>1, <2>2 DEF Allocate
<1>2. ASSUME NEW c \in Creators, Fill(c) PROVE BlockInv'
  BY <1>2 DEF Fill, Goto
<1>3. ASSUME NEW c \in Creators, Create(c) PROVE BlockInv'
  <2>1. CASE pc' = [pc EXCEPT ![c] = "undo"]
    BY <1>3, <2>1 DEF Create, Goto
  <2>2. CASE pc' = [pc EXCEPT ![c] = "detach"]
    <3>1. PICK w \in Workers \ (alive \cup joinable) :
             /\ alive' = alive \cup {w}
             /\ wpc' = [wpc EXCEPT ![w] = "enter"]
             /\ warg' = [warg EXCEPT ![w] = arg[c]]
             /\ asked' = [asked EXCEPT ![w] = want[c]]
             /\ job' = [job EXCEPT ![w] = NULL]
      BY <1>3, <2>2, SMTT(30) DEF Create, Goto
    <3>2. pc[c] = "create" /\ UNCHANGED <<heap, arg, want>>
      BY <1>3 DEF Create, Goto
    <3>3. /\ pc'[c] = "detach"
          /\ \A d \in Creators \ {c} : pc'[d] = pc[d]
      BY <2>2
    <3>4. /\ wpc'[w] = "enter" /\ warg'[w] = arg[c] /\ asked'[w] = want[c]
          /\ \A v \in Workers \ {w} : /\ wpc'[v] = wpc[v] /\ warg'[v] = warg[v]
                                     /\ asked'[v] = asked[v] /\ job'[v] = job[v]
      BY <3>1
    <3>5. \A v \in alive : v # w /\ v \in Workers BY <3>1
    <3>6. \A b \in Blocks : CreatorOwns(c, b) <=> b = arg[c] BY <3>2
    <3>7. \A b \in Blocks : ~CreatorOwns(c, b)' /\ (WorkerOwns(w, b)' <=> b = arg[c])
      BY <3>1, <3>3, <3>4
    <3>8. \A d \in Creators \ {c}, b \in Blocks : CreatorOwns(d, b)' <=> CreatorOwns(d, b)
      BY <3>2, <3>3
    <3>9. \A v \in Workers \ {w}, b \in Blocks : WorkerOwns(v, b)' <=> WorkerOwns(v, b)
      BY <3>1, <3>4
    <3>10. \A b \in Blocks : ~WorkerOwns(w, b) BY <3>1
    <3>11. arg[c] \in Blocks /\ heap[arg[c]] = want[c] /\ heap[arg[c]] # Free
      BY <3>2
    <3>12. \A d \in Creators : pc'[d] \in {"fill", "create", "undo"} =>
             /\ arg'[d] \in Blocks /\ heap'[arg'[d]] # Free
             /\ want'[d] \in Jobs
             /\ pc'[d] = "create" => heap'[arg'[d]] = want'[d]
      BY <3>2, <3>3
    <3>13. \A v \in alive' :
             /\ wpc'[v] \in {"enter", "free"} => warg'[v] \in Blocks /\ heap'[warg'[v]] # Free
             /\ wpc'[v] = "enter" => heap'[warg'[v]] = asked'[v]
             /\ wpc'[v] # "enter" => job'[v] = asked'[v]
      BY <3>1, <3>2, <3>4, <3>5, <3>11
    <3>14. \A b \in Blocks : heap'[b] # Free =>
             (\E d \in Creators : CreatorOwns(d, b)') \/ (\E v \in Workers : WorkerOwns(v, b)')
      <4>1. SUFFICES ASSUME NEW b \in Blocks, heap[b] # Free
                     PROVE  \/ \E d \in Creators : CreatorOwns(d, b)'
                            \/ \E v \in Workers : WorkerOwns(v, b)'
        BY <3>2
      <4>2. (\E d \in Creators : CreatorOwns(d, b)) \/ (\E v \in Workers : WorkerOwns(v, b))
        BY <4>1
      <4>3. w \in Workers BY <3>1
      <4> HIDE DEF CreatorOwns, WorkerOwns, TypeOK, BlockInv
      <4>4. QED BY <3>6, <3>7, <3>8, <3>9, <3>10, <4>2, <4>3
    <3>15. \A b \in Blocks :
             /\ \A d, e \in Creators : CreatorOwns(d, b) /\ CreatorOwns(e, b) => d = e
             /\ \A v, u \in Workers : WorkerOwns(v, b) /\ WorkerOwns(u, b) => v = u
             /\ \A d \in Creators, v \in Workers : ~(CreatorOwns(d, b) /\ WorkerOwns(v, b))
      BY DEF BlockInv
    <3>16. \A b \in Blocks :
             /\ \A d, e \in Creators : CreatorOwns(d, b)' /\ CreatorOwns(e, b)' => d = e
             /\ \A v, u \in Workers : WorkerOwns(v, b)' /\ WorkerOwns(u, b)' => v = u
             /\ \A d \in Creators, v \in Workers : ~(CreatorOwns(d, b)' /\ WorkerOwns(v, b)')
      <4> HIDE DEF CreatorOwns, WorkerOwns, TypeOK, BlockInv
      <4>1. QED BY <3>6, <3>7, <3>8, <3>9, <3>15
    <3>17. QED
      <4> HIDE DEF CreatorOwns, WorkerOwns, TypeOK
      <4>1. QED BY <3>12, <3>13, <3>14, <3>16
  <2>3. QED BY <1>3, <2>1, <2>2 DEF Create, Goto
<1>4. ASSUME NEW c \in Creators, Undo(c) PROVE BlockInv'
  BY <1>4 DEF Undo, Goto
<1>5. ASSUME NEW c \in Creators, Detach(c) PROVE BlockInv'
  BY <1>5 DEF Detach, Goto
<1>6. ASSUME NEW w \in Workers, Take(w) PROVE BlockInv'
  BY <1>6 DEF Take, WGoto
<1>7. ASSUME NEW w \in Workers, FreeArg(w) PROVE BlockInv'
  BY <1>7 DEF FreeArg, WGoto
<1>8. ASSUME NEW w \in Workers, Return(w) PROVE BlockInv'
  BY <1>8, SMTT(30) DEF Return
<1>9. CASE UNCHANGED vars BY <1>9 DEF vars
<1> HIDE DEF TypeOK, BlockInv, CreatorOwns, WorkerOwns
<1>10. QED BY <1>1, <1>2, <1>3, <1>4, <1>5, <1>6, <1>7, <1>8, <1>9 DEF Next

LEMMA DetachStep ==
    ASSUME TypeOK, DetachInv, [Next]_vars PROVE DetachInv'
<1> USE DEF TypeOK, DetachInv, DetachesItsOwn, creatorVars, workerVars
<1>1. ASSUME NEW c \in Creators, NEW j \in Jobs, Allocate(c, j) PROVE DetachInv'
  BY <1>1 DEF Allocate
<1>2. ASSUME NEW c \in Creators, Fill(c) PROVE DetachInv'
  BY <1>2 DEF Fill, Goto
<1>3. ASSUME NEW c \in Creators, Create(c) PROVE DetachInv'
  BY <1>3 DEF Create, Goto
<1>4. ASSUME NEW c \in Creators, Undo(c) PROVE DetachInv'
  BY <1>4 DEF Undo, Goto
<1>5. ASSUME NEW c \in Creators, Detach(c) PROVE DetachInv'
  BY <1>5 DEF Detach, Goto
<1>6. ASSUME NEW w \in Workers, Take(w) PROVE DetachInv'
  BY <1>6 DEF Take, WGoto
<1>7. ASSUME NEW w \in Workers, FreeArg(w) PROVE DetachInv'
  BY <1>7 DEF FreeArg, WGoto
<1>8. ASSUME NEW w \in Workers, Return(w) PROVE DetachInv'
  BY <1>8 DEF Return
<1>9. CASE UNCHANGED vars BY <1>9 DEF vars
<1>10. QED BY <1>1, <1>2, <1>3, <1>4, <1>5, <1>6, <1>7, <1>8, <1>9 DEF Next

LEMMA ThreadInvariant == Spec => [](TypeOK /\ BlockInv /\ DetachInv)
<1>1. Init => TypeOK /\ BlockInv /\ DetachInv
  BY DEF Init, TypeOK, BlockInv, DetachInv, DetachesItsOwn, CreatorOwns, WorkerOwns
<1>2. QED BY <1>1, TypeStep, BlockStep, DetachStep, PTL DEF Spec

(* Every thread runs the job it was started for, however creators and       *)
(* threads take turns and whichever calls fail.                             *)
THEOREM RunsAsked == Spec => []RunsWhatWasAsked
<1>1. BlockInv => RunsWhatWasAsked
  BY DEF BlockInv, RunsWhatWasAsked
<1>2. QED BY <1>1, ThreadInvariant, PTL

LEMMA OneOwnerHolds == ASSUME TypeOK, BlockInv PROVE OneOwner
<1> SUFFICES ASSUME NEW b \in Blocks
             PROVE  Cardinality(Owners(b)) = IF heap[b] = Free THEN 0 ELSE 1
  BY DEF OneOwner
<1>1. ASSUME NEW o \in Owners(b)
      PROVE  \/ o \in Creators /\ CreatorOwns(o, b)
             \/ o \in Workers /\ WorkerOwns(o, b)
  <2>1. CASE o \in {c \in Creators : arg[c] = b /\ pc[c] \in {"fill", "create", "undo"}}
    BY <2>1 DEF CreatorOwns
  <2>2. CASE o \in {w \in alive : warg[w] = b /\ wpc[w] \in {"enter", "free"}}
    BY <2>2 DEF WorkerOwns, TypeOK
  <2>3. QED BY <2>1, <2>2 DEF Owners
<1>2. /\ \A c \in Creators : CreatorOwns(c, b) => c \in Owners(b)
      /\ \A w \in Workers : WorkerOwns(w, b) => w \in Owners(b)
  BY DEF Owners, CreatorOwns, WorkerOwns
<1>3. CASE heap[b] = Free
  <2>1. Owners(b) = {}
    BY <1>1, <1>3 DEF BlockInv, CreatorOwns, WorkerOwns
  <2>2. QED BY <1>3, <2>1, FS_EmptySet
<1>4. CASE heap[b] # Free
  <2>1. PICK o : o \in Owners(b) BY <1>2, <1>4 DEF BlockInv
  <2>2. \A p \in Owners(b) : p = o BY <1>1, <2>1 DEF BlockInv
  <2>3. Owners(b) = {o} BY <2>1, <2>2
  <2>4. QED BY <1>4, <2>3, FS_Singleton
<1>5. QED BY <1>3, <1>4

(* No block is freed twice or forgotten, no thread id detached that is not  *)
(* the creator's own, for any number of creators, threads and blocks.       *)
THEOREM LeaksNothing == Spec => []NothingLeaks
<1>1. TypeOK /\ BlockInv /\ DetachInv => NothingLeaks
  BY OneOwnerHolds DEF DetachInv, NothingLeaks
<1>2. QED BY <1>1, ThreadInvariant, PTL
=============================================================================
