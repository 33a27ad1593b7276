------------------------- MODULE PluginFilesProofs -------------------------
(***************************************************************************)
(* Theorems about PluginFiles, for any number of threads, rows, streams    *)
(* and paths.                                                              *)
(***************************************************************************)
EXTENDS PluginFiles, FiniteSetTheorems, TLAPS

Labels == {"game", "dispatch", "loading", "track", "scan", "claim", "name",
           "look", "clear", "fclose"}

TypeOK ==
    /\ loaded \in BOOLEAN /\ onClose \in BOOLEAN
    /\ g_open_files \in [Rows -> [fp : Streams \cup {NULL}, path : Paths \cup {NULL}]]
    /\ opened \in [Streams -> Paths \cup {NULL}]
    /\ pc \in [Threads -> Labels]
    /\ fp \in [Threads -> Streams \cup {NULL}]
    /\ path \in [Threads -> Paths \cup {NULL}]
    /\ row \in [Threads -> Rows]
    /\ held \in SUBSET Streams /\ untracked \in SUBSET Streams

(* A thread on its way to a row for f, and one on its way from it.          *)
Opening == {"dispatch", "loading", "track", "scan", "claim"}
Closing == {"look", "clear", "fclose"}
Has(t, f) == pc[t] # "game" /\ fp[t] = f

(* The plugin is loaded once, by one thread; rows are used only after.      *)
LoadInv ==
    /\ ~loaded => ~onClose
    /\ \A t \in Threads : pc[t] = "loading" => loaded /\ ~onClose
    /\ \A t, u \in Threads : pc[t] = "loading" /\ pc[u] = "loading" => t = u
    /\ \A t \in Threads : pc[t] = "loading" =>
          \A u \in Threads : pc[u] \notin {"scan", "claim", "name"}
    /\ \A t \in Threads : pc[t] \in {"scan", "claim", "name"} => onClose
    /\ \A t \in Threads : pc[t] \in {"scan", "claim", "name"} \cup Closing => fp[t] # NULL

(* An open stream is one thread's or the game's.                            *)
OwnerInv ==
    /\ \A f \in held : opened[f] # NULL
    /\ \A t \in Threads, f \in Streams : Has(t, f) => opened[f] # NULL /\ f \notin held
    /\ \A t, u \in Threads, f \in Streams : Has(t, f) /\ Has(u, f) => t = u

(* A stream is in one row at most, and only after its thread has claimed    *)
(* one; a thread that closes it has passed no row it is in.                 *)
RowInv ==
    /\ \A r \in Rows : g_open_files[r].fp # NULL =>
          /\ onClose /\ opened[g_open_files[r].fp] # NULL
          /\ \A t \in Threads : ~(pc[t] \in Opening /\ fp[t] = g_open_files[r].fp)
    /\ \A q, r \in Rows : g_open_files[q].fp = g_open_files[r].fp =>
          q = r \/ g_open_files[q].fp = NULL
    /\ \A t \in Threads, r \in Rows : g_open_files[r].fp = fp[t] =>
          /\ pc[t] = "look" => r >= row[t]
          /\ pc[t] = "clear" => r = row[t]
          /\ pc[t] # "fclose"

ThreadStep(t) ==
    \/ \E p \in Paths : OpenFile(t, p)
    \/ DispatchLoad(t) \/ DispatchLoaded(t) \/ DispatchAgain(t)
    \/ TrackNothing(t) \/ TrackScan(t) \/ ScanNext(t) \/ ScanFound(t)
    \/ Claim(t) \/ Name(t)
    \/ \E f \in Streams : CloseFile(t, f)
    \/ LookNext(t) \/ LookFound(t) \/ Clear(t) \/ FClose(t)

-----------------------------------------------------------------------------
LEMMA NextRow == ASSUME NEW r \in Rows, r < PlugTrack PROVE r + 1 \in Rows
BY PluginAssumption DEF Rows

LEMMA TypeStep == ASSUME TypeOK, LoadInv, NEW t \in Threads, ThreadStep(t) PROVE TypeOK'
<1> USE PluginAssumption DEF TypeOK, Goto, tableVars, Labels, Opened
<1>1. ASSUME NEW p \in Paths, OpenFile(t, p) PROVE TypeOK'
  <2>1. opened' \in [Streams -> Paths \cup {NULL}] /\ fp' \in [Threads -> Streams \cup {NULL}]
    <3>1. CASE fp' = [fp EXCEPT ![t] = NULL] /\ opened' = opened BY <3>1
    <3>2. CASE \E f \in Streams : fp' = [fp EXCEPT ![t] = f] /\ opened' = [opened EXCEPT ![f] = p]
      BY <3>2
    <3>3. QED BY <1>1, <3>1, <3>2 DEF OpenFile
  <2>2. QED BY <1>1, <2>1 DEF OpenFile
<1>2. CASE DispatchLoad(t) BY <1>2 DEF DispatchLoad
<1>3. CASE DispatchLoaded(t) BY <1>3 DEF DispatchLoaded
<1>4. CASE DispatchAgain(t) BY <1>4 DEF DispatchAgain
<1>5. CASE TrackNothing(t) BY <1>5 DEF TrackNothing
<1>6. CASE TrackScan(t) BY <1>6 DEF TrackScan, Rows
<1>7. CASE ScanNext(t)
  <2>1. row' \in [Threads -> Rows] BY <1>7, NextRow DEF ScanNext, More
  <2>2. fp[t] \in Streams BY <1>7 DEF ScanNext, LoadInv
  <2>3. QED BY <1>7, <2>1, <2>2 DEF ScanNext
<1>8. CASE ScanFound(t) BY <1>8 DEF ScanFound
<1>9. CASE Claim(t)
  <2>1. g_open_files' \in [Rows -> [fp : Streams \cup {NULL}, path : Paths \cup {NULL}]]
    BY <1>9 DEF Claim
  <2>2. QED BY <1>9, <2>1 DEF Claim
<1>10. CASE Name(t)
  <2>1. g_open_files' \in [Rows -> [fp : Streams \cup {NULL}, path : Paths \cup {NULL}]]
    BY <1>10 DEF Name
  <2>2. QED BY <1>10, <2>1 DEF Name
<1>11. ASSUME NEW f \in Streams, CloseFile(t, f) PROVE TypeOK' BY <1>11 DEF CloseFile, Rows
<1>12. CASE LookNext(t)
  <2>1. row' \in [Threads -> Rows] BY <1>12, NextRow DEF LookNext, More
  <2>2. QED BY <1>12, <2>1 DEF LookNext
<1>13. CASE LookFound(t) BY <1>13 DEF LookFound
<1>14. CASE Clear(t)
  <2>1. g_open_files' \in [Rows -> [fp : Streams \cup {NULL}, path : Paths \cup {NULL}]]
    BY <1>14 DEF Clear
  <2>2. QED BY <1>14, <2>1 DEF Clear
<1>15. CASE FClose(t) BY <1>15 DEF FClose
<1>16. QED BY <1>1, <1>2, <1>3, <1>4, <1>5, <1>6, <1>7, <1>8, <1>9, <1>10,
              <1>11, <1>12, <1>13, <1>14, <1>15 DEF ThreadStep

LEMMA LoadStep ==
    ASSUME TypeOK, LoadInv, NEW t \in Threads, ThreadStep(t) PROVE LoadInv'
<1> USE PluginAssumption DEF TypeOK, LoadInv, Goto, tableVars, Labels, Closing
<1>1. ASSUME NEW p \in Paths, OpenFile(t, p) PROVE LoadInv' BY <1>1 DEF OpenFile
<1>2. CASE DispatchLoad(t) BY <1>2 DEF DispatchLoad
<1>3. CASE DispatchLoaded(t) BY <1>3 DEF DispatchLoaded
<1>4. CASE DispatchAgain(t) BY <1>4 DEF DispatchAgain
<1>5. CASE TrackNothing(t) BY <1>5 DEF TrackNothing
<1>6. CASE TrackScan(t) BY <1>6 DEF TrackScan
<1>7. CASE ScanNext(t) BY <1>7 DEF ScanNext
<1>8. CASE ScanFound(t) BY <1>8 DEF ScanFound
<1>9. CASE Claim(t) BY <1>9 DEF Claim
<1>10. CASE Name(t) BY <1>10 DEF Name
<1>11. ASSUME NEW f \in Streams, CloseFile(t, f) PROVE LoadInv' BY <1>11 DEF CloseFile
<1>12. CASE LookNext(t) BY <1>12 DEF LookNext
<1>13. CASE LookFound(t) BY <1>13 DEF LookFound
<1>14. CASE Clear(t) BY <1>14 DEF Clear
<1>15. CASE FClose(t) BY <1>15 DEF FClose
<1>16. QED BY <1>1, <1>2, <1>3, <1>4, <1>5, <1>6, <1>7, <1>8, <1>9, <1>10,
              <1>11, <1>12, <1>13, <1>14, <1>15 DEF ThreadStep

LEMMA OwnerStep ==
    ASSUME TypeOK, LoadInv, OwnerInv, NEW t \in Threads, ThreadStep(t) PROVE OwnerInv'
<1> USE PluginAssumption DEF TypeOK, OwnerInv, Has, Goto, tableVars, Opened
<1>1. ASSUME NEW p \in Paths, OpenFile(t, p) PROVE OwnerInv' BY <1>1 DEF OpenFile
<1>2. CASE DispatchLoad(t) BY <1>2 DEF DispatchLoad
<1>3. CASE DispatchLoaded(t) BY <1>3 DEF DispatchLoaded
<1>4. CASE DispatchAgain(t) BY <1>4 DEF DispatchAgain
<1>5. CASE TrackNothing(t) BY <1>5 DEF TrackNothing
<1>6. CASE TrackScan(t) BY <1>6 DEF TrackScan
<1>7. CASE ScanNext(t)
  <2>1. UNCHANGED <<opened, fp>> /\ pc[t] = "scan" /\ pc'[t] \in {"scan", "game"}
    BY <1>7 DEF ScanNext
  <2>2. \A u \in Threads : u # t => pc'[u] = pc[u] BY <1>7 DEF ScanNext
  <2>3. held' = held \/ (held' = held \cup {fp[t]} /\ fp[t] # NULL /\ pc'[t] = "game")
    BY <1>7 DEF ScanNext, LoadInv
  <2>4. QED BY <2>1, <2>2, <2>3, SMTT(30)
<1>8. CASE ScanFound(t) BY <1>8 DEF ScanFound
<1>9. CASE Claim(t) BY <1>9 DEF Claim
<1>10. CASE Name(t) BY <1>10 DEF Name
<1>11. ASSUME NEW f \in Streams, CloseFile(t, f) PROVE OwnerInv' BY <1>11 DEF CloseFile
<1>12. CASE LookNext(t) BY <1>12 DEF LookNext
<1>13. CASE LookFound(t) BY <1>13 DEF LookFound
<1>14. CASE Clear(t) BY <1>14 DEF Clear
<1>15. CASE FClose(t) BY <1>15 DEF FClose, LoadInv
<1>16. QED BY <1>1, <1>2, <1>3, <1>4, <1>5, <1>6, <1>7, <1>8, <1>9, <1>10,
              <1>11, <1>12, <1>13, <1>14, <1>15 DEF ThreadStep

LEMMA RowStep ==
    ASSUME TypeOK, LoadInv, OwnerInv, RowInv, NEW t \in Threads, ThreadStep(t)
    PROVE  RowInv'
<1> USE PluginAssumption DEF TypeOK, RowInv, Opening, Goto, tableVars
<1>1. ASSUME NEW p \in Paths, OpenFile(t, p) PROVE RowInv' BY <1>1 DEF OpenFile
<1>2. CASE DispatchLoad(t) BY <1>2 DEF DispatchLoad
<1>3. CASE DispatchLoaded(t) BY <1>3 DEF DispatchLoaded, LoadInv
<1>4. CASE DispatchAgain(t) BY <1>4 DEF DispatchAgain
<1>5. CASE TrackNothing(t) BY <1>5 DEF TrackNothing
<1>6. CASE TrackScan(t) BY <1>6 DEF TrackScan
<1>7. CASE ScanNext(t) BY <1>7 DEF ScanNext
<1>8. CASE ScanFound(t) BY <1>8 DEF ScanFound
<1>9. CASE Claim(t) BY <1>9 DEF Claim, LoadInv, OwnerInv, Has
<1>10. CASE Name(t) BY <1>10 DEF Name
<1>11. ASSUME NEW f \in Streams, CloseFile(t, f) PROVE RowInv' BY <1>11 DEF CloseFile, Rows
<1>12. CASE LookNext(t) BY <1>12 DEF LookNext, Rows, More
<1>13. CASE LookFound(t)
  <2>1. fp[t] # NULL BY <1>13 DEF LookFound, LoadInv, Closing
  <2>2. \A r \in Rows : g_open_files[r].fp = fp[t] => r = row[t]
    BY <1>13, <2>1 DEF LookFound
  <2>3. UNCHANGED <<g_open_files, opened, fp, row, onClose>> BY <1>13 DEF LookFound
  <2>4. pc' = [pc EXCEPT ![t] = "clear"] /\ pc[t] = "look" BY <1>13 DEF LookFound
  <2>5. QED BY <2>2, <2>3, <2>4
<1>14. CASE Clear(t)
  <2>1. fp[t] # NULL /\ pc[t] = "clear" BY <1>14 DEF Clear, LoadInv, Closing
  <2>2. pc' = [pc EXCEPT ![t] = "fclose"] /\ UNCHANGED <<opened, fp, row, onClose>>
    BY <1>14 DEF Clear
  <2>3. \A r \in Rows : g_open_files'[r].fp = IF r = row[t] THEN NULL ELSE g_open_files[r].fp
    BY <1>14 DEF Clear
  <2>4. \A r \in Rows : g_open_files'[r].fp # fp[t] BY <2>1, <2>3
  <2>5. \A r \in Rows : g_open_files'[r].fp # NULL => g_open_files'[r].fp = g_open_files[r].fp
    BY <2>3
  <2>6. ASSUME NEW u \in Threads, NEW r \in Rows, g_open_files'[r].fp = fp[u]
        PROVE  /\ pc'[u] = "look" => r >= row[u]
               /\ pc'[u] = "clear" => r = row[u]
               /\ pc'[u] # "fclose"
    <3>1. u # t BY <2>4, <2>6
    <3>2. pc'[u] = pc[u] BY <2>2, <3>1
    <3>3. CASE pc[u] \in Closing
      <4>1. fp[u] # NULL BY <3>3 DEF LoadInv
      <4>2. QED BY <2>5, <2>6, <3>2, <4>1
    <3>4. QED BY <3>2, <3>3 DEF Closing
  <2>7. QED BY <2>2, <2>3, <2>5, <2>6
<1>15. CASE FClose(t) BY <1>15 DEF FClose, LoadInv, OwnerInv, Has
<1>16. QED BY <1>1, <1>2, <1>3, <1>4, <1>5, <1>6, <1>7, <1>8, <1>9, <1>10,
              <1>11, <1>12, <1>13, <1>14, <1>15 DEF ThreadStep

-----------------------------------------------------------------------------
TableInv == TypeOK /\ LoadInv /\ OwnerInv /\ RowInv

LEMMA TableStart == Init => TableInv
<1> SUFFICES ASSUME Init PROVE TableInv OBVIOUS
<1>1. TypeOK
  <2>1. g_open_files \in [Rows -> [fp : Streams \cup {NULL}, path : Paths \cup {NULL}]]
    BY DEF Init
  <2>2. row \in [Threads -> Rows] BY PluginAssumption DEF Init, Rows
  <2>3. pc \in [Threads -> Labels] /\ fp \in [Threads -> Streams \cup {NULL}]
        /\ path \in [Threads -> Paths \cup {NULL}] /\ opened \in [Streams -> Paths \cup {NULL}]
    BY DEF Init, Labels
  <2>4. QED BY <2>1, <2>2, <2>3 DEF Init, TypeOK
<1>2. LoadInv BY DEF Init, LoadInv, Closing
<1>3. OwnerInv BY DEF Init, OwnerInv, Has
<1>4. RowInv BY DEF Init, RowInv
<1>5. QED BY <1>1, <1>2, <1>3, <1>4 DEF TableInv

LEMMA TableStep == ASSUME TableInv, [Next]_vars PROVE TableInv'
<1>1. CASE Next
  <2>1. PICK t \in Threads : ThreadStep(t) BY <1>1 DEF Next, ThreadStep
  <2>2. QED BY <2>1, TypeStep, LoadStep, OwnerStep, RowStep DEF TableInv
<1>2. CASE UNCHANGED vars
  BY <1>2 DEF vars, TableInv, TypeOK, LoadInv, OwnerInv, RowInv, Has
<1>3. QED BY <1>1, <1>2

LEMMA TableInvariant == Spec => []TableInv
BY TableStart, TableStep, PTL DEF Spec

(* However the threads of the game overlap in mac_fopen and mac_fclose, no  *)
(* row of the table is lost: between calls each taken row belongs to an     *)
(* open stream and no stream has two.                                       *)
THEOREM RowsComeBack == Spec => []RowsReturn
<1>1. TableInv => RowsReturn BY DEF TableInv, RowInv, RowsReturn
<1>2. QED BY <1>1, TableInvariant, PTL

-----------------------------------------------------------------------------
(* What holds as long as no two threads have been in these functions at     *)
(* once.  A thread in them is alone; a claimed row stays the claimer's; the *)
(* path beside a stream is that of its file.                                *)
Alone == \A t, u \in Threads : pc[t] # "game" /\ pc[u] # "game" => t = u

Naming(r) == \E t \in Threads : pc[t] = "name" /\ row[t] = r

NamedInv ==
    /\ \A r \in Rows : g_open_files[r].fp # NULL =>
          Naming(r) \/ g_open_files[r].path = opened[g_open_files[r].fp]
    /\ \A t \in Threads :
          /\ pc[t] = "claim" => g_open_files[row[t]].fp = NULL
          /\ pc[t] \in {"name", "clear"} => g_open_files[row[t]].fp = fp[t]
          /\ pc[t] \in Opening \cup {"name"} /\ fp[t] # NULL => path[t] = opened[fp[t]]

(* An open stream is on its way to a row, in one, without one for good, or  *)
(* about to be closed with the plugin's knowledge.                          *)
Known(f) ==
    \/ f \in untracked
    \/ \E r \in Rows : g_open_files[r].fp = f
    \/ \E t \in Threads : pc[t] \in Opening /\ fp[t] = f
    \/ \E t \in Threads : pc[t] \in {"clear", "fclose"} /\ fp[t] = f /\ told[2] # NULL

KnownInv == \A f \in Streams : opened[f] # NULL => Known(f)

HeardInv ==
    /\ told[2] \in {NULL, told[1]}
    /\ \A t \in Threads : pc[t] = "clear" => told[2] # NULL

Turn == Alone /\ NamedInv /\ KnownInv /\ HeardInv

LEMMA FewAreAlone ==
    ASSUME NEW S, IsFiniteSet(S), ~(Cardinality(S) > 1), NEW a \in S, NEW b \in S PROVE a = b
<1> SUFFICES ASSUME a # b PROVE FALSE OBVIOUS
<1>1. IsFiniteSet({a}) /\ Cardinality({a}) = 1 BY FS_Singleton
<1>2. Cardinality({a} \cup {b}) = 2 BY <1>1, FS_AddElement
<1>3. Cardinality({a} \cup {b}) <= Cardinality(S) BY FS_Subset
<1>4. Cardinality(S) \in Nat BY FS_CardinalityType
<1>5. QED BY <1>2, <1>3, <1>4

LEMMA OthersInGame ==
    ASSUME TypeOK, Alone, Alone', NEW t \in Threads, ThreadStep(t),
           NEW u \in Threads, u # t
    PROVE  pc[u] = "game" /\ pc'[u] = "game"
<1>1. pc'[u] = pc[u]
  BY DEF TypeOK, ThreadStep, Goto, OpenFile, DispatchLoad, DispatchLoaded, DispatchAgain,
     TrackNothing, TrackScan, ScanNext, ScanFound, Claim, Name, CloseFile, LookNext,
     LookFound, Clear, FClose
<1>2. pc[t] # "game" \/ pc'[t] # "game"
  BY DEF TypeOK, ThreadStep, Goto, OpenFile, DispatchLoad, DispatchLoaded, DispatchAgain,
     TrackNothing, TrackScan, ScanNext, ScanFound, Claim, Name, CloseFile, LookNext,
     LookFound, Clear, FClose
<1>3. QED BY <1>1, <1>2 DEF Alone

LEMMA NamedStep ==
    ASSUME TableInv, Turn, Alone', NEW t \in Threads, ThreadStep(t) PROVE NamedInv'
<1> USE DEF TableInv, TypeOK, Turn, NamedInv, Naming, Goto, tableVars
<1>0. \A u \in Threads : u # t => pc[u] = "game" /\ pc'[u] = "game" BY OthersInGame
<1> USE <1>0
<1>1. ASSUME NEW p \in Paths, OpenFile(t, p) PROVE NamedInv' BY <1>1 DEF OpenFile, RowInv, Opening
<1>2. CASE DispatchLoad(t) BY <1>2 DEF DispatchLoad, Opening
<1>3. CASE DispatchLoaded(t) BY <1>3 DEF DispatchLoaded, Opening
<1>4. CASE DispatchAgain(t) BY <1>4 DEF DispatchAgain, Opening
<1>5. CASE TrackNothing(t) BY <1>5 DEF TrackNothing, Opening
<1>6. CASE TrackScan(t) BY <1>6 DEF TrackScan, Opening
<1>7. CASE ScanNext(t) BY <1>7 DEF ScanNext, Opening
<1>8. CASE ScanFound(t) BY <1>8 DEF ScanFound, Opening
<1>9. CASE Claim(t) BY <1>9 DEF Claim, Opening
<1>10. CASE Name(t) BY <1>10 DEF Name, Opening
<1>11. ASSUME NEW f \in Streams, CloseFile(t, f) PROVE NamedInv' BY <1>11 DEF CloseFile, Opening
<1>12. CASE LookNext(t) BY <1>12 DEF LookNext, Opening
<1>13. CASE LookFound(t) BY <1>13 DEF LookFound, Opening
<1>14. CASE Clear(t) BY <1>14 DEF Clear, Opening
<1>15. CASE FClose(t)
  <2>1. \A r \in Rows : g_open_files[r].fp # fp[t] BY <1>15 DEF FClose, RowInv
  <2>2. pc[t] = "fclose" /\ pc' = [pc EXCEPT ![t] = "game"]
        /\ UNCHANGED <<g_open_files, fp, row, path>>
    BY <1>15 DEF FClose
  <2>3. \A f \in Streams : f # fp[t] => opened'[f] = opened[f] BY <1>15 DEF FClose
  <2>4. QED BY <2>1, <2>2, <2>3, PluginAssumption DEF Opening
<1>16. QED BY <1>1, <1>2, <1>3, <1>4, <1>5, <1>6, <1>7, <1>8, <1>9, <1>10,
              <1>11, <1>12, <1>13, <1>14, <1>15 DEF ThreadStep

LEMMA KnownStep ==
    ASSUME TableInv, Turn, Alone', NEW t \in Threads, ThreadStep(t) PROVE KnownInv'
<1> USE DEF TableInv, TypeOK, Turn, KnownInv, Known, Goto, tableVars, Opening
<1>0. \A u \in Threads : u # t => pc[u] = "game" /\ pc'[u] = "game" BY OthersInGame
<1> USE <1>0
<1>1. ASSUME NEW p \in Paths, OpenFile(t, p) PROVE KnownInv' BY <1>1 DEF OpenFile
<1>2. CASE DispatchLoad(t) BY <1>2 DEF DispatchLoad
<1>3. CASE DispatchLoaded(t) BY <1>3 DEF DispatchLoaded
<1>4. CASE DispatchAgain(t) BY <1>4 DEF DispatchAgain
<1>5. CASE TrackNothing(t)
  <2>1. UNCHANGED <<g_open_files, opened, fp>> /\ pc[t] = "track" BY <1>5 DEF TrackNothing
  <2>2. untracked \subseteq untracked' BY <1>5 DEF TrackNothing
  <2>3. \A f \in Streams : f = fp[t] => f \in untracked'
    BY <1>5, PluginAssumption DEF TrackNothing
  <2>4. QED BY <2>1, <2>2, <2>3
<1>6. CASE TrackScan(t) BY <1>6 DEF TrackScan
<1>7. CASE ScanNext(t) BY <1>7 DEF ScanNext
<1>8. CASE ScanFound(t) BY <1>8 DEF ScanFound
<1>9. CASE Claim(t)
  <2>1. UNCHANGED <<untracked, opened, fp>> /\ pc[t] = "claim" BY <1>9 DEF Claim
  <2>2. g_open_files[row[t]].fp = NULL BY <2>1 DEF NamedInv
  <2>3. \A r \in Rows : g_open_files'[r].fp = IF r = row[t] THEN fp[t] ELSE g_open_files[r].fp
    BY <1>9 DEF Claim
  <2>4. ASSUME NEW f \in Streams, opened[f] # NULL PROVE Known(f)'
    <3>1. f # NULL BY PluginAssumption
    <3>2. CASE f = fp[t] BY <2>3, <3>2
    <3>3. CASE f # fp[t]
      <4>1. f \in untracked \/ \E r \in Rows : g_open_files[r].fp = f
        BY <2>1, <2>4, <3>3
      <4>2. ASSUME NEW r \in Rows, g_open_files[r].fp = f PROVE g_open_files'[r].fp = f
        BY <2>2, <2>3, <3>1, <4>2
      <4>3. QED BY <2>1, <4>1, <4>2
    <3>4. QED BY <3>2, <3>3
  <2>5. QED BY <2>1, <2>4
<1>10. CASE Name(t) BY <1>10 DEF Name, NamedInv
<1>11. ASSUME NEW f \in Streams, CloseFile(t, f) PROVE KnownInv' BY <1>11 DEF CloseFile
<1>12. CASE LookNext(t) BY <1>12 DEF LookNext
<1>13. CASE LookFound(t)
  <2>1. UNCHANGED <<g_open_files, untracked, opened, fp>> /\ pc[t] = "look"
    BY <1>13 DEF LookFound
  <2>2. QED BY <2>1
<1>14. CASE Clear(t)
  <2>1. UNCHANGED <<untracked, opened, fp, told>> /\ pc[t] = "clear" /\ pc'[t] = "fclose"
    BY <1>14 DEF Clear
  <2>2. g_open_files[row[t]].fp = fp[t] /\ told[2] # NULL BY <2>1 DEF NamedInv, HeardInv
  <2>3. \A r \in Rows : r # row[t] => g_open_files'[r].fp = g_open_files[r].fp
    BY <1>14 DEF Clear
  <2>4. ASSUME NEW f \in Streams, opened[f] # NULL PROVE Known(f)'
    <3>1. CASE f = fp[t] BY <2>1, <2>2, <3>1
    <3>2. CASE f # fp[t]
      <4>1. f \in untracked \/ \E r \in Rows : g_open_files[r].fp = f
        BY <2>1, <2>4, <3>2
      <4>2. ASSUME NEW r \in Rows, g_open_files[r].fp = f PROVE g_open_files'[r].fp = f
        BY <2>2, <2>3, <3>2, <4>2
      <4>3. QED BY <2>1, <4>1, <4>2
    <3>3. QED BY <3>1, <3>2
  <2>5. QED BY <2>1, <2>4
<1>15. CASE FClose(t) BY <1>15 DEF FClose
<1>16. QED BY <1>1, <1>2, <1>3, <1>4, <1>5, <1>6, <1>7, <1>8, <1>9, <1>10,
              <1>11, <1>12, <1>13, <1>14, <1>15 DEF ThreadStep

LEMMA HeardStep ==
    ASSUME TableInv, Turn, Alone', NEW t \in Threads, ThreadStep(t) PROVE HeardInv'
<1> USE DEF TableInv, TypeOK, Turn, HeardInv, Goto, tableVars
<1>0. \A u \in Threads : u # t => pc[u] = "game" /\ pc'[u] = "game" BY OthersInGame
<1> USE <1>0
<1>1. ASSUME NEW p \in Paths, OpenFile(t, p) PROVE HeardInv' BY <1>1 DEF OpenFile
<1>2. CASE DispatchLoad(t) BY <1>2 DEF DispatchLoad
<1>3. CASE DispatchLoaded(t) BY <1>3 DEF DispatchLoaded
<1>4. CASE DispatchAgain(t) BY <1>4 DEF DispatchAgain
<1>5. CASE TrackNothing(t) BY <1>5 DEF TrackNothing
<1>6. CASE TrackScan(t) BY <1>6 DEF TrackScan
<1>7. CASE ScanNext(t) BY <1>7 DEF ScanNext
<1>8. CASE ScanFound(t) BY <1>8 DEF ScanFound
<1>9. CASE Claim(t) BY <1>9 DEF Claim
<1>10. CASE Name(t) BY <1>10 DEF Name
<1>11. ASSUME NEW f \in Streams, CloseFile(t, f) PROVE HeardInv' BY <1>11 DEF CloseFile
<1>12. CASE LookNext(t) BY <1>12 DEF LookNext
<1>13. CASE LookFound(t)
  <2>1. pc[t] = "look" /\ g_open_files[row[t]].fp = fp[t]
        /\ told' = <<opened[fp[t]], g_open_files[row[t]].path>>
    BY <1>13 DEF LookFound
  <2>2. fp[t] # NULL BY <2>1 DEF LoadInv, Closing
  <2>3. ~Naming(row[t]) BY <2>1 DEF Naming
  <2>4. g_open_files[row[t]].path = opened[fp[t]] BY <2>1, <2>2, <2>3 DEF NamedInv
  <2>5. opened[fp[t]] # NULL BY <2>1, <2>2 DEF OwnerInv, Has
  <2>6. QED BY <2>1, <2>4, <2>5
<1>14. CASE Clear(t) BY <1>14 DEF Clear
<1>15. CASE FClose(t) BY <1>15 DEF FClose
<1>16. QED BY <1>1, <1>2, <1>3, <1>4, <1>5, <1>6, <1>7, <1>8, <1>9, <1>10,
              <1>11, <1>12, <1>13, <1>14, <1>15 DEF ThreadStep
LEMMA TurnStep ==
    ASSUME TableInv, ~overlapped => Turn, [Next]_vars PROVE ~overlapped' => Turn'
<1>1. CASE Next
  <2> SUFFICES ASSUME ~overlapped' PROVE Turn' OBVIOUS
  <2>1. PICK t \in Threads : ThreadStep(t) BY <1>1 DEF Next, ThreadStep
  <2>2. ~overlapped /\ ~(Cardinality({v \in Threads : pc'[v] # "game"}) > 1) BY <1>1 DEF Next
  <2>3. IsFiniteSet({v \in Threads : pc'[v] # "game"}) BY FS_Subset, PluginAssumption
  <2>4. Alone' BY <2>2, <2>3, FewAreAlone DEF Alone
  <2>5. Turn BY <2>2
  <2>6. QED BY <2>1, <2>4, <2>5, NamedStep, KnownStep, HeardStep DEF Turn
<1>2. CASE UNCHANGED vars
  BY <1>2 DEF vars, Turn, Alone, NamedInv, Naming, KnownInv, Known, HeardInv
<1>3. QED BY <1>1, <1>2

LEMMA TurnStart == Init => Turn
<1> SUFFICES ASSUME Init PROVE Turn OBVIOUS
<1>1. Alone BY DEF Init, Alone
<1>2. NamedInv BY DEF Init, NamedInv, Opening
<1>3. KnownInv BY DEF Init, KnownInv
<1>4. HeardInv BY DEF Init, HeardInv
<1>5. QED BY <1>1, <1>2, <1>3, <1>4 DEF Turn

(* While the threads take turns the plugin hears of the close of each file  *)
(* the table had room for, under its own name, for any number of rows.      *)
THEOREM PluginHearsCloses == Spec => []PluginKnowsCloses
<1>1. TableInv /\ (~overlapped => Turn) => PluginKnowsCloses
  <2> SUFFICES ASSUME TableInv, ~overlapped => Turn PROVE PluginKnowsCloses OBVIOUS
  <2>1. NamesItsFile BY DEF NamesItsFile, Turn, HeardInv
  <2>2. ASSUME ~overlapped, NEW t \in Threads, pc[t] = "fclose"
        PROVE  told[2] # NULL \/ fp[t] \in untracked
    <3>1. fp[t] \in Streams
      BY <2>2, PluginAssumption DEF TableInv, TypeOK, LoadInv, Closing
    <3>2. Known(fp[t]) BY <2>2, <3>1 DEF TableInv, OwnerInv, Has, Turn, KnownInv
    <3>3. \A r \in Rows : g_open_files[r].fp # fp[t] BY <2>2 DEF TableInv, RowInv
    <3>4. \A u \in Threads : pc[u] \in Opening => FALSE
      BY <2>2 DEF Turn, Alone, Opening
    <3>5. QED BY <3>2, <3>3, <3>4 DEF Known
  <2>3. ClosesNoticed BY <2>2 DEF ClosesNoticed
  <2>4. QED BY <2>1, <2>3 DEF PluginKnowsCloses
<1>2. Spec => [](TableInv /\ (~overlapped => Turn))
  BY TableInvariant, TurnStart, TurnStep, PTL DEF Spec
<1>3. QED BY <1>1, <1>2, PTL
=============================================================================
