----------------------------- MODULE BootProofs -----------------------------
(***************************************************************************)
(* Theorems about Boot, for any table of functions, any host and any       *)
(* segments.                                                               *)
(***************************************************************************)
EXTENDS Boot, FiniteSetTheorems, TLAPS

Before == {"constructor", "open", "check", "map", "sdl"}
Later == {"slots", "win", "gl", "running"}

-----------------------------------------------------------------------------
(* The file. *)

(* Until check_binary has looked, what is open is what is on disk, unless   *)
(* an update came in between.                                               *)
FileInv ==
    /\ pc \in Stages \cup Exits /\ disk \in Files /\ judged \in BOOLEAN
    /\ pc \in {"constructor", "open"} => updated # "check"
    /\ pc \in {"constructor", "open", "check"} => ~judged
    /\ pc = "check" /\ updated # "check" => opened = disk
    /\ pc \in Stages \ {"constructor", "open", "check"} /\ judged /\ updated # "check" =>
          Entry(opened) = Entry("built")
    /\ pc \in {"sdl"} \cup Later => image = opened

LEMMA FileStep == ASSUME FileInv, [Next]_vars PROVE FileInv'
<1> USE DEF FileInv, Stages, Exits, Later, fileVars
<1>1. CASE Update BY <1>1 DEF Update
<1>2. CASE Constructor BY <1>2 DEF Constructor
<1>3. CASE Loads BY <1>3 DEF Loads
<1>4. CASE Open BY <1>4 DEF Open
<1>5. CASE check_binary
  <2>1. pc = "check" /\ UNCHANGED <<disk, updated, opened, image>>
    BY <1>5 DEF check_binary
  <2>2. judged' \in BOOLEAN BY <1>5, Zenon DEF check_binary
  <2>3. CASE judged'
    <3>1. pc' = IF Entry(disk) # Entry("built") THEN "exit1" ELSE "map"
      BY <1>5, <2>3 DEF check_binary
    <3>2. QED BY <2>1, <2>2, <3>1
  <2>4. CASE ~judged'
    <3>1. pc' = "map" BY <1>5, <2>4 DEF check_binary
    <3>2. QED BY <2>1, <2>2, <2>4, <3>1
  <2>5. QED BY <2>3, <2>4
<1>6. CASE mmap_segments BY <1>6 DEF mmap_segments
<1>7. CASE OpenSDL BY <1>7 DEF OpenSDL
<1>8. CASE RedirectHost BY <1>8 DEF RedirectHost
<1>9. CASE RedirectTrap BY <1>9 DEF RedirectTrap
<1>10. CASE WrapQuit BY <1>10 DEF WrapQuit
<1>11. CASE StubsAndWindows BY <1>11 DEF StubsAndWindows
<1>12. CASE install_gl_redirect BY <1>12 DEF install_gl_redirect
<1>13. CASE CallTrap BY <1>13 DEF CallTrap
<1>14. CASE CallInternal BY <1>14 DEF CallInternal
<1>15. CASE UNCHANGED vars BY <1>15 DEF vars
<1>16. QED BY <1>1, <1>2, <1>3, <1>4, <1>5, <1>6, <1>7, <1>8, <1>9, <1>10,
              <1>11, <1>12, <1>13, <1>14, <1>15 DEF Next

(* What runs has the entry point check_binary saw, whatever the segments    *)
(* and tables.                                                              *)
THEOREM EntryChecked == Spec => []EntryAgrees
<1>1. Init => FileInv BY DEF Init, FileInv, Stages, Later
<1>2. FileInv => EntryAgrees BY DEF FileInv, EntryAgrees, Stages, Later
<1>3. QED BY <1>1, <1>2, FileStep, PTL DEF Spec

-----------------------------------------------------------------------------
(* The memory. *)

(* The rows so far are in place, a reservation is still the game's.         *)
InPlace(k) ==
    \A p \in PagesOf(SegmentTable[k]) :
        LET s == SegmentTable[k]
        IN  /\ owner[p] = "game" /\ prot[p] = s.prot
            /\ holds[p] = IF s.offset = Zero THEN Zero ELSE s.offset + (p - s.first)

MemoryInv ==
    /\ owner \in [Pages -> Owners]
    /\ segment \in Nat \ {0}
    /\ pc = "constructor" => segment = 1 /\ failed = "none"
    /\ \A k \in DOMAIN SegmentTable : k < segment => InPlace(k)
    /\ va_reservation_done => \A p \in Pages : owner[p] \in {"reserved", "game"}
    /\ NoRaceLost

LEMMA RowFacts ==
    ASSUME NEW k \in DOMAIN SegmentTable
    PROVE  /\ k \in Nat \ {0} /\ PagesOf(SegmentTable[k]) \subseteq Pages
           /\ \A l \in DOMAIN SegmentTable : k # l =>
                 PagesOf(SegmentTable[k]) \cap PagesOf(SegmentTable[l]) = {}
BY SegmentAssumption

(* A step that leaves the game's pages alone keeps rows in their places.    *)
LEMMA RowsStay ==
    ASSUME MemoryInv, UNCHANGED <<holds, prot, segment>>,
           \A p \in Pages : owner[p] = "game" => owner'[p] = "game"
    PROVE  (\A k \in DOMAIN SegmentTable : k < segment => InPlace(k))'
<1> SUFFICES ASSUME NEW k \in DOMAIN SegmentTable, k < segment
             PROVE  InPlace(k)'
  OBVIOUS
<1>1. InPlace(k) BY DEF MemoryInv
<1>2. PagesOf(SegmentTable[k]) \subseteq Pages BY RowFacts
<1>3. QED BY <1>1, <1>2 DEF InPlace

LEMMA MemoryStep == ASSUME MemoryInv, [Next]_vars PROVE MemoryInv'
<1>1. CASE Constructor /\ UNCHANGED platform
  <2>1. /\ pc = "constructor" /\ pc' = "open" /\ segment = 1
        /\ UNCHANGED <<holds, prot, segment, failed, platform>>
    BY <1>1 DEF Constructor, os_reserve_mach_va_range, MemoryInv
  <2>2. \A k \in DOMAIN SegmentTable : ~(k < segment)
    BY <2>1, RowFacts
  <2>3. failed' # "taken" BY <2>1 DEF MemoryInv
  <2>4. CASE platform = "win32" /\ \A p \in Pages : owner[p] = "free"
    <3>1. owner' = [p \in Pages |-> "reserved"]
      BY <1>1, <2>4 DEF Constructor, os_reserve_mach_va_range
    <3>2. owner' \in [Pages -> Owners] /\ \A p \in Pages : owner'[p] = "reserved"
      BY <3>1 DEF Owners
    <3>3. QED BY <2>1, <2>2, <2>3, <3>2 DEF MemoryInv, NoRaceLost
  <2>5. CASE ~(platform = "win32" /\ \A p \in Pages : owner[p] = "free")
    <3>1. owner' = owner /\ ~va_reservation_done'
      BY <1>1, <2>5 DEF Constructor, os_reserve_mach_va_range
    <3>2. QED BY <2>1, <2>2, <2>3, <3>1 DEF MemoryInv, NoRaceLost
  <2>6. QED BY <2>4, <2>5
<1>2. CASE Loads /\ UNCHANGED platform
  <2>1. PICK p \in HostPages : owner[p] = "free" /\ owner' = [owner EXCEPT ![p] = "host"]
    BY <1>2 DEF Loads, HostTakes
  <2>2. UNCHANGED <<pc, holds, prot, va_reservation_done, segment, failed, platform>>
    BY <1>2 DEF Loads, HostTakes
  <2>3. \A q \in Pages : owner[q] # "free" => owner'[q] = owner[q]
    BY <2>1 DEF MemoryInv
  <2>4. owner' \in [Pages -> Owners] BY <2>1 DEF MemoryInv, Owners
  <2>5. (\A k \in DOMAIN SegmentTable : k < segment => InPlace(k))'
    BY <2>2, <2>3, RowsStay
  <2>6. va_reservation_done' => \A q \in Pages : owner'[q] \in {"reserved", "game"}
    BY <2>2, <2>3 DEF MemoryInv
  <2>7. QED BY <2>2, <2>4, <2>5, <2>6 DEF MemoryInv, NoRaceLost
<1>3. CASE mmap_segments /\ UNCHANGED platform
  <2> DEFINE s == SegmentTable[segment]
             places == platform = "posix" \/ VirtualAllocPlaces(s)
  <2>1. /\ segment <= Len(SegmentTable) /\ failed = "none"
        /\ UNCHANGED <<va_reservation_done, platform>> /\ pc' # "constructor"
    BY <1>3 DEF mmap_segments, os_map_fixed
  <2>2. segment \in DOMAIN SegmentTable
    BY <2>1, SegmentAssumption DEF MemoryInv
  <2>3. PagesOf(s) \subseteq Pages BY <2>2, RowFacts
  <2>4. CASE places /\ After(s) /\ segment' = segment + 1 /\ UNCHANGED failed
    <3>1. owner' \in [Pages -> Owners] /\ \A p \in Pages : owner'[p] \in {owner[p], "game"}
      BY <2>4 DEF After, MemoryInv, Owners
    <3>2. ASSUME NEW k \in DOMAIN SegmentTable, k < segment' PROVE InPlace(k)'
      <4>1. CASE k = segment
        BY <2>3, <2>4, <4>1 DEF After, InPlace
      <4>2. CASE k # segment
        <5>1. k < segment BY <2>4, <3>2, <4>2, RowFacts DEF MemoryInv
        <5>2. InPlace(k) BY <5>1 DEF MemoryInv
        <5>3. \A p \in PagesOf(SegmentTable[k]) : p \in Pages /\ p \notin PagesOf(s)
          BY <2>2, <4>2, RowFacts
        <5>4. \A p \in PagesOf(SegmentTable[k]) :
                 /\ owner'[p] = owner[p] /\ prot'[p] = prot[p] /\ holds'[p] = holds[p]
          BY <2>4, <5>3 DEF After
        <5>5. QED BY <5>2, <5>4 DEF InPlace
      <4>3. QED BY <4>1, <4>2
    <3>3. segment' \in Nat \ {0} BY <2>4 DEF MemoryInv
    <3>4. va_reservation_done' => \A p \in Pages : owner'[p] \in {"reserved", "game"}
      BY <2>1, <3>1 DEF MemoryInv
    <3>5. failed' # "taken" BY <2>1, <2>4
    <3>6. QED BY <2>1, <3>1, <3>2, <3>3, <3>4, <3>5 DEF MemoryInv, NoRaceLost
  <2>5. CASE ~(places /\ After(s) /\ segment' = segment + 1 /\ UNCHANGED failed)
    <3>1. /\ UNCHANGED <<owner, holds, prot, segment>>
          /\ failed' \in IF ~places THEN {"taken"}
                ELSE {"no_memory"} \cup (IF s.offset # Zero THEN {"file"} ELSE {})
                                 \cup (IF s.prot # {"read", "write"} THEN {"protect"} ELSE {})
      BY <1>3, <2>5 DEF mmap_segments, os_map_fixed
    <3>2. (\A k \in DOMAIN SegmentTable : k < segment => InPlace(k))'
      BY <3>1, RowsStay
    <3>3. va_reservation_done => VirtualAllocPlaces(s)
      BY <2>3 DEF MemoryInv, VirtualAllocPlaces
    <3>4. NoRaceLost'
      <4>1. places => failed' # "taken" BY <3>1
      <4>2. QED BY <2>1, <3>3, <4>1 DEF NoRaceLost
    <3>5. QED BY <2>1, <3>1, <3>2, <3>4 DEF MemoryInv
  <2>6. QED BY <2>4, <2>5
<1>4. CASE UNCHANGED <<memVars, platform>> /\ (pc' = "constructor" => pc = "constructor")
  <2>1. UNCHANGED <<owner, holds, prot, va_reservation_done, segment, failed, platform>>
    BY <1>4 DEF memVars
  <2>2. (\A k \in DOMAIN SegmentTable : k < segment => InPlace(k))'
    BY <2>1, RowsStay
  <2>3. QED BY <1>4, <2>1, <2>2 DEF MemoryInv, NoRaceLost
<1>5. CASE Update /\ UNCHANGED platform BY <1>4, <1>5 DEF Update
<1>6. CASE (Open \/ check_binary \/ OpenSDL) /\ UNCHANGED platform
  BY <1>4, <1>6 DEF Open, check_binary, OpenSDL
<1>7. CASE (RedirectHost \/ RedirectTrap \/ WrapQuit) /\ UNCHANGED platform
  BY <1>4, <1>7 DEF RedirectHost, RedirectTrap, WrapQuit
<1>8. CASE (StubsAndWindows \/ install_gl_redirect) /\ UNCHANGED platform
  BY <1>4, <1>8 DEF StubsAndWindows, install_gl_redirect
<1>9. CASE (CallTrap \/ CallInternal) /\ UNCHANGED platform
  BY <1>4, <1>9 DEF CallTrap, CallInternal
<1>10. CASE UNCHANGED vars BY <1>4, <1>10 DEF vars
<1>11. QED BY <1>1, <1>2, <1>3, <1>5, <1>6, <1>7, <1>8, <1>9, <1>10 DEF Next

LEMMA MemoryInvariant == Spec => []MemoryInv
<1>1. Init => MemoryInv
  <2> SUFFICES ASSUME Init PROVE MemoryInv OBVIOUS
  <2>1. /\ owner = [p \in Pages |-> "free"] /\ segment = 1 /\ failed = "none"
        /\ ~va_reservation_done
    BY DEF Init, SegmentsInit
  <2>2. ASSUME NEW k \in DOMAIN SegmentTable PROVE ~(k < segment)
    <3>1. k \in Nat \ {0} BY RowFacts
    <3>2. QED BY <2>1, <3>1
  <2>3. owner \in [Pages -> Owners] BY <2>1 DEF Owners
  <2>4. QED BY <2>1, <2>2, <2>3 DEF MemoryInv, NoRaceLost
<1>2. QED BY <1>1, MemoryStep, PTL DEF Spec

(* Segments end up where they belong, for every table of segments that do   *)
(* not overlap, any granule and any pages taken by the host.                *)
THEOREM SegmentsEndInPlace == Spec => []SegmentsInPlace
<1>1. MemoryInv => SegmentsInPlace
  <2> SUFFICES ASSUME MemoryInv, AllMapped, NEW k \in DOMAIN SegmentTable
               PROVE  InPlace(k)
    BY DEF SegmentsInPlace, InPlace
  <2>1. k <= Len(SegmentTable) /\ k \in Nat /\ Len(SegmentTable) \in Nat
    BY SegmentAssumption
  <2>2. k < segment BY <2>1 DEF AllMapped, MemoryInv
  <2>3. QED BY <2>2 DEF MemoryInv
<1>2. QED BY <1>1, MemoryInvariant, PTL

(* A reservation is enough, wherever the host would take pages.             *)
THEOREM ReservationSuffices == Spec => []NoRaceLost
<1>1. MemoryInv => NoRaceLost BY DEF MemoryInv
<1>2. QED BY <1>1, MemoryInvariant, PTL

-----------------------------------------------------------------------------
(* The tables. *)

(* The functions whose rows are done.                                       *)
Done == {Table[k] : k \in 1 .. i - 1}

(* A slot as the loop leaves it.                                            *)
Plain == {"internal", "host", "trap"}

(* Where the slots are at each stage; they say "host" only for what the     *)
(* host has, and nothing wraps itself.                                      *)
SlotInv ==
    /\ pc \in Stages \cup Exits
    /\ i \in Nat \ {0} /\ i <= Len(Table) + 1
    /\ pc \in Before => /\ jt = [s \in Slots |-> "internal"] /\ host_ptr = {}
                        /\ i = 1 /\ traps = 0
    /\ pc \in {"win", "gl", "running"} => i = Len(Table) + 1
    /\ jt \in [Slots -> Targets]
    /\ \A s \in Slots :
          /\ jt[s] = "host" => s \notin missing
          /\ jt[s] = "va" => s \in host_ptr \ missing /\ s \in Variadic
          /\ jt[s] = "watchdog" => s = "Quit"
          /\ jt[s] = "altenter" => s = "CreateWindow"
    /\ real \in [Quit : Plain, CreateWindow : Plain]
    /\ real.Quit = "host" => "Quit" \notin missing
    /\ real.CreateWindow = "host" => "CreateWindow" \notin missing
    /\ pc \in Before => real.Quit = "internal" /\ real.CreateWindow = "internal"
    /\ pc = "slots" => jt["Quit"] # "watchdog"
    /\ pc \in {"slots", "win"} => jt["CreateWindow"] # "altenter"
    /\ pc \in {"slots", "win"} => \A s \in Slots : jt[s] \notin {"stub", "builtin"}

LEMMA NamedSlots ==
    /\ "Quit" \in Slots /\ "CreateWindow" \in Slots /\ ThreadSlots \subseteq Slots
    /\ "Quit" \notin Variadic /\ "CreateWindow" \notin Variadic
    /\ "Quit" \notin ThreadSlots /\ "CreateWindow" \notin ThreadSlots
    /\ \A k \in 1 .. Len(Table) : Table[k] \in Slots
    /\ Len(Table) \in Nat
BY TableAssumption DEF Slots, ThreadSlots

LEMMA SlotStep == ASSUME SlotInv, [Next]_vars PROVE SlotInv'
<1> USE NamedSlots
<1>1. CASE Update BY <1>1 DEF Update, SlotInv, hostVars, sdlVars
<1>2. CASE Constructor
  BY <1>2 DEF Constructor, SlotInv, hostVars, sdlVars, Before, Stages
<1>3. CASE Loads BY <1>3 DEF Loads, SlotInv, hostVars, sdlVars
<1>4. CASE Open BY <1>4 DEF Open, SlotInv, hostVars, sdlVars, Before, Stages, Exits
<1>5. CASE check_binary
  BY <1>5 DEF check_binary, SlotInv, hostVars, sdlVars, Before, Stages, Exits
<1>6. CASE mmap_segments
  BY <1>6 DEF mmap_segments, SlotInv, hostVars, sdlVars, Before, Stages, Exits
<1>7. CASE OpenSDL
  <2>1. /\ pc = "sdl" /\ pc' \in {"slots", "exit98"} /\ UNCHANGED sdlVars
    BY <1>7 DEF OpenSDL
  <2>2. \A s \in Slots : jt[s] = "internal" BY <2>1 DEF SlotInv, Before
  <2>3. real.Quit = "internal" /\ real.CreateWindow = "internal"
    BY <2>1 DEF SlotInv, Before
  <2>4. QED BY <2>1, <2>2, <2>3 DEF SlotInv, sdlVars, Before, Stages, Exits, Plain
<1>8. CASE RedirectHost
  <2>1. /\ pc = "slots" /\ pc' = pc /\ i' = i + 1 /\ i \in 1 .. Len(Table)
        /\ Table[i] \notin missing /\ UNCHANGED <<missing, real, traps>>
        /\ jt' = [jt EXCEPT ![Table[i]] = IF Table[i] \in Variadic THEN "va" ELSE "host"]
        /\ host_ptr' = host_ptr \cup ({Table[i]} \cap Variadic)
    BY <1>8 DEF RedirectHost, SlotInv, hostVars
  <2>2. jt' \in [Slots -> Targets] BY <2>1 DEF SlotInv, Targets
  <2>3. \A s \in Slots : \/ s # Table[i] /\ jt'[s] = jt[s]
                         \/ /\ s = Table[i] /\ s \notin missing
                            /\ \/ jt'[s] = "host"
                               \/ jt'[s] = "va" /\ s \in host_ptr' /\ s \in Variadic
    BY <2>1 DEF SlotInv
  <2>4. QED BY <2>1, <2>2, <2>3 DEF SlotInv, Before
<1>9. CASE RedirectTrap
  <2>1. /\ pc = "slots" /\ pc' = pc /\ i' = i + 1 /\ i \in 1 .. Len(Table)
        /\ UNCHANGED <<missing, real, host_ptr>>
        /\ jt' \in {jt, [jt EXCEPT ![Table[i]] = "trap"]}
    BY <1>9 DEF RedirectTrap, SlotInv, hostVars
  <2>2. jt' \in [Slots -> Targets] BY <2>1 DEF SlotInv, Targets
  <2>3. \A s \in Slots : jt'[s] = jt[s] \/ jt'[s] = "trap"
    BY <2>1 DEF SlotInv
  <2>4. QED BY <2>1, <2>2, <2>3 DEF SlotInv, Before
<1>10. CASE WrapQuit
  <2>1. /\ pc = "slots" /\ pc' \in {"win", "gl"} /\ i > Len(Table)
        /\ UNCHANGED <<missing, host_ptr, i>>
        /\ jt' = [jt EXCEPT !["Quit"] = "watchdog"]
        /\ real' = [real EXCEPT !.Quit = jt["Quit"]]
    BY <1>10 DEF WrapQuit, hostVars
  <2>2. jt["Quit"] \in Plain BY <2>1 DEF SlotInv, Plain, Targets
  <2>3. real'.Quit = jt["Quit"] /\ real'.CreateWindow = real.CreateWindow
    BY <2>1
  <2>4. \A s \in Slots : jt'[s] = IF s = "Quit" THEN "watchdog" ELSE jt[s]
    BY <2>1 DEF SlotInv
  <2>5. jt' \in [Slots -> Targets] BY <2>1 DEF SlotInv, Targets
  <2>6. QED BY <2>1, <2>2, <2>3, <2>4, <2>5 DEF SlotInv, Before, Stages
<1>11. CASE StubsAndWindows
  <2>1. /\ pc = "win" /\ pc' = "gl" /\ UNCHANGED <<missing, host_ptr, i>>
        /\ jt' = [s \in Slots |-> IF s \in ThreadSlots THEN "stub"
                                  ELSE IF s = "CreateWindow" THEN "altenter" ELSE jt[s]]
        /\ real' = [real EXCEPT !.CreateWindow = jt["CreateWindow"]]
    BY <1>11 DEF StubsAndWindows, hostVars
  <2>2. jt["CreateWindow"] \in Plain BY <2>1 DEF SlotInv, Plain, Targets
  <2>3. real'.CreateWindow = jt["CreateWindow"] /\ real'.Quit = real.Quit
    BY <2>1
  <2>4. \A s \in Slots : jt'[s] = IF s \in ThreadSlots THEN "stub"
                           ELSE IF s = "CreateWindow" THEN "altenter" ELSE jt[s]
    BY <2>1
  <2>5. jt' \in [Slots -> Targets] BY <2>1 DEF SlotInv, Targets
  <2>6. QED BY <2>1, <2>2, <2>3, <2>4, <2>5 DEF SlotInv, Before, Stages
<1>12. CASE install_gl_redirect
  BY <1>12 DEF install_gl_redirect, SlotInv, hostVars, sdlVars, Before, Stages, Exits
<1>13. CASE CallTrap
  BY <1>13 DEF CallTrap, SlotInv, hostVars, sdlVars, Before, Stages, Exits
<1>14. CASE CallInternal
  <2>1. /\ pc = "running" /\ pc' = pc /\ jt' = [s \in Slots |-> "builtin"]
        /\ UNCHANGED <<missing, i, host_ptr, real>>
    BY <1>14 DEF CallInternal, hostVars
  <2>2. jt' \in [Slots -> Targets] /\ \A s \in Slots : jt'[s] = "builtin"
    BY <2>1 DEF Targets
  <2>3. QED BY <2>1, <2>2 DEF SlotInv, Before
<1>15. CASE UNCHANGED vars BY <1>15 DEF vars, SlotInv, hostVars, sdlVars
<1>16. QED BY <1>1, <1>2, <1>3, <1>4, <1>5, <1>6, <1>7, <1>8, <1>9, <1>10,
              <1>11, <1>12, <1>13, <1>14, <1>15 DEF Next

LEMMA SlotInvariant == Spec => []SlotInv
<1>1. Init => SlotInv
  <2> SUFFICES ASSUME Init PROVE SlotInv OBVIOUS
  <2>1. /\ pc = "constructor" /\ i = 1 /\ traps = 0 /\ host_ptr = {}
        /\ jt = [s \in Slots |-> "internal"]
        /\ real = [Quit |-> "internal", CreateWindow |-> "internal"]
    BY DEF Init
  <2>2. jt \in [Slots -> Targets] /\ \A s \in Slots : jt[s] = "internal"
    BY <2>1 DEF Targets
  <2>3. QED BY <2>1, <2>2, NamedSlots DEF SlotInv, Plain, Stages
<1>2. QED BY <1>1, SlotStep, PTL DEF Spec

-----------------------------------------------------------------------------
(* Where calls arrive. *)

(* What a row or a wrapper holds for s.                                     *)
Meant(s, target) == IF s \in missing THEN TrapsSuffice => target = "trap"
                    ELSE target = "host"

(* What the loop makes of a row.                                            *)
Redirected(s) == Meant(s, jt[s]) \/ (s \notin missing /\ jt[s] = "va" /\ s \in host_ptr)

(* Those that Windows replaces on top of the watchdog.                      *)
Replaced == {"CreateWindow"} \cup ThreadSlots

ReachInv ==
    /\ missing \in SUBSET Slots /\ traps \in Nat
    /\ pc = "win" => platform = "win32"
    /\ pc = "slots" => /\ traps <= Cardinality(Done \cap missing)
                       /\ \A s \in Done : Redirected(s)
    /\ pc \in {"win", "gl", "running"} /\ InCharge =>
          /\ \A s \in Slots \ ({"Quit"} \cup Replaced) : Redirected(s)
          /\ jt["Quit"] = "watchdog" /\ Meant("Quit", real.Quit)
    /\ (pc = "win" \/ (pc \in {"gl", "running"} /\ platform # "win32")) /\ InCharge =>
          \A s \in Replaced : Redirected(s)
    /\ pc \in {"gl", "running"} /\ platform = "win32" /\ InCharge =>
          /\ jt["CreateWindow"] = "altenter"
          /\ Meant("CreateWindow", real.CreateWindow)
          /\ \A s \in ThreadSlots : jt[s] = "stub"

LEMMA SlotsFinite == IsFiniteSet(Slots)
<1> DEFINE f == [k \in 1 .. Len(Table) |-> Table[k]]
<1>1. IsFiniteSet(1 .. Len(Table)) BY NamedSlots, FS_Interval
<1>2. Slots = {Table[k] : k \in 1 .. Len(Table)}
  BY TableAssumption DEF Slots
<1>3. f \in Surjection(1 .. Len(Table), Slots)
  BY <1>2 DEF Surjection
<1>4. QED BY <1>1, <1>3, FS_Surjection

(* One more row is done: it was not done before, and comes with one more    *)
(* trap at most.                                                            *)
LEMMA DoneFacts ==
    ASSUME SlotInv, i \in 1 .. Len(Table), i' = i + 1
    PROVE  Table[i] \notin Done /\ Done' = Done \cup {Table[i]} /\ Done \subseteq Slots
<1>1. i \in Nat /\ Len(Table) \in Nat BY NamedSlots
<1>2. Table[i] \notin Done BY <1>1, TableAssumption DEF Done
<1>3. 1 .. i' - 1 = (1 .. i - 1) \cup {i} BY <1>1
<1>4. Done' = {Table[k] : k \in 1 .. i' - 1} BY DEF Done
<1>5. Done' = Done \cup {Table[i]} BY <1>3, <1>4 DEF Done
<1>6. Done \subseteq Slots BY <1>1, NamedSlots DEF Done
<1>7. QED BY <1>2, <1>5, <1>6

(* One more function is missing.  There is room for its trap if traps       *)
(* suffice.                                                                 *)
LEMMA RoomForTrap ==
    ASSUME SlotInv, ReachInv, pc = "slots",
           i \in 1 .. Len(Table), i' = i + 1, Table[i] \in missing, missing' = missing
    PROVE  /\ TrapsSuffice => TrapFits
           /\ Cardinality((Done \cap missing)') = Cardinality(Done \cap missing) + 1
           /\ Cardinality(Done \cap missing) \in Nat
<1>1. IsFiniteSet(missing) BY SlotsFinite, FS_Subset DEF ReachInv
<1>2. IsFiniteSet(Done \cap missing) BY <1>1, FS_Subset
<1>3. Table[i] \notin Done /\ Done' = Done \cup {Table[i]} BY DoneFacts
<1>4. (Done \cap missing)' = (Done \cap missing) \cup {Table[i]} BY <1>3
<1>5. /\ Cardinality((Done \cap missing) \cup {Table[i]}) = Cardinality(Done \cap missing) + 1
      /\ Cardinality(Done \cap missing) \in Nat
  BY <1>2, <1>3, FS_AddElement, FS_CardinalityType
<1>6. Cardinality((Done \cap missing) \cup {Table[i]}) <= Cardinality(missing)
  <2>1. (Done \cap missing) \cup {Table[i]} \subseteq missing OBVIOUS
  <2>2. QED BY <1>1, <2>1, FS_Subset
<1>7. TrapsSuffice => trapPage # "none" /\ Cardinality(missing) <= MaxTraps
  BY DEF TrapsSuffice
<1>8. traps <= Cardinality(Done \cap missing) /\ traps \in Nat BY DEF ReachInv
<1>9. Cardinality(missing) \in Nat BY <1>1, FS_CardinalityType
<1>10. TrapsSuffice => traps < MaxTraps
  <2> SUFFICES ASSUME TrapsSuffice PROVE traps < MaxTraps OBVIOUS
  <2> DEFINE n == Cardinality(Done \cap missing)
             m == Cardinality(missing)
  <2>1. n + 1 <= m /\ n \in Nat BY <1>5, <1>6
  <2>2. traps <= n /\ m <= MaxTraps /\ m \in Nat /\ traps \in Nat
    BY <1>7, <1>8, <1>9
  <2> HIDE DEF n, m
  <2>3. QED BY <2>1, <2>2, LimitAssumption
<1>11. QED BY <1>4, <1>5, <1>7, <1>10 DEF TrapFits

(* A call goes where the properties want it to.                             *)
Arrives(s) ==
    \/ s \in missing /\ (TrapsSuffice => Reaches(s) = Lands("trap"))
    \/ s \notin missing /\ Reaches(s) = "host"
    \/ s \in ThreadSlots /\ jt[s] = "stub" /\ Reaches(s) = "stub"

LEMMA ArrivesRight ==
    ASSUME SlotInv, ReachInv, pc = "running", InCharge, NEW s \in Slots
    PROVE  Arrives(s) /\ (TrapsSuffice => Reaches(s) # "internal")
<1> SUFFICES Arrives(s)
  BY DEF Arrives, Lands
<1>1. CASE Redirected(s)
  <2>1. CASE s \in missing
    <3>1. TrapsSuffice => jt[s] = "trap" BY <1>1, <2>1 DEF Redirected, Meant
    <3>2. TrapsSuffice => Reaches(s) = Lands("trap") BY <3>1 DEF Reaches
    <3>3. QED BY <2>1, <3>2 DEF Arrives
  <2>2. CASE s \notin missing
    <3>1. jt[s] = "host" \/ (jt[s] = "va" /\ s \in host_ptr)
      BY <1>1, <2>2 DEF Redirected, Meant
    <3>2. Reaches(s) = "host" BY <3>1 DEF Reaches, Lands
    <3>3. QED BY <2>2, <3>2 DEF Arrives
  <2>3. QED BY <2>1, <2>2
<1>2. CASE s = "Quit"
  <2>1. jt[s] = "watchdog" /\ Meant(s, real.Quit) BY <1>2 DEF ReachInv
  <2>2. Reaches(s) = Lands(real.Quit) BY <2>1 DEF Reaches
  <2>3. QED BY <2>1, <2>2 DEF Arrives, Meant, Lands
<1>3. CASE s = "CreateWindow" /\ platform = "win32"
  <2>1. jt[s] = "altenter" /\ Meant(s, real.CreateWindow) BY <1>3 DEF ReachInv
  <2>2. Reaches(s) = Lands(real.CreateWindow) BY <2>1 DEF Reaches
  <2>3. QED BY <2>1, <2>2 DEF Arrives, Meant, Lands
<1>4. CASE s \in ThreadSlots /\ platform = "win32"
  <2>1. jt[s] = "stub" BY <1>4 DEF ReachInv
  <2>2. Reaches(s) = "stub" BY <2>1 DEF Reaches, Lands
  <2>3. QED BY <1>4, <2>1, <2>2 DEF Arrives
<1>5. QED BY <1>1, <1>2, <1>3, <1>4 DEF ReachInv, Replaced

LEMMA ReachStep ==
    ASSUME SlotInv, SlotInv', ReachInv, [Next]_vars, platform' = platform
    PROVE  ReachInv'
<1> USE NamedSlots
<1>1. CASE /\ UNCHANGED <<missing, trapPage, traps, i, jt, host_ptr, real>>
           /\ pc' = pc \/ pc' \notin Later \/ (pc = "gl" /\ pc' = "running")
  <2>1. (TrapsSuffice' <=> TrapsSuffice) /\ (InCharge' <=> InCharge) /\ Done' = Done
    BY <1>1 DEF TrapsSuffice, InCharge, Done
  <2>2. \A s : Redirected(s)' <=> Redirected(s)
    BY <1>1, <2>1 DEF Redirected, Meant
  <2>3. /\ Meant("Quit", real.Quit)' <=> Meant("Quit", real.Quit)
        /\ Meant("CreateWindow", real.CreateWindow)' <=> Meant("CreateWindow", real.CreateWindow)
    BY <1>1, <2>1 DEF Meant
  <2>4. QED BY <1>1, <2>1, <2>2, <2>3 DEF ReachInv, Later
<1>2. CASE Update \/ Constructor \/ Loads \/ Open \/ check_binary
  BY <1>1, <1>2
  DEF Update, Constructor, Loads, Open, check_binary, hostVars, sdlVars, Later
<1>3. CASE mmap_segments \/ install_gl_redirect \/ CallTrap
  BY <1>1, <1>3 DEF mmap_segments, install_gl_redirect, CallTrap, hostVars, sdlVars, Later
<1>4. CASE OpenSDL
  <2>1. pc = "sdl" /\ UNCHANGED sdlVars /\ pc' \in {"slots", "exit98"}
        /\ missing' \in SUBSET Slots
    BY <1>4 DEF OpenSDL, hostVars, ReachInv
  <2>2. i = 1 /\ traps = 0 BY <2>1 DEF SlotInv, Before
  <2>3. Done' = {} BY <2>1, <2>2 DEF Done, sdlVars
  <2>4. Cardinality((Done \cap missing)') = 0 BY <2>3, FS_EmptySet
  <2>5. QED BY <2>1, <2>2, <2>3, <2>4 DEF ReachInv, sdlVars
<1>5. CASE RedirectHost
  <2>1. /\ pc = "slots" /\ pc' = pc /\ i' = i + 1 /\ i \in 1 .. Len(Table)
        /\ Table[i] \notin missing /\ UNCHANGED <<missing, trapPage, real, traps>>
        /\ jt' = [jt EXCEPT ![Table[i]] = IF Table[i] \in Variadic THEN "va" ELSE "host"]
        /\ host_ptr' = host_ptr \cup ({Table[i]} \cap Variadic)
    BY <1>5 DEF RedirectHost, SlotInv, hostVars
  <2>2. Table[i] \notin Done /\ Done' = Done \cup {Table[i]} /\ Done \subseteq Slots
    BY <2>1, DoneFacts
  <2>3. TrapsSuffice' <=> TrapsSuffice BY <2>1 DEF TrapsSuffice
  <2>4. (Done \cap missing)' = Done \cap missing BY <2>1, <2>2
  <2>5. ASSUME NEW s \in Done' PROVE Redirected(s)'
    <3>1. CASE s = Table[i] BY <2>1, <3>1 DEF Redirected, Meant, SlotInv
    <3>2. CASE s # Table[i]
      <4>1. s \in Done /\ jt'[s] = jt[s] /\ Redirected(s)
        BY <2>1, <2>2, <2>5, <3>2 DEF SlotInv, ReachInv
      <4>2. QED BY <2>1, <2>3, <4>1 DEF Redirected, Meant
    <3>3. QED BY <3>1, <3>2
  <2>6. QED BY <2>1, <2>3, <2>4, <2>5 DEF ReachInv
<1>6. CASE RedirectTrap
  <2>1. /\ pc = "slots" /\ pc' = pc /\ i' = i + 1 /\ i \in 1 .. Len(Table)
        /\ Table[i] \in missing /\ UNCHANGED <<missing, trapPage, real, host_ptr>>
        /\ IF TrapFits
           THEN traps' = traps + 1 /\ jt' = [jt EXCEPT ![Table[i]] = "trap"]
           ELSE UNCHANGED <<traps, jt>>
    BY <1>6 DEF RedirectTrap, SlotInv, hostVars
  <2>2. Table[i] \notin Done /\ Done' = Done \cup {Table[i]} /\ Done \subseteq Slots
    BY <2>1, DoneFacts
  <2>3. TrapsSuffice' <=> TrapsSuffice BY <2>1 DEF TrapsSuffice
  <2>4. /\ TrapsSuffice => jt' = [jt EXCEPT ![Table[i]] = "trap"]
        /\ traps' <= Cardinality((Done \cap missing)')
        /\ jt' \in {jt, [jt EXCEPT ![Table[i]] = "trap"]}
    <3>1. /\ TrapsSuffice => TrapFits
          /\ Cardinality((Done \cap missing)') = Cardinality(Done \cap missing) + 1
          /\ Cardinality(Done \cap missing) \in Nat
      BY <2>1, RoomForTrap
    <3>2. traps <= Cardinality(Done \cap missing) /\ traps \in Nat
      BY <2>1 DEF ReachInv
    <3>3. TrapsSuffice => jt' = [jt EXCEPT ![Table[i]] = "trap"] BY <2>1, <3>1
    <3>4. traps' \in {traps, traps + 1} BY <2>1
    <3>5. traps' <= Cardinality((Done \cap missing)') BY <3>1, <3>2, <3>4
    <3>6. jt' \in {jt, [jt EXCEPT ![Table[i]] = "trap"]} BY <2>1
    <3>7. QED BY <3>3, <3>5, <3>6
  <2>5. ASSUME NEW s \in Done' PROVE Redirected(s)'
    <3>1. CASE s = Table[i]
      <4>1. s \in missing' /\ s \in Slots BY <2>1, <3>1
      <4>2. TrapsSuffice' => jt'[s] = "trap"
        BY <2>3, <2>4, <3>1, <4>1 DEF SlotInv
      <4>3. QED BY <4>1, <4>2 DEF Redirected, Meant
    <3>2. CASE s # Table[i]
      <4>1. s \in Done /\ jt'[s] = jt[s] /\ Redirected(s)
        BY <2>1, <2>2, <2>4, <2>5, <3>2 DEF SlotInv, ReachInv
      <4>2. QED BY <2>1, <2>3, <4>1 DEF Redirected, Meant
    <3>3. QED BY <3>1, <3>2
  <2>6. traps' \in Nat BY <2>1 DEF ReachInv
  <2>7. QED BY <2>1, <2>3, <2>4, <2>5, <2>6 DEF ReachInv
<1>7. CASE WrapQuit
  <2>1. /\ pc = "slots" /\ pc' \in {"win", "gl"} /\ i > Len(Table)
        /\ pc' = "gl" => platform # "win32"
        /\ UNCHANGED <<missing, trapPage, host_ptr, i, traps>>
        /\ jt' = [jt EXCEPT !["Quit"] = "watchdog"]
        /\ real' = [real EXCEPT !.Quit = jt["Quit"]]
    BY <1>7 DEF WrapQuit, hostVars
  <2>2. TrapsSuffice' <=> TrapsSuffice BY <2>1 DEF TrapsSuffice
  <2>3. Done = Slots
    <3>1. i = Len(Table) + 1 BY <2>1 DEF SlotInv
    <3>2. i - 1 = Len(Table) BY <3>1
    <3>3. QED BY <3>2, TableAssumption DEF Done, Slots
  <2>4. ASSUME NEW s \in Slots \ {"Quit"} PROVE Redirected(s)'
    <3>1. Redirected(s) /\ jt'[s] = jt[s]
      BY <2>1, <2>3, <2>4 DEF ReachInv, SlotInv
    <3>2. QED BY <2>1, <2>2, <3>1 DEF Redirected, Meant
  <2>5. jt'["Quit"] = "watchdog" /\ real'.Quit = jt["Quit"] BY <2>1 DEF SlotInv
  <2>6. Meant("Quit", jt["Quit"])
    <3>1. Redirected("Quit") BY <2>1, <2>3 DEF ReachInv
    <3>2. jt["Quit"] # "va" BY DEF SlotInv
    <3>3. QED BY <3>1, <3>2 DEF Redirected
  <2>7. Meant("Quit", real.Quit)' BY <2>1, <2>2, <2>5, <2>6 DEF Meant
  <2>8. Replaced \subseteq Slots \ {"Quit"} BY DEF Replaced
  <2>9. /\ missing' \in SUBSET Slots /\ traps' \in Nat
        /\ pc' = "win" => platform' = "win32"
        /\ pc' = "gl" => platform' # "win32"
    BY <1>7, <2>1 DEF ReachInv, WrapQuit
  <2> HIDE DEF Replaced
  <2>10. /\ \A s \in Slots \ ({"Quit"} \cup Replaced) : Redirected(s)'
         /\ jt'["Quit"] = "watchdog" /\ Meant("Quit", real.Quit)'
         /\ \A s \in Replaced : Redirected(s)'
    BY <2>4, <2>5, <2>7, <2>8
  <2>11. pc' \in {"win", "gl"} BY <2>1
  <2>12. QED BY <2>9, <2>10, <2>11 DEF ReachInv
<1>8. CASE StubsAndWindows
  <2>1. /\ pc = "win" /\ pc' = "gl" /\ UNCHANGED <<missing, trapPage, host_ptr, i, traps>>
        /\ jt' = [s \in Slots |-> IF s \in ThreadSlots THEN "stub"
                                  ELSE IF s = "CreateWindow" THEN "altenter" ELSE jt[s]]
        /\ real' = [real EXCEPT !.CreateWindow = jt["CreateWindow"]]
    BY <1>8 DEF StubsAndWindows, hostVars
  <2>2. TrapsSuffice' <=> TrapsSuffice BY <2>1 DEF TrapsSuffice
  <2>3. \A s \in Slots \ Replaced : jt'[s] = jt[s] BY <2>1 DEF Replaced
  <2>4. InCharge BY <2>1 DEF SlotInv, InCharge
  <2>5. ASSUME NEW s \in Slots \ ({"Quit"} \cup Replaced) PROVE Redirected(s)'
    <3>1. Redirected(s) BY <2>1, <2>4, <2>5 DEF ReachInv
    <3>2. QED BY <2>1, <2>2, <2>3, <3>1 DEF Redirected, Meant
  <2>6. /\ jt'["CreateWindow"] = "altenter" /\ jt'["Quit"] = jt["Quit"]
        /\ \A s \in ThreadSlots : jt'[s] = "stub"
        /\ real'.CreateWindow = jt["CreateWindow"] /\ real'.Quit = real.Quit
    BY <2>1 DEF SlotInv
  <2>7. Meant("CreateWindow", jt["CreateWindow"])
    <3>1. Redirected("CreateWindow") BY <2>1, <2>4 DEF ReachInv, Replaced
    <3>2. jt["CreateWindow"] # "va" BY DEF SlotInv
    <3>3. QED BY <3>1, <3>2 DEF Redirected
  <2>8. platform' = "win32" BY <2>1 DEF ReachInv
  <2>9. jt["Quit"] = "watchdog" /\ Meant("Quit", real.Quit)
    BY <2>1, <2>4 DEF ReachInv
  <2>10. missing' \in SUBSET Slots /\ traps' \in Nat BY <2>1 DEF ReachInv
  <2>11. Meant("CreateWindow", real.CreateWindow)' /\ Meant("Quit", real.Quit)'
    BY <2>1, <2>2, <2>6, <2>7, <2>9 DEF Meant
  <2> HIDE DEF Replaced
  <2>12. QED
    BY <2>1, <2>5, <2>6, <2>8, <2>9, <2>10, <2>11 DEF ReachInv
<1>9. CASE CallInternal
  <2>1. /\ pc = "running" /\ pc' = pc
        /\ UNCHANGED <<missing, trapPage, traps>>
        /\ \E s \in Slots : Reaches(s) = "internal"
        /\ jt' = [s \in Slots |-> "builtin"]
    BY <1>9 DEF CallInternal, hostVars
  <2>2. TrapsSuffice' <=> TrapsSuffice BY <2>1 DEF TrapsSuffice
  <2>3. ~TrapsSuffice
    <3>1. SUFFICES ASSUME TrapsSuffice, NEW s \in Slots PROVE Reaches(s) # "internal"
      BY <2>1
    <3>2. InCharge BY <3>1 DEF InCharge
    <3>3. QED BY <2>1, <3>1, <3>2, ArrivesRight
  <2>4. ~InCharge' BY <2>1, <2>2, <2>3 DEF InCharge
  <2>5. QED BY <2>1, <2>4 DEF ReachInv
<1>10. CASE UNCHANGED vars BY <1>1, <1>10 DEF vars, hostVars, sdlVars
<1>11. QED BY <1>2, <1>3, <1>4, <1>5, <1>6, <1>7, <1>8, <1>9, <1>10 DEF Next

LEMMA ReachInvariant == Spec => [](SlotInv /\ ReachInv)
<1>1. Init => ReachInv
  <2> SUFFICES ASSUME Init PROVE ReachInv OBVIOUS
  <2>1. pc = "constructor" /\ missing = {} /\ traps = 0 BY DEF Init
  <2>2. QED BY <2>1 DEF ReachInv
<1>2. [Next]_vars => platform' = platform
  BY DEF Next, vars
<1>3. QED BY <1>1, <1>2, SlotInvariant, ReachStep, PTL DEF Spec

(* Calls arrive, for every table, every host and any number of traps, as    *)
(* far as CallsReachHost says.                                              *)
THEOREM CallsArrive == Spec => []CallsReachHost
<1>1. SlotInv /\ ReachInv => CallsReachHost
  <2> SUFFICES ASSUME SlotInv, ReachInv, pc = "running", InCharge, NEW s \in Slots
               PROVE  \/ s \in missing /\ (TrapsSuffice /\ trapPage = "near" => Reaches(s) = "trap")
                      \/ s \notin missing /\ Reaches(s) = "host"
                      \/ s \in ThreadSlots /\ jt[s] = "stub"
    BY DEF CallsReachHost
  <2>1. Arrives(s) BY ArrivesRight
  <2>2. QED BY <2>1 DEF Arrives, Lands
<1>2. QED BY <1>1, ReachInvariant, PTL

(* And the wrappers stay where boot has put them.                           *)
THEOREM WrappersKept == Spec => []WrappersStay
<1>1. ReachInv => WrappersStay
  BY DEF ReachInv, WrappersStay, InCharge
<1>2. QED BY <1>1, ReachInvariant, PTL
=============================================================================
