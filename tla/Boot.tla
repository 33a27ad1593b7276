-------------------------------- MODULE Boot --------------------------------
(***************************************************************************)
(* How the loader gets from main to the game: src/loader_main.c opens the  *)
(* game's binary, checks that it is the build its generated tables were    *)
(* made for, maps it and rewrites its tables of functions; the SDL part of *)
(* src/loader_sdl_gl.c puts the host's functions, traps for those the host *)
(* lacks, and a few wrappers into the game's SDL jump table.               *)
(*                                                                         *)
(* Boot is sequential; what surrounds it is not: the game's file may be    *)
(* replaced by an update while the loader starts, and the host's libraries *)
(* may lack functions or be missing.  Directories, environment variables   *)
(* and traces are left out.                                                *)
(***************************************************************************)
EXTENDS Segments, FiniteSets

CONSTANTS Table,       \* sdl_redirects: the functions in the order of the table
          Variadic,    \* those that are called through a va_wrapper
          MaxTraps     \* MAX_SDL_TRAPS, 32 in the code

Slots == {Table[i] : i \in DOMAIN Table}
ThreadSlots == {"CreateThread", "CreateThreadWithStackSize"}

ASSUME TableAssumption ==
    /\ Table \in Seq(STRING)
    /\ \A i, j \in DOMAIN Table : Table[i] = Table[j] => i = j
    /\ {"Quit", "CreateWindow"} \cup ThreadSlots \subseteq Slots
    /\ Variadic \subseteq Slots \ ({"Quit", "CreateWindow"} \cup ThreadSlots)
ASSUME LimitAssumption == MaxTraps \in Nat

(* What the file may be: the build the tables were generated for, another   *)
(* that has its entry point or one that has not, or something that is no    *)
(* thin 64-bit Mach-O file.                                                 *)
Files == {"built", "sibling", "other", "unjudged"}
Entry(file) == CASE file \in {"built", "sibling"} -> "MAC_ENTRYPOINT"
                 [] file = "other"               -> "elsewhere"
                 [] OTHER                        -> "unknown"

VARIABLES
    pc,
    disk, updated,     \* the file at DOM6_MAC_PATH, and when it was replaced
    opened, image,     \* what fd refers to, what all segments are mapped from
    judged,            \* check_binary compared an entry point
    missing, trapPage, \* the host: functions it lacks, and the page for traps:
                       \* none, or within a branch's reach of the loader, or not
    i, traps,          \* the loop of install_sdl_redirect and its traps
    jt,                \* the game's SDL jump table
    host_ptr,          \* the host functions stored for the va_wrappers
    real               \* real_SDL_Quit and real_SDL_CreateWindow

fileVars == <<disk, updated, opened, image, judged>>
hostVars == <<missing, trapPage>>
sdlVars  == <<i, traps, jt, host_ptr, real>>
vars == <<platform, pc, memVars, fileVars, hostVars, sdlVars>>

(* A slot holds the default of the game's own SDL until it is redirected.   *)
Targets == {"internal", "host", "va", "trap", "watchdog", "altenter", "stub", "builtin"}
Exits == {"exit1", "exit97", "exit98", "exit99", "astray"}
Stages == {"constructor", "open", "check", "map", "sdl", "slots", "win", "gl", "running"}

Init ==
    /\ SegmentsInit
    /\ pc = "constructor"
    /\ disk \in Files /\ updated = "never"
    /\ opened = "none" /\ image = "none" /\ judged = FALSE
    /\ missing = {} /\ trapPage = "none"
    /\ i = 1 /\ traps = 0
    /\ jt = [s \in Slots |-> "internal"]
    /\ host_ptr = {}
    /\ real = [Quit |-> "internal", CreateWindow |-> "internal"]

(* An update puts another build in the file's place, once at most. *)
Update ==
    /\ updated = "never" /\ pc \in Stages
    /\ updated' = pc /\ disk' \in Files
    /\ UNCHANGED <<pc, opened, image, judged, hostVars, sdlVars, memVars>>

-----------------------------------------------------------------------------
(* Before main. *)
Constructor ==
    /\ pc = "constructor" /\ pc' = "open"
    /\ os_reserve_mach_va_range
    /\ UNCHANGED <<fileVars, hostVars, sdlVars>>

(* Libraries are loaded before main and while it runs its first steps. *)
Loads ==
    /\ pc \in {"constructor", "open", "check", "map"}
    /\ HostTakes
    /\ UNCHANGED <<pc, fileVars, hostVars, sdlVars>>

(* mmap_segments: open the file, have it checked, map what was opened.      *)
Open ==
    /\ pc = "open"
    /\ \/ opened' = disk /\ pc' = "check"
       \/ opened' = "none" /\ pc' = "exit1"
    /\ UNCHANGED <<disk, updated, image, judged, hostVars, sdlVars, memVars>>

(* check_binary with a fault, for comparison: the verdict is ignored. *)
check_ignored ==
    /\ pc = "check" /\ pc' = "map"
    /\ judged' \in {FALSE, Entry(disk) # "unknown"}
    /\ UNCHANGED <<disk, updated, opened, image, hostVars, sdlVars, memVars>>

(* check_binary opens the path a second time, and refuses only a Mach-O     *)
(* file that names another entry point; what it cannot read, or is no such  *)
(* file, it lets pass.                                                      *)
check_binary ==
    /\ pc = "check"
    /\ judged' \in {FALSE, Entry(disk) # "unknown"}
    /\ pc' = IF judged' /\ Entry(disk) # Entry("built") THEN "exit1" ELSE "map"
    /\ UNCHANGED <<disk, updated, opened, image, hostVars, sdlVars, memVars>>

(* One row of segments.inc; the first that cannot be mapped ends the loader. *)
mmap_segments ==
    /\ pc = "map"
    /\ os_map_fixed
    /\ pc' = IF failed' # "none" THEN "exit1" ELSE IF AllMapped' THEN "sdl" ELSE "map"
    /\ image' = IF AllMapped' THEN opened ELSE image
    /\ UNCHANGED <<disk, updated, opened, judged, hostVars, sdlVars>>

-----------------------------------------------------------------------------
(* install_sdl_redirect opens the host's SDL, whatever that may lack. *)
OpenSDL ==
    /\ pc = "sdl"
    /\ \/ /\ pc' = "slots"
          /\ missing' \in SUBSET Slots /\ trapPage' \in {"none", "near", "far"}
       \/ pc' = "exit98" /\ UNCHANGED hostVars
    /\ UNCHANGED <<fileVars, sdlVars, memVars>>

(* RedirectHost with a fault, for comparison: host_ptr is not stored. *)
RedirectNoPtr ==
    /\ pc = "slots" /\ i <= Len(Table)
    /\ Table[i] \notin missing
    /\ jt' = [jt EXCEPT ![Table[i]] = IF Table[i] \in Variadic THEN "va" ELSE "host"]
    /\ i' = i + 1
    /\ UNCHANGED <<pc, fileVars, hostVars, traps, host_ptr, real, memVars>>

(* One row of the table: the host's function, behind a va_wrapper if it is  *)
(* variadic.                                                                *)
RedirectHost ==
    /\ pc = "slots" /\ i <= Len(Table)
    /\ Table[i] \notin missing
    /\ jt' = [jt EXCEPT ![Table[i]] = IF Table[i] \in Variadic THEN "va" ELSE "host"]
    /\ host_ptr' = host_ptr \cup ({Table[i]} \cap Variadic)
    /\ i' = i + 1
    /\ UNCHANGED <<pc, fileVars, hostVars, traps, real, memVars>>

(* TrapFits with a fault, for comparison: one too few. *)
TrapFitsUnder == traps + 1 < MaxTraps /\ trapPage # "none"

(* There is room for another trap. *)
TrapFits == traps < MaxTraps /\ trapPage # "none"

(* sdl_install_trap: a trap, while there is room for one.                   *)
RedirectTrap ==
    /\ pc = "slots" /\ i <= Len(Table)
    /\ Table[i] \in missing
    /\ IF TrapFits
       THEN traps' = traps + 1 /\ jt' = [jt EXCEPT ![Table[i]] = "trap"]
       ELSE UNCHANGED <<traps, jt>>
    /\ i' = i + 1
    /\ UNCHANGED <<pc, fileVars, hostVars, host_ptr, real, memVars>>

(* SDL_Quit gets its watchdog.                                              *)
WrapQuit ==
    /\ pc = "slots" /\ i > Len(Table)
    /\ real' = [real EXCEPT !.Quit = jt["Quit"]]
    /\ jt' = [jt EXCEPT !["Quit"] = "watchdog"]
    /\ pc' = IF platform = "win32" THEN "win" ELSE "gl"
    /\ UNCHANGED <<fileVars, hostVars, i, traps, host_ptr, memVars>>

(* Windows only: SDL's threads are replaced, its windows are reported to    *)
(* the Alt+Enter fix.                                                       *)
StubsAndWindows ==
    /\ pc = "win"
    /\ real' = [real EXCEPT !.CreateWindow = jt["CreateWindow"]]
    /\ jt' = [s \in Slots |-> IF s \in ThreadSlots THEN "stub"
                              ELSE IF s = "CreateWindow" THEN "altenter" ELSE jt[s]]
    /\ pc' = "gl"
    /\ UNCHANGED <<fileVars, hostVars, i, traps, host_ptr, memVars>>

(* install_gl_redirect needs libGL; then mac_main is entered.               *)
install_gl_redirect ==
    /\ pc = "gl" /\ pc' \in {"running", "exit97"}
    /\ UNCHANGED <<fileVars, hostVars, sdlVars, memVars>>

-----------------------------------------------------------------------------
(* A trap branches to sdl_missing_handler_impl by a displacement that is    *)
(* cut to 26 bits: from a page further away than 128 MB it goes astray.     *)
Lands(target) == IF target = "trap" /\ trapPage = "far" THEN "astray" ELSE target

(* Where a call of the game through slot s ends up.                         *)
Reaches(s) ==
    CASE jt[s] = "watchdog" -> Lands(real.Quit)
      [] jt[s] = "altenter" -> Lands(real.CreateWindow)
      [] jt[s] = "va"       -> IF s \in host_ptr THEN "host" ELSE "null"
      [] OTHER              -> Lands(jt[s])

(* The game calls a function: the host's returns, sdl_missing_handler_impl  *)
(* ends the process, what a call that went astray does is anyone's guess,   *)
(* and a default of the game's own SDL first fills the whole table with     *)
(* that SDL's functions.                                                    *)
CallTrap == /\ pc = "running"
            /\ \E s \in Slots :
                  \/ Reaches(s) = "trap" /\ pc' = "exit99"
                  \/ Reaches(s) = "astray" /\ pc' = "astray"
            /\ UNCHANGED <<fileVars, hostVars, sdlVars, memVars>>

CallInternal == /\ pc = "running"
                /\ \E s \in Slots : Reaches(s) = "internal"
                /\ jt' = [s \in Slots |-> "builtin"]
                /\ UNCHANGED <<pc, fileVars, hostVars, i, traps, host_ptr, real, memVars>>

Next == /\ \/ Update \/ Constructor \/ Loads \/ Open \/ check_binary \/ mmap_segments
           \/ OpenSDL \/ RedirectHost \/ RedirectTrap \/ WrapQuit \/ StubsAndWindows
           \/ install_gl_redirect \/ CallTrap \/ CallInternal
        /\ UNCHANGED platform

Spec == Init /\ [][Next]_vars

-----------------------------------------------------------------------------
(* The loader refuses a dom6_mac with another entry point than its tables   *)
(* were made for: none such is mapped and entered, if check_binary found an *)
(* entry point to compare and no update came between the two opens.  An     *)
(* update before the first or after the second does no harm.  A build that  *)
(* shares the entry point is not told apart.                                *)
EntryAgrees ==
    pc \in Stages \ {"constructor", "open", "check", "map"} /\ judged /\ updated # "check" =>
        Entry(image) = Entry("built")

(* Every function the host lacks can have a trap. *)
TrapsSuffice == missing = {} \/ (trapPage # "none" /\ Cardinality(missing) <= MaxTraps)

(* The loader's table is the one in use: always if traps suffice, else      *)
(* until a call through a slot without one lets the game's own SDL fill it. *)
InCharge == TrapsSuffice \/ \A s \in Slots : jt[s] # "builtin"

(* Once the game runs and while the loader's table is in use, a call        *)
(* reaches the host's function if the host has it, whatever wraps it, or    *)
(* the thread stub; and if it has not, a trap that names it, provided traps *)
(* suffice and their page lies within a branch's reach of the loader, of    *)
(* which the code makes nothing sure.                                       *)
CallsReachHost ==
    pc = "running" /\ InCharge =>
       \A s \in Slots :
          \/ s \in missing /\ (TrapsSuffice /\ trapPage = "near" => Reaches(s) = "trap")
          \/ s \notin missing /\ Reaches(s) = "host"
          \/ s \in ThreadSlots /\ jt[s] = "stub"

(* What boot interposed stays interposed while traps suffice: quitting has  *)
(* its deadline, and on Windows no thread of SDL's own is started and every *)
(* window is reported.                                                      *)
WrappersStay ==
    pc = "running" /\ TrapsSuffice =>
       /\ jt["Quit"] = "watchdog"
       /\ platform = "win32" => /\ jt["CreateWindow"] = "altenter"
                                /\ \A s \in ThreadSlots : jt[s] = "stub"
=============================================================================
