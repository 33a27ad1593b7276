----------------------------- MODULE PluginFiles -----------------------------
(***************************************************************************)
(* The debug plugin's view of the game's files, src/loader_shims.c on      *)
(* POSIX: mac_fopen tells the plugin of each file and remembers its path   *)
(* in a small table, mac_fclose looks the path up and tells the plugin     *)
(* which file is about to be closed.  Neither takes a lock, so each access *)
(* to a row of the table is a step, and Threads threads of the game may be *)
(* in these functions at once.  The host's stdio may hand out the address  *)
(* of a closed FILE again.  Paths are shorter than 512 characters: of      *)
(* longer ones a row keeps the first 511.                                  *)
(***************************************************************************)
EXTENDS Integers, FiniteSets

CONSTANTS Threads, PlugTrack,   \* PLUG_TRACK, 64 in the code
          Streams,              \* bound: addresses of FILE objects
          Paths, NULL

ASSUME PluginAssumption == /\ PlugTrack \in Nat \ {0} /\ NULL \notin Streams \cup Paths
                           /\ IsFiniteSet(Threads)

Rows == 1 .. PlugTrack

VARIABLES
    loaded, onClose,   \* plugin_dispatch's flag; g_plugin_on_close is set
    g_open_files,      \* the table: [fp, path] in each row
    opened,            \* stdio: the path of each open stream, NULL if closed
    pc, fp, path, row, \* the call each thread is in
    held,              \* the game: streams it may close
    told,              \* the game's last close: file closed, file named
    untracked,         \* streams that found the table full
    overlapped         \* two threads have been in these functions at once

vars == <<loaded, onClose, g_open_files, opened, pc, fp, path, row, held,
          told, untracked, overlapped>>
tableVars == <<loaded, onClose, g_open_files>>

Init ==
    /\ loaded = FALSE /\ onClose = FALSE
    /\ g_open_files = [r \in Rows |-> [fp |-> NULL, path |-> NULL]]
    /\ opened = [f \in Streams |-> NULL]
    /\ pc = [t \in Threads |-> "game"]
    /\ fp = [t \in Threads |-> NULL] /\ path = [t \in Threads |-> NULL]
    /\ row = [t \in Threads |-> 1]
    /\ held = {} /\ told = <<NULL, NULL>> /\ untracked = {}
    /\ overlapped = FALSE

Goto(t, label) == pc[t] = label[1] /\ pc' = [pc EXCEPT ![t] = label[2]]

-----------------------------------------------------------------------------
(* mac_fopen: fopen itself, which may fail. *)
OpenFile(t, p) ==
    /\ Goto(t, <<"game", "dispatch">>)
    /\ path' = [path EXCEPT ![t] = p]
    /\ \/ \E f \in {s \in Streams : opened[s] = NULL} :
             /\ fp' = [fp EXCEPT ![t] = f]
             /\ opened' = [opened EXCEPT ![f] = p]
       \/ fp' = [fp EXCEPT ![t] = NULL] /\ UNCHANGED opened
    /\ UNCHANGED <<tableVars, row, held, told, untracked>>

(* plugin_dispatch: the first call loads the plugin, if there is one; the   *)
(* flag comes before the callbacks.                                         *)
DispatchLoad(t) ==
    /\ Goto(t, <<"dispatch", "loading">>) /\ ~loaded
    /\ loaded' = TRUE
    /\ UNCHANGED <<onClose, g_open_files, opened, fp, path, row, held, told, untracked>>

DispatchLoaded(t) ==
    /\ Goto(t, <<"loading", "track">>)
    /\ onClose' \in BOOLEAN
    /\ UNCHANGED <<loaded, g_open_files, opened, fp, path, row, held, told, untracked>>

DispatchAgain(t) ==
    /\ Goto(t, <<"dispatch", "track">>) /\ loaded
    /\ UNCHANGED <<tableVars, opened, fp, path, row, held, told, untracked>>

(* plugin_track_open: nothing to track, or look for an empty row, claim it, *)
(* write the path into it.                                                  *)
Opened(t) == held' = IF fp[t] = NULL THEN held ELSE held \cup {fp[t]}

TrackNothing(t) ==
    /\ Goto(t, <<"track", "game">>) /\ (fp[t] = NULL \/ ~onClose)
    /\ Opened(t)
    /\ untracked' = untracked \cup ({fp[t]} \ {NULL})
    /\ UNCHANGED <<tableVars, opened, fp, path, row, told>>

TrackScan(t) ==
    /\ Goto(t, <<"track", "scan">>) /\ fp[t] # NULL /\ onClose
    /\ row' = [row EXCEPT ![t] = 1]
    /\ UNCHANGED <<tableVars, opened, fp, path, held, told, untracked>>

(* The table has another row. *)
More(t) == row[t] < PlugTrack

ScanNext(t) ==
    /\ pc[t] = "scan" /\ g_open_files[row[t]].fp # NULL
    /\ IF More(t)
       THEN row' = [row EXCEPT ![t] = @ + 1] /\ UNCHANGED <<pc, held, untracked>>
       ELSE /\ pc' = [pc EXCEPT ![t] = "game"]
            /\ untracked' = untracked \cup {fp[t]}
            /\ Opened(t) /\ UNCHANGED row
    /\ UNCHANGED <<tableVars, opened, fp, path, told>>

ScanFound(t) ==
    /\ Goto(t, <<"scan", "claim">>) /\ g_open_files[row[t]].fp = NULL
    /\ UNCHANGED <<tableVars, opened, fp, path, row, held, told, untracked>>

Claim(t) ==
    /\ Goto(t, <<"claim", "name">>)
    /\ g_open_files' = [g_open_files EXCEPT ![row[t]].fp = fp[t]]
    /\ UNCHANGED <<loaded, onClose, opened, fp, path, row, held, told, untracked>>

Name(t) ==
    /\ Goto(t, <<"name", "game">>)
    /\ g_open_files' = [g_open_files EXCEPT ![row[t]].path = path[t]]
    /\ Opened(t)
    /\ UNCHANGED <<loaded, onClose, opened, fp, path, row, told, untracked>>

-----------------------------------------------------------------------------
(* LookNext with a fault, for comparison: the last row is never looked at. *)
LookButLast(t) ==
    /\ pc[t] = "look" /\ g_open_files[row[t]].fp # fp[t]
    /\ IF row[t] < PlugTrack - 1
       THEN row' = [row EXCEPT ![t] = @ + 1] /\ UNCHANGED pc
       ELSE pc' = [pc EXCEPT ![t] = "fclose"] /\ UNCHANGED row
    /\ UNCHANGED <<tableVars, opened, fp, path, held, told, untracked>>

(* mac_fclose and plugin_dispatch_close: look for the stream, call the      *)
(* plugin with the row's path, empty the row, close.                        *)
CloseFile(t, f) ==
    /\ pc[t] = "game" /\ f \in held
    /\ held' = held \ {f}
    /\ fp' = [fp EXCEPT ![t] = f]
    /\ row' = [row EXCEPT ![t] = 1]
    /\ told' = <<opened[f], NULL>>
    /\ pc' = [pc EXCEPT ![t] = IF onClose THEN "look" ELSE "fclose"]
    /\ UNCHANGED <<tableVars, opened, path, untracked>>

LookNext(t) ==
    /\ pc[t] = "look" /\ g_open_files[row[t]].fp # fp[t]
    /\ IF More(t)
       THEN row' = [row EXCEPT ![t] = @ + 1] /\ UNCHANGED pc
       ELSE pc' = [pc EXCEPT ![t] = "fclose"] /\ UNCHANGED row
    /\ UNCHANGED <<tableVars, opened, fp, path, held, told, untracked>>

LookFound(t) ==
    /\ Goto(t, <<"look", "clear">>) /\ g_open_files[row[t]].fp = fp[t]
    /\ told' = <<opened[fp[t]], g_open_files[row[t]].path>>
    /\ UNCHANGED <<tableVars, opened, fp, path, row, held, untracked>>

(* Clear with a fault, for comparison: the row stays taken. *)
ClearNot(t) ==
    /\ Goto(t, <<"clear", "fclose">>)
    /\ UNCHANGED <<tableVars, opened, fp, path, row, held, told, untracked>>

Clear(t) ==
    /\ Goto(t, <<"clear", "fclose">>)
    /\ g_open_files' = [g_open_files EXCEPT ![row[t]].fp = NULL]
    /\ UNCHANGED <<loaded, onClose, opened, fp, path, row, held, told, untracked>>

FClose(t) ==
    /\ Goto(t, <<"fclose", "game">>)
    /\ opened' = [opened EXCEPT ![fp[t]] = NULL]
    /\ untracked' = untracked \ {fp[t]}
    /\ UNCHANGED <<tableVars, fp, path, row, held, told>>

Next == /\ \E t \in Threads :
              \/ \E p \in Paths : OpenFile(t, p)
              \/ DispatchLoad(t) \/ DispatchLoaded(t) \/ DispatchAgain(t)
              \/ TrackNothing(t) \/ TrackScan(t) \/ ScanNext(t) \/ ScanFound(t)
              \/ Claim(t) \/ Name(t)
              \/ \E f \in Streams : CloseFile(t, f)
              \/ LookNext(t) \/ LookFound(t) \/ Clear(t) \/ FClose(t)
        /\ overlapped' = (overlapped \/ Cardinality({t \in Threads : pc'[t] # "game"}) > 1)

Spec == Init /\ [][Next]_vars

-----------------------------------------------------------------------------
(* The close hook names the file that is being closed, also when stdio uses *)
(* the address of a closed FILE again and when rows are reused; but only if *)
(* the threads of the game have opened and closed files one at a time.      *)
NamesItsFile == ~overlapped => told[2] \in {NULL, told[1]}

(* A close goes unnoticed only if the table was full, or the plugin not     *)
(* loaded, when the file was opened: no row is lost, one thread at a time.  *)
ClosesNoticed ==
    ~overlapped => \A t \in Threads :
       pc[t] = "fclose" => told[2] # NULL \/ fp[t] \in untracked

(* While the threads take turns the plugin hears of every close of a file   *)
(* the table had room for, with that file's name.                           *)
PluginKnowsCloses == NamesItsFile /\ ClosesNoticed

(* Rows are not used up, however the threads overlap: between calls every   *)
(* row that is taken belongs to a stream that is open, and no stream has    *)
(* two.                                                                     *)
RowsReturn ==
    (\A t \in Threads : pc[t] = "game") =>
       /\ \A r \in Rows : g_open_files[r].fp # NULL => opened[g_open_files[r].fp] # NULL
       /\ \A q, r \in Rows : g_open_files[q].fp = g_open_files[r].fp =>
             q = r \/ g_open_files[q].fp = NULL
=============================================================================
