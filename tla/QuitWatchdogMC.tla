--------------------------- MODULE QuitWatchdogMC ---------------------------
(***************************************************************************)
(* Small instances of QuitWatchdog: two polls in a second, unsigned        *)
(* arithmetic modulo 6.                                                    *)
(***************************************************************************)
EXTENDS QuitWatchdog

MCSecs == {0, 1, 2, 3}   \* off; two timeouts that fit; 6 polls, 0 modulo 6
=============================================================================
