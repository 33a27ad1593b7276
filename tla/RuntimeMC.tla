----------------------------- MODULE RuntimeMC -----------------------------
(***************************************************************************)
(* Instances of Runtime: variadic calls with up to seven arguments; three  *)
(* calls deep between setjmp and longjmp; pages of four bytes under frames *)
(* of up to three pages; two shims that are hit twice under two dumps; and *)
(* two threads that crash on two frames that may hold anything, walks of   *)
(* four frames through a handler of two, with room for one activation more *)
(* than needed.                                                            *)
(***************************************************************************)
EXTENDS Runtime

MCValues == {0, 1, -1, 7}
MCBottom == -30
MCThreads == {"main", "worker"}
MCFrames == {1, 2}
=============================================================================
