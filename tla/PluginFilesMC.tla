---------------------------- MODULE PluginFilesMC ----------------------------
(***************************************************************************)
(* Instances of PluginFiles: two rows, three streams, two paths, two       *)
(* threads.                                                                *)
(***************************************************************************)
EXTENDS PluginFiles, TLC

MCSymmetry == Permutations(Threads) \cup Permutations(Streams)
              \cup Permutations(Paths)
=============================================================================
