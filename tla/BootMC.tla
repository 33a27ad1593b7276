------------------------------- MODULE BootMC -------------------------------
(***************************************************************************)
(* Instances of Boot: a table of six functions and room for two traps, and *)
(* the four rows of segments.inc, each as far off a granule of four pages  *)
(* as its address there.                                                   *)
(***************************************************************************)
EXTENDS Boot

MCTable == <<"SetError", "CreateThread", "CreateThreadWithStackSize",
             "CreateWindow", "PollEvent", "Quit">>
MCVariadic == {"SetError"}
MCSegments ==
    LET rw == {"read", "write"}
    IN  << [first |-> 0,  pages |-> 5, offset |-> 0,    prot |-> {"read", "exec"}],
           [first |-> 5,  pages |-> 4, offset |-> 5,    prot |-> rw],
           [first |-> 9,  pages |-> 3, offset |-> 9,    prot |-> rw],
           [first |-> 12, pages |-> 4, offset |-> Zero, prot |-> rw] >>
=============================================================================
