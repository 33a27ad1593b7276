----------------------------- MODULE AltEnterMC -----------------------------
(***************************************************************************)
(* Instances of AltEnter: three keys, two windows at most, every set of    *)
(* rules, or all of them but one.                                          *)
(***************************************************************************)
EXTENDS AltEnter

MCAnyRules     == SUBSET AllRules
MCNoEnterFirst == {AllRules \ {"enter_first"}}
=============================================================================
