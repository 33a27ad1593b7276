------------------------------ MODULE WinVboMC ------------------------------
(***************************************************************************)
(* Small instances of WinVbo: a table of two or three names, two payloads, *)
(* a driver that exports all, some or none of the buffer functions.        *)
(***************************************************************************)
EXTENDS WinVbo, TLC

All(fam) == {<<fam, s>> : s \in VboSlots}

(* What drivers export: nothing, the core names, both families, or the ARB *)
(* names but one (with and without the core names but another).            *)
MCCore  == {All("core")}
MCSome  == {{}, All("core"), All("arb") \cup All("core"),
            (All("arb") \ {<<"arb", "Delete">>}) \cup All("core"),
            (All("arb") \ {<<"arb", "Gen">>}) \cup (All("core") \ {<<"core", "Bind">>})}

(* Blocks and payloads are interchangeable; names are not, the scan orders *)
(* them.                                                                   *)
MCSymmetry == Permutations(Blocks) \cup Permutations(Payloads)

MCSlots == {"VertexPointer"}
=============================================================================
