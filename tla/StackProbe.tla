----------------------------- MODULE StackProbe -----------------------------
(***************************************************************************)
(* mac_chkstk_nop of src/loader_shims.c: before the game takes a large     *)
(* frame from its stack, the probe touches the pages it will need, in      *)
(* order.  Windows commits a stack page by page: touching the guard page   *)
(* below the committed ones commits it and makes the next one the guard,   *)
(* touching anything further down is an access violation.                  *)
(*                                                                         *)
(* Addresses are counted down from 0, the top of the stack.  That a stack  *)
(* may come to its end is left out.                                        *)
(***************************************************************************)
EXTENDS Integers

CONSTANTS PageSize,     \* of the host, 0x1000 on Windows
          Step,         \* of the probe, 0x1000
          MaxFrame,     \* the largest frame
          MaxPush,      \* the most a prologue stores before it calls the probe
          Bottom        \* bound: how far down frames reach

ASSUME ProbeAssumption ==
    /\ PageSize \in Nat /\ Step \in Nat \ {0} /\ Step <= PageSize
    /\ MaxFrame \in Nat /\ MaxPush \in 1 .. PageSize /\ Bottom \in Int

VARIABLES
    doing,              \* "running", or "probing" for a frame; "fault" after an
                        \* access past the guard page, "push_fault" if that was
                        \* a prologue's first store
    stack,              \* the stack pointer
    pushed,             \* bytes its prologue has stored
    frame,              \* w9: bytes of the frame asked for, or of the last one
    committed,          \* the lowest committed address; the guard page is below
    x16, x17            \* the probe: where it is, bytes that remain

probeVars == <<doing, stack, pushed, frame, committed, x16, x17>>

ProbeInit ==
    /\ doing = "running" /\ stack = 0 /\ pushed = 0 /\ frame = 0
    /\ committed = 0 /\ x16 = 0 /\ x17 = 0

(* An access at a: fine, or at the guard page, or a fault. *)
Touch(a) ==
    \/ /\ a >= committed
       /\ UNCHANGED committed
    \/ /\ committed - PageSize <= a /\ a < committed
       /\ committed' = committed - PageSize
Faults(a) == a < committed - PageSize

(* A function begins: it stores registers below the stack pointer, one      *)
(* access, and the return address is always among them.  Then it may want a *)
(* frame, for which it calls the probe.                                     *)
Prologue ==
    /\ doing = "running"
    /\ \E k \in 1 .. MaxPush, n \in 0 .. MaxFrame :
          /\ stack - k - n >= Bottom
          /\ \/ /\ Touch(stack - k) /\ doing' = "probing"
                /\ stack' = stack - k /\ pushed' = k /\ frame' = n
                /\ x16' = stack' /\ x17' = n
             \/ /\ Faults(stack - k) /\ doing' = "push_fault"
                /\ UNCHANGED <<stack, pushed, frame, committed, x16, x17>>

(* More with a fault, for comparison: the last whole page is left out too. *)
MoreButOne == x17 > Step + Step

(* More than one step remains. *)
More == x17 > Step

Probe ==
    /\ doing = "probing" /\ More
    /\ x16' = x16 - Step /\ x17' = x17 - Step
    /\ \/ Touch(x16 - Step) /\ doing' = "probing"
       \/ Faults(x16 - Step) /\ doing' = "fault" /\ UNCHANGED committed
    /\ UNCHANGED <<stack, pushed, frame>>

(* The probe returns and the game takes the frame. *)
Take ==
    /\ doing = "probing" /\ ~More
    /\ stack' = stack - frame /\ doing' = "running"
    /\ UNCHANGED <<pushed, frame, committed, x16, x17>>

(* The game reads or writes anywhere in what the function took, in whatever *)
(* order.                                                                   *)
Access ==
    /\ doing = "running"
    /\ \E a \in stack .. stack + frame + pushed :
          /\ a < 0
          /\ \/ Touch(a) /\ UNCHANGED doing
             \/ Faults(a) /\ doing' = "fault" /\ UNCHANGED committed
    /\ UNCHANGED <<stack, pushed, frame, x16, x17>>

(* The function returns, or several do, to one whose frame begins above all *)
(* of this one.                                                             *)
Release ==
    /\ doing = "running" /\ stack + frame + pushed <= 0
    /\ stack' \in (stack + frame + pushed) .. 0
    /\ frame' = 0 /\ pushed' = 0
    /\ UNCHANGED <<doing, committed, x16, x17>>

ProbeNext == Prologue \/ Probe \/ Take \/ Access \/ Release
ProbeSpec == ProbeInit /\ [][ProbeNext]_probeVars

-----------------------------------------------------------------------------
(* Whatever frame a function takes and wherever in it the game first reads  *)
(* or writes, neither that nor the probe goes past the guard page.  The     *)
(* code leaves up to a whole page at the end of a frame unprobed, though    *)
(* the comment above it says every page in [sp - N, sp) is: so the first    *)
(* store of the next function's prologue, below the frame, can go past the  *)
(* guard page.  It does so only if the function that holds the frame is the *)
(* one that calls, and neither it nor anything it called has touched the    *)
(* end of the frame.                                                        *)
NoFault ==
    /\ doing # "fault"
    /\ doing = "push_fault" => frame > 0 /\ stack < committed
=============================================================================
