------------------------------ MODULE VarArgs ------------------------------
(***************************************************************************)
(* The variadic calls of the game, from src/loader_shims.c and from the    *)
(* wrappers that tools/build_loader.py writes for SDL.  A macOS caller     *)
(* puts every variadic argument on its stack, eight bytes each, from the   *)
(* stack pointer up; the hosts look for them elsewhere.  The wrappers are  *)
(* a few instructions that make what the host expects out of what the game *)
(* left, and must give the game its stack and frame back.                  *)
(*                                                                         *)
(* Memory is words of eight bytes, addressed from the game's stack pointer *)
(* at the call, which is 0: its arguments lie at 0, 1, ..., and whatever   *)
(* is called uses the words below.                                         *)
(***************************************************************************)
EXTENDS Integers, Sequences

CONSTANTS MaxArgs       \* bound: variadic arguments of a call

ASSUME MaxArgsAssumption == MaxArgs \in Nat

(* The shims, by what they make of the arguments: "list" hands the host a   *)
(* va_list, as printf and scanf do; "adapter" makes one from the game's, as *)
(* vsnprintf does; "third" passes one argument on in x2, as open and fcntl  *)
(* do; "registers" are the generated SDL wrappers.                          *)
Shim(kind, named) == [kind |-> kind, named |-> named]
Shims == {Shim("list", n) : n \in 1 .. 3} \cup {Shim("adapter", n) : n \in {2, 3}}
         \cup {Shim("third", 2)} \cup {Shim("registers", n) : n \in 1 .. 3}
Lists == {"list", "adapter"}

FP == -101              \* what x29 and x30 hold when the game calls
LR == -102
Junk == -103            \* what no one has put there
Arg(k) == 100 + k       \* the k-th variadic argument
Low == -16              \* bound: words below the game's stack pointer

VARIABLES
    host, shim, args,   \* the call: the host, the shim, kinds of the arguments
    at,                 \* where the call is
    sp, x29, x30,
    x,                  \* registers x0 to x7
    mem,                \* the stack
    ap,                 \* the host's va_list: its address, or on Windows its value
    read                \* the arguments the host has taken

argVars == <<host, shim, args, at, sp, x29, x30, x, mem, ap, read>>

VarArgsInit ==
    /\ host \in {"posix", "win32"} /\ shim \in Shims
    /\ args \in UNION {[1 .. n -> {"int", "double"}] : n \in 0 .. MaxArgs}
    /\ at = "game"
    /\ sp = 0 /\ x29 = FP /\ x30 = LR
    /\ x = [r \in 0 .. 7 |-> IF shim.kind = "adapter" /\ r = shim.named THEN 0 ELSE Junk]
    /\ mem = [a \in Low .. MaxArgs + 8 |-> IF a + 1 \in DOMAIN args THEN Arg(a + 1) ELSE Junk]
    /\ ap = 0 /\ read = << >>

(* Words a shim takes from the stack: x29 and x30, and a va_list if it has  *)
(* to make one.                                                             *)
Frame == IF shim.kind = "adapter" \/ (shim.kind = "list" /\ host = "posix") THEN 8 ELSE 2

Push == /\ at = "game" /\ shim.kind # "registers"
        /\ at' = "body"
        /\ sp' = sp - Frame
        /\ mem' = [mem EXCEPT ![sp - Frame] = x29, ![sp - Frame + 1] = x30]
        /\ UNCHANGED <<host, shim, args, x29, x30, x, ap, read>>

(* A va_list of Linux at a: three pointers to the arguments, offsets of 0.  *)
mac_vl_t(a, mac_ap) ==
    [mem EXCEPT ![a] = mac_ap, ![a + 1] = mac_ap, ![a + 2] = mac_ap, ![a + 3] = 0]

(* The host gets a va_list in the register after the named arguments: on    *)
(* POSIX the address of one, on Windows that of the arguments.              *)
Passes(mac_ap) ==
    /\ at = "body" /\ shim.kind \in Lists /\ at' = "host"
    /\ mem' = IF host = "posix" THEN mac_vl_t(sp + 2, mac_ap) ELSE mem
    /\ ap' = IF host = "posix" THEN sp + 2 ELSE mac_ap
    /\ x' = [x EXCEPT ![shim.named] = ap']
    /\ UNCHANGED <<host, shim, args, sp, x29, x30, read>>

(* ListBody with a fault, for comparison: the arguments are looked for      *)
(* where the shorter frame of Windows would have them.                      *)
ListBodyShort == Passes(IF shim.kind = "adapter" THEN x[shim.named] ELSE sp + 2)

(* The arguments are above the frame of mac_printf and the others, or where *)
(* the game says.                                                           *)
ListBody == Passes(IF shim.kind = "adapter" THEN x[shim.named] ELSE sp + Frame)

(* mac_open and mac_fcntl. *)
ThirdBody ==
    /\ at = "body" /\ shim.kind = "third" /\ at' = "host"
    /\ x' = [x EXCEPT ![2] = mem[sp + 2]]
    /\ UNCHANGED <<host, shim, args, sp, x29, x30, mem, ap, read>>

(* emit_va_wrapper: all registers after the named ones, from the stack, and *)
(* a jump that leaves x30 to the host.                                      *)
RegistersBody ==
    /\ at = "game" /\ shim.kind = "registers" /\ at' = "host"
    /\ x' = [r \in 0 .. 7 |-> IF r >= shim.named THEN mem[sp + r - shim.named] ELSE x[r]]
    /\ UNCHANGED <<host, shim, args, sp, x29, x30, mem, ap, read>>

(* The host uses the stack below for itself, and x30 for its own calls. *)
HostRuns ==
    /\ at = "host" /\ at' = "reading"
    /\ mem' = [a \in DOMAIN mem |-> IF a < sp THEN Junk ELSE mem[a]]
    /\ UNCHANGED <<host, shim, args, sp, x29, x30, x, ap, read>>

(* va_arg of the hosts.  With both offsets 0 a va_list of Linux takes every *)
(* kind from __stack; a variadic function called through registers takes    *)
(* what does not fit into them from the stack, and on Linux looks for       *)
(* doubles in registers of their own.                                       *)
Next_arg == Len(read) + 1
VaArg ==
    CASE shim.kind \in Lists /\ host = "posix" -> IF mem[ap + 3] = 0 THEN mem[mem[ap]] ELSE Junk
      [] shim.kind \in Lists /\ host = "win32" -> mem[ap]
      [] shim.kind = "third" -> x[2]
      [] shim.kind = "registers" /\ host = "posix" /\ args[Next_arg] = "double" -> Junk
      [] OTHER -> IF shim.named + Next_arg <= 8 THEN x[shim.named + Next_arg - 1]
                  ELSE mem[sp + shim.named + Next_arg - 9]

HostReads ==
    /\ at = "reading" /\ Next_arg \in DOMAIN args
    /\ shim.kind = "third" => Next_arg = 1
    /\ read' = Append(read, VaArg)
    /\ IF shim.kind \in Lists /\ host = "posix"
       THEN mem' = [mem EXCEPT ![ap] = @ + 1] /\ UNCHANGED ap
       ELSE UNCHANGED mem /\ ap' = IF shim.kind \in Lists THEN ap + 1 ELSE ap
    /\ UNCHANGED <<host, shim, args, at, sp, x29, x30, x>>

(* The host returns; a called wrapper pops its frame and returns in turn. *)
HostReturns ==
    /\ at = "reading" /\ at' = "returned"
    /\ IF shim.kind = "registers" THEN UNCHANGED <<sp, x29, x30>>
       ELSE sp' = sp + Frame /\ x29' = mem[sp] /\ x30' = mem[sp + 1]
    /\ UNCHANGED <<host, shim, args, x, mem, ap, read>>

VarArgsNext == \/ Push \/ ListBody \/ ThirdBody \/ RegistersBody
               \/ HostRuns \/ HostReads \/ HostReturns
VarArgsSpec == VarArgsInit /\ [][VarArgsNext]_argVars

-----------------------------------------------------------------------------
(* The calls the SDL wrappers are made for: no more arguments than          *)
(* registers, and no doubles where those have registers of their own.       *)
Fits(k) == shim.kind = "registers" =>
              shim.named + k <= 8 /\ (host = "posix" => args[k] = "int")

KthArgument == \A k \in DOMAIN read : Fits(k) => read[k] = Arg(k)
FrameReturned ==
    at = "returned" => /\ sp = 0 /\ x29 = FP /\ x30 = LR
                       /\ \A k \in DOMAIN args : mem[k - 1] = Arg(k)

(* What the host takes for its k-th variadic argument is the game's k-th,   *)
(* whichever shim and host, and although the host has used the stack below  *)
(* in the meantime (through the SDL wrappers, for calls they are made for); *)
(* and the game gets back its stack pointer, its frame and its return       *)
(* address, with its arguments where it left them.                          *)
CallsTransparent == KthArgument /\ FrameReturned
=============================================================================
