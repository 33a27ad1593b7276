------------------------------ MODULE JumpBuf ------------------------------
(***************************************************************************)
(* win_setjmp and win_longjmp of src/loader_shims.c: on Windows the loader *)
(* saves and restores the registers itself, in words of eight bytes of the *)
(* game's jmp_buf.                                                         *)
(*                                                                         *)
(* The game calls functions, each of which may use the registers it has to *)
(* preserve as long as it puts them back when it returns; longjmp leaves   *)
(* functions without that.                                                 *)
(***************************************************************************)
EXTENDS Integers, Sequences

CONSTANTS BufWords,     \* words of a jmp_buf, 24 on macOS
          MaxDepth,     \* bound: calls within calls
          Values        \* what the game passes to longjmp

ASSUME BufAssumption == BufWords \in Nat /\ MaxDepth \in Nat /\ Values \subseteq Int

(* The registers a call preserves, in the order win_setjmp stores them. *)
Preserved == <<"x19", "x20", "x21", "x22", "x23", "x24", "x25", "x26", "x27", "x28",
               "x29", "x30", "sp", "d8", "d9", "d10", "d11", "d12", "d13", "d14", "d15">>
Regs == {Preserved[k] : k \in DOMAIN Preserved}

(* They fit: 21 of the 24 words. *)
ASSUME RoomAssumption == BufWords >= Len(Preserved)

VARIABLES
    regs,               \* the preserved registers
    saved,              \* what each function called will put back
    jmp_buf,            \* the words of the game's buffer, 0 if never written
    marked,             \* the activation of the last setjmp and its registers
    jumped              \* the last longjmp: its val and what setjmp returned

jumpVars == <<regs, saved, jmp_buf, marked, jumped>>

NoJump == [val |-> 0]
Unmarked == [depth |-> -1, regs |-> << >>]

JumpInit ==
    /\ regs = [r \in Regs |-> 1] /\ saved = << >>
    /\ jmp_buf = [w \in 0 .. BufWords - 1 |-> 0]
    /\ marked = Unmarked /\ jumped = NoJump

(* Word with a fault, for comparison: the stack pointer has no room of its  *)
(* own before the registers of floating point.                              *)
WordPacked(k) == IF k <= 13 THEN k - 1 ELSE k - 2

(* The word of jmp_buf for the k-th of them. *)
Word(k) == k - 1

(* A function is called and uses some of the registers. *)
Enter ==
    /\ Len(saved) < MaxDepth
    /\ saved' = Append(saved, regs)
    /\ \E used \in {Regs, {"sp", "x30"}, {"sp", "x30", "d8", "d15"}} :
          regs' = [r \in Regs |-> IF r \in used THEN Len(saved) + 2 ELSE regs[r]]
    /\ UNCHANGED <<jmp_buf, marked, jumped>>

(* It returns; a mark set in it is no longer good for a jump. *)
Leave ==
    /\ saved # << >>
    /\ regs' = saved[Len(saved)]
    /\ saved' = SubSeq(saved, 1, Len(saved) - 1)
    /\ marked' = IF marked.depth = Len(saved) THEN Unmarked ELSE marked
    /\ jumped' = NoJump
    /\ UNCHANGED jmp_buf

win_setjmp ==
    /\ jmp_buf' = [w \in DOMAIN jmp_buf |->
                     IF \E k \in DOMAIN Preserved : Word(k) = w
                     THEN regs[Preserved[CHOOSE k \in DOMAIN Preserved :
                            Word(k) = w /\ \A l \in DOMAIN Preserved : Word(l) = w => l <= k]]
                     ELSE jmp_buf[w]]
    /\ marked' = [depth |-> Len(saved), regs |-> regs]
    /\ jumped' = NoJump
    /\ UNCHANGED <<regs, saved>>

(* Registers come back from the buffer; a val of 0 arrives as 1. *)
win_longjmp ==
    /\ marked # Unmarked
    /\ regs' = [r \in Regs |-> LET k == CHOOSE l \in DOMAIN Preserved : Preserved[l] = r
                               IN  IF Word(k) \in DOMAIN jmp_buf THEN jmp_buf[Word(k)] ELSE 0]
    /\ \E val \in Values : jumped' = [val |-> val, w0 |-> IF val = 0 THEN 1 ELSE val]
    /\ saved' = SubSeq(saved, 1, marked.depth)
    /\ UNCHANGED <<jmp_buf, marked>>

JumpNext == Enter \/ Leave \/ win_setjmp \/ win_longjmp
JumpSpec == JumpInit /\ [][JumpNext]_jumpVars

-----------------------------------------------------------------------------
(* After a longjmp, from any depth, through functions that used whichever   *)
(* registers, and as often as it is done, the game is back at its setjmp    *)
(* with every register it had there and a result that tells the jump from   *)
(* the first return: the saved words do not overlap and fit the buffer.     *)
JumpRestores ==
    jumped # NoJump /\ Len(saved) = marked.depth =>
       /\ regs = marked.regs
       /\ jumped.w0 # 0 /\ (jumped.val # 0 => jumped.w0 = jumped.val)
=============================================================================
