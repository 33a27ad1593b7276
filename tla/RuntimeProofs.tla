--------------------------- MODULE RuntimeProofs ---------------------------
(***************************************************************************)
(* Theorems about Runtime, for all values of its constants: each part by   *)
(* itself (variadic calls, setjmp and longjmp, the stack probe, the        *)
(* counters and the crash handler), then all of them in one process.       *)
(***************************************************************************)
EXTENDS Runtime, FiniteSetTheorems, TLAPS

(* Variadic calls. *)

Words  == Low .. MaxArgs + 8
Memory == [Words -> Int]

ArgsType ==
    /\ host \in {"posix", "win32"} /\ shim \in Shims
    /\ args \in Seq({"int", "double"}) /\ Len(args) <= MaxArgs
    /\ at \in {"game", "body", "host", "reading", "returned"}
    /\ sp \in Int /\ ap \in Int
    /\ x \in [0 .. 7 -> Int]
    /\ mem \in Memory
    /\ read \in Seq(Int) /\ Len(read) <= Len(args)

(* The game's arguments lie where it left them, above everything a wrapper  *)
(* or the host writes.                                                      *)
ArgsInPlace == \A k \in 1 .. Len(args) : mem[k - 1] = Arg(k)

(* The wrapper's frame: the game's x29 and x30 are at its bottom until it   *)
(* returns; the SDL wrappers have none.                                     *)
FrameKept ==
    IF shim.kind = "registers" \/ at \in {"game", "returned"}
    THEN sp = 0 /\ x29 = FP /\ x30 = LR
    ELSE sp = -Frame /\ mem[sp] = FP /\ mem[sp + 1] = LR

(* What the host finds its next argument by. *)
Handed ==
    /\ shim.kind \in Lists /\ host = "posix" =>
          ap = -6 /\ mem[-6] = Len(read) /\ mem[-3] = 0
    /\ shim.kind \in Lists /\ host = "win32" => ap = Len(read)
    /\ shim.kind = "third" /\ Len(args) > 0 => x[2] = Arg(1)
    /\ shim.kind = "registers" =>
          \A k \in 1 .. Len(args) : shim.named + k <= 8 => x[shim.named + k - 1] = Arg(k)

VarArgsInv ==
    /\ ArgsType /\ ArgsInPlace /\ FrameKept
    /\ at \in {"game", "body"} /\ shim.kind = "adapter" => x[shim.named] = 0
    /\ at \in {"game", "body", "host"} => read = << >>
    /\ at \in {"host", "reading"} => Handed
    /\ \A k \in 1 .. Len(read) : Fits(k) => read[k] = Arg(k)

LEMMA ShimFacts ==
    ASSUME NEW s \in Shims
    PROVE  /\ s.kind \in {"list", "adapter", "third", "registers"}
           /\ s.named \in 1 .. 3
           /\ s.kind = "third" => s.named = 2
  BY DEF Shims, Shim

(* Frames are of two sizes; where a va_list is made there is room for it.   *)
LEMMA FrameFacts ==
    ASSUME ArgsType
    PROVE  /\ Frame \in {2, 8}
           /\ shim.kind \in Lists /\ host = "posix" => Frame = 8
           /\ shim.kind = "third" => Frame = 2
<1>1. shim.kind \in {"list", "adapter", "third", "registers"}
  BY ShimFacts DEF ArgsType
<1>2. QED BY <1>1 DEF Frame, Lists

(* Frames and arguments are in memory.                                      *)
LEMMA Places ==
    /\ \A a \in -8 .. MaxArgs : a \in Words
    /\ ArgsType => \A k \in 1 .. Len(args) : k - 1 \in 0 .. MaxArgs /\ k - 1 \in Words
<1>1. \A a \in -8 .. MaxArgs : a \in Words
  BY MaxArgsAssumption DEF Words, Low
<1>2. ASSUME ArgsType, NEW k \in 1 .. Len(args) PROVE k - 1 \in 0 .. MaxArgs
  <2>1. Len(args) \in Nat /\ Len(args) <= MaxArgs
    BY <1>2 DEF ArgsType
  <2>2. QED BY <2>1, MaxArgsAssumption
<1>3. \A a \in 0 .. MaxArgs : a \in -8 .. MaxArgs
  BY MaxArgsAssumption
<1>4. QED BY <1>1, <1>2, <1>3

(* Storing one word or two changes nothing else.                            *)
LEMMA Pushed ==
    ASSUME NEW m \in Memory, NEW a \in Words, NEW b \in Words, a # b,
           NEW v \in Int, NEW w \in Int, NEW n, n = [m EXCEPT ![a] = v, ![b] = w]
    PROVE  /\ n \in Memory /\ n[a] = v /\ n[b] = w
           /\ \A c \in Words \ {a, b} : n[c] = m[c]
  BY DEF Memory

LEMMA Stored ==
    ASSUME NEW m \in Memory, NEW a \in Words, NEW v \in Int,
           NEW n, n = [m EXCEPT ![a] = v]
    PROVE  /\ n \in Memory /\ n[a] = v
           /\ \A b \in Words \ {a} : n[b] = m[b]
  BY DEF Memory

LEMMA Loaded == ASSUME NEW m \in Memory, NEW a \in Words PROVE m[a] \in Int
  BY DEF Memory

(* What every step of a call starts from.                                   *)
LEMMA CallFacts ==
    ASSUME VarArgsInv
    PROVE  /\ ArgsType
           /\ Len(args) \in Nat /\ Len(read) \in Nat
           /\ \A k \in 1 .. Len(args) : /\ k - 1 \in 0 .. MaxArgs /\ k - 1 \in Words
                                        /\ mem[k - 1] = Arg(k)
<1>1. ArgsType
  BY DEF VarArgsInv
<1>2. Len(args) \in Nat /\ Len(read) \in Nat
  BY <1>1 DEF ArgsType
<1>3. QED BY <1>1, <1>2, Places DEF VarArgsInv, ArgsInPlace

LEMMA ArgsStay ==
    ASSUME VarArgsInv, UNCHANGED args, \A a \in 0 .. MaxArgs : mem'[a] = mem[a]
    PROVE  ArgsInPlace'
  BY CallFacts DEF ArgsInPlace

(* Each step of a call keeps the invariant.                                 *)
LEMMA PushStep == ASSUME VarArgsInv, Push PROVE VarArgsInv'
<1>1. PICK f \in {2, 8} : f = Frame
  BY CallFacts, FrameFacts
<1>2. /\ at = "game" /\ at' = "body" /\ shim.kind # "registers"
      /\ sp = 0 /\ x29 = FP /\ x30 = LR /\ read = << >>
      /\ UNCHANGED <<host, shim, args, x29, x30, x, ap, read>>
      /\ sp' = 0 - f /\ Frame' = Frame
      /\ mem' = [mem EXCEPT ![0 - f] = FP, ![0 - f + 1] = LR]
  BY <1>1 DEF Push, VarArgsInv, FrameKept, Frame
<1>3. /\ 0 - f \in Words /\ 0 - f + 1 \in Words /\ 0 - f # 0 - f + 1
      /\ \A a \in 0 .. MaxArgs : a \in Words \ {0 - f, 0 - f + 1}
  BY Places, MaxArgsAssumption
<1>4. FP \in Int /\ LR \in Int /\ mem \in Memory
  BY CallFacts DEF FP, LR, ArgsType
<1>5. /\ mem' \in Memory /\ mem'[0 - f] = FP /\ mem'[0 - f + 1] = LR
      /\ \A a \in 0 .. MaxArgs : mem'[a] = mem[a]
  <2>1. /\ mem' \in Memory /\ mem'[0 - f] = FP /\ mem'[0 - f + 1] = LR
        /\ \A c \in Words \ {0 - f, 0 - f + 1} : mem'[c] = mem[c]
    BY <1>2, <1>3, <1>4, Pushed
  <2>2. QED BY <1>3, <2>1
<1>6. ArgsType'
  BY <1>2, <1>5, CallFacts DEF ArgsType
<1>7. ArgsInPlace'
  BY <1>2, <1>5, ArgsStay
<1>8. FrameKept'
  BY <1>1, <1>2, <1>5 DEF FrameKept
<1>9. QED BY <1>2, <1>6, <1>7, <1>8 DEF VarArgsInv, Fits

LEMMA ListBodyStep == ASSUME VarArgsInv, ListBody PROVE VarArgsInv'
<1> DEFINE mac_ap == IF shim.kind = "adapter" THEN x[shim.named] ELSE sp + Frame
<1>1. /\ at = "body" /\ at' = "host" /\ shim.kind \in Lists /\ Passes(mac_ap)
      /\ UNCHANGED <<host, shim, args, sp, x29, x30, read>>
      /\ sp = -Frame /\ mem[sp] = FP /\ mem[sp + 1] = LR /\ read = << >>
  BY DEF ListBody, Passes, VarArgsInv, FrameKept, Lists
<1>2. mac_ap = 0
  BY <1>1, CallFacts, FrameFacts DEF VarArgsInv
<1>3. /\ mem' = IF host = "posix" THEN mac_vl_t(sp + 2, 0) ELSE mem
      /\ ap' = IF host = "posix" THEN sp + 2 ELSE 0
      /\ x' = [x EXCEPT ![shim.named] = ap']
  BY <1>1, <1>2 DEF Passes
<1>4. /\ mem' \in Memory
      /\ mem'[sp] = mem[sp] /\ mem'[sp + 1] = mem[sp + 1]
      /\ \A a \in 0 .. MaxArgs : mem'[a] = mem[a]
      /\ host = "posix" => ap' = -6 /\ mem'[-6] = 0 /\ mem'[-3] = 0
  <2>1. mem \in Memory
    BY CallFacts DEF ArgsType
  <2>2. CASE host = "posix"
    <3>1. sp = -8
      BY <1>1, <2>2, CallFacts, FrameFacts
    <3>2. mem' = [mem EXCEPT ![-6] = 0, ![-5] = 0, ![-4] = 0, ![-3] = 0]
      BY <1>3, <2>2, <3>1 DEF mac_vl_t
    <3>3. /\ -6 \in Words /\ -5 \in Words /\ -4 \in Words /\ -3 \in Words
          /\ -8 \in Words \ {-6, -5, -4, -3} /\ -7 \in Words \ {-6, -5, -4, -3}
          /\ \A a \in 0 .. MaxArgs : a \in Words \ {-6, -5, -4, -3}
      BY Places, MaxArgsAssumption
    <3>4. /\ mem' \in Memory /\ mem'[-6] = 0 /\ mem'[-3] = 0
          /\ \A e \in Words \ {-6, -5, -4, -3} : mem'[e] = mem[e]
      <4>1. -3 \notin {-6, -5, -4} /\ -6 \notin {-5, -4}
        OBVIOUS
      <4>2. /\ -6 \in Words /\ -5 \in Words /\ -4 \in Words /\ -3 \in Words
        BY <3>3
      <4>3. QED BY <2>1, <3>2, <4>1, <4>2 DEF Memory
    <3>5. sp + 1 = -7 /\ sp + 2 = -6
      BY <3>1
    <3>6. QED BY <1>3, <2>2, <3>1, <3>3, <3>4, <3>5
  <2>3. CASE host # "posix"
    BY <1>3, <2>1, <2>3
  <2>4. QED BY <2>2, <2>3
<1>5. ap' \in Int /\ x' \in [0 .. 7 -> Int] /\ x' = [x EXCEPT ![shim.named] = ap']
  <2>1. ap' \in Int
    BY <1>1, <1>3, CallFacts DEF ArgsType
  <2>2. x \in [0 .. 7 -> Int]
    BY CallFacts DEF ArgsType
  <2>3. QED BY <1>3, <2>1, <2>2
<1>6. ArgsType'
  BY <1>1, <1>4, <1>5, CallFacts DEF ArgsType
<1>7. ArgsInPlace'
  BY <1>1, <1>4, ArgsStay
<1>8. FrameKept'
  BY <1>1, <1>4 DEF FrameKept, Frame, Lists
<1>9. Handed'
  <2>1. host \in {"posix", "win32"}
    BY CallFacts DEF ArgsType
  <2>2. QED BY <1>1, <1>3, <1>4, <2>1 DEF Handed, Lists
<1>10. QED BY <1>1, <1>6, <1>7, <1>8, <1>9 DEF VarArgsInv, Fits

LEMMA ThirdBodyStep == ASSUME VarArgsInv, ThirdBody PROVE VarArgsInv'
<1>1. /\ at = "body" /\ at' = "host" /\ shim.kind = "third"
      /\ UNCHANGED <<host, shim, args, sp, x29, x30, mem, ap, read>>
      /\ sp = -Frame /\ mem[sp] = FP /\ mem[sp + 1] = LR /\ read = << >>
      /\ x' = [x EXCEPT ![2] = mem[sp + 2]]
  BY DEF ThirdBody, VarArgsInv, FrameKept
<1>2. sp + 2 = 0
  BY <1>1, CallFacts, FrameFacts
<1>3. mem[0] \in Int
  <2>1. 0 \in Words
    BY Places, MaxArgsAssumption
  <2>2. QED BY <2>1, CallFacts, Loaded DEF ArgsType
<1>4. x' \in [0 .. 7 -> Int] /\ x'[2] = mem[0]
  <2>1. PICK v \in Int : v = mem[0]
    BY <1>3
  <2>2. x' = [x EXCEPT ![2] = v] /\ x \in [0 .. 7 -> Int]
    BY <1>1, <1>2, <2>1, CallFacts DEF ArgsType
  <2>3. QED BY <2>1, <2>2
<1>5. Len(args) > 0 => mem[0] = Arg(1)
  BY CallFacts
<1>6. ArgsType'
  BY <1>1, <1>4, CallFacts DEF ArgsType
<1>7. ArgsInPlace' /\ FrameKept'
  BY <1>1 DEF VarArgsInv, ArgsInPlace, FrameKept, Frame
<1>8. Handed'
  BY <1>1, <1>4, <1>5 DEF Handed, Lists
<1>9. QED BY <1>1, <1>6, <1>7, <1>8 DEF VarArgsInv, Fits

LEMMA RegistersBodyStep == ASSUME VarArgsInv, RegistersBody PROVE VarArgsInv'
<1>1. PICK n \in 1 .. 3 : n = shim.named
  BY CallFacts, ShimFacts DEF ArgsType
<1>2. /\ at = "game" /\ at' = "host" /\ shim.kind = "registers"
      /\ UNCHANGED <<host, shim, args, sp, x29, x30, mem, ap, read>>
      /\ sp = 0 /\ x29 = FP /\ x30 = LR /\ read = << >>
      /\ x' = [r \in 0 .. 7 |-> IF r >= n THEN mem[0 + r - n] ELSE x[r]]
  BY <1>1 DEF RegistersBody, VarArgsInv, FrameKept
<1>3. \A r \in 0 .. 7 : r >= n => 0 + r - n \in Words
  BY MaxArgsAssumption DEF Words, Low
<1>4. x' \in [0 .. 7 -> Int]
  <2>1. \A r \in 0 .. 7 : r >= n => mem[0 + r - n] \in Int
    BY <1>3, CallFacts, Loaded DEF ArgsType
  <2>2. QED BY <1>2, <2>1, CallFacts DEF ArgsType
<1>5. ASSUME NEW k \in 1 .. Len(args), n + k <= 8 PROVE x'[n + k - 1] = Arg(k)
  <2>1. PICK r \in 0 .. 7 : r = n + k - 1 /\ r >= n /\ 0 + r - n = k - 1
    BY <1>5, CallFacts
  <2>2. x'[r] = mem[k - 1]
    BY <1>2, <2>1
  <2>3. QED BY <2>1, <2>2, CallFacts
<1>6. ArgsType'
  BY <1>2, <1>4, CallFacts DEF ArgsType
<1>7. ArgsInPlace' /\ FrameKept'
  BY <1>2 DEF VarArgsInv, ArgsInPlace, FrameKept, Frame
<1>8. Handed'
  BY <1>1, <1>2, <1>5 DEF Handed, Lists
<1>9. QED BY <1>2, <1>6, <1>7, <1>8 DEF VarArgsInv, Fits

LEMMA HostRunsStep == ASSUME VarArgsInv, HostRuns PROVE VarArgsInv'
<1>1. /\ at = "host" /\ at' = "reading"
      /\ UNCHANGED <<host, shim, args, sp, x29, x30, x, ap, read>>
      /\ mem' = [a \in DOMAIN mem |-> IF a < sp THEN Junk ELSE mem[a]]
      /\ read = << >>
  BY DEF HostRuns, VarArgsInv
<1>2. /\ sp \in {-8, -2, 0}
      /\ shim.kind \in Lists /\ host = "posix" => sp = -8
      /\ shim.kind # "registers" => sp \in {-8, -2}
  BY <1>1, CallFacts, FrameFacts DEF VarArgsInv, FrameKept, Lists
<1>3. /\ mem' \in Memory
      /\ \A a \in -8 .. MaxArgs : a >= sp => mem'[a] = mem[a]
  <2>1. DOMAIN mem = Words /\ Junk \in Int
    BY CallFacts DEF ArgsType, Memory, Junk
  <2>2. \A a \in Words : a \in Int /\ mem[a] \in Int
    BY CallFacts, Loaded, MaxArgsAssumption DEF ArgsType, Words, Low
  <2>3. mem' \in [Words -> Int]
    BY <1>1, <2>1, <2>2
  <2>4. QED BY <1>1, <1>2, <2>1, <2>2, <2>3, Places DEF Memory
<1>4. ArgsType'
  BY <1>1, <1>3, CallFacts DEF ArgsType
<1>5. ArgsInPlace'
  <2>1. \A a \in 0 .. MaxArgs : a \in -8 .. MaxArgs /\ a >= sp
    BY <1>2, MaxArgsAssumption
  <2>2. QED BY <1>1, <1>3, <2>1, ArgsStay
<1>6. FrameKept'
  <2>1. CASE shim.kind = "registers"
    BY <1>1, <2>1 DEF VarArgsInv, FrameKept
  <2>2. CASE shim.kind # "registers"
    <3>1. sp = -Frame /\ mem[sp] = FP /\ mem[sp + 1] = LR
      BY <1>1, <2>2 DEF VarArgsInv, FrameKept
    <3>2. sp \in -8 .. MaxArgs /\ sp + 1 \in -8 .. MaxArgs /\ sp >= sp /\ sp + 1 >= sp
      BY <1>2, <2>2, MaxArgsAssumption
    <3>3. mem'[sp] = FP /\ mem'[sp + 1] = LR
      BY <1>3, <3>1, <3>2
    <3>4. QED BY <1>1, <2>2, <3>1, <3>3 DEF FrameKept, Frame
  <2>3. QED BY <2>1, <2>2
<1>7. Handed'
  <2>1. Handed
    BY <1>1 DEF VarArgsInv
  <2>2. shim.kind \in Lists /\ host = "posix" => mem'[-6] = mem[-6] /\ mem'[-3] = mem[-3]
    BY <1>2, <1>3, MaxArgsAssumption
  <2>3. QED BY <1>1, <2>1, <2>2 DEF Handed
<1>8. QED BY <1>1, <1>4, <1>5, <1>6, <1>7 DEF VarArgsInv, Fits

(* What va_arg returns.                                                     *)
LEMMA VaArgFacts ==
    ASSUME VarArgsInv, at = "reading", NEW k \in 1 .. Len(args), k = Len(read) + 1,
           shim.kind = "third" => k = 1
    PROVE  VaArg \in Int /\ (Fits(k) => VaArg = Arg(k))
<1>1. /\ Handed /\ k \in Nat /\ k - 1 = Len(read) /\ Next_arg = k
      /\ k - 1 \in Words /\ mem[k - 1] = Arg(k)
      /\ Arg(k) \in Int
  BY CallFacts DEF VarArgsInv, Next_arg, Arg
<1>2. CASE shim.kind \in Lists /\ host = "posix"
  <2>1. ap = -6 /\ ap + 3 = -3
    BY <1>1, <1>2 DEF Handed
  <2>2. mem[ap + 3] = 0 /\ mem[ap] = k - 1
    BY <1>1, <1>2, <2>1 DEF Handed
  <2>3. VaArg = mem[k - 1]
    BY <1>2, <2>2 DEF VaArg, Lists
  <2>4. QED BY <1>1, <2>3
<1>3. CASE shim.kind \in Lists /\ host = "win32"
  <2>1. ap = k - 1
    BY <1>1, <1>3 DEF Handed
  <2>2. VaArg = mem[k - 1]
    BY <1>3, <2>1 DEF VaArg, Lists
  <2>3. QED BY <1>1, <2>2
<1>4. CASE shim.kind = "third"
  <2>1. VaArg = x[2] /\ x[2] = Arg(1) /\ k = 1
    BY <1>1, <1>4, CallFacts DEF VaArg, Handed, Lists
  <2>2. QED BY <1>1, <2>1
<1>5. CASE shim.kind = "registers" /\ host = "posix" /\ args[k] = "double"
  <2>1. VaArg = Junk
    BY <1>1, <1>5 DEF VaArg, Lists
  <2>2. ~Fits(k)
    BY <1>5 DEF Fits
  <2>3. QED BY <2>1, <2>2 DEF Junk
<1>6. CASE /\ shim.kind = "registers" /\ ~(host = "posix" /\ args[k] = "double")
           /\ shim.named + k <= 8
  <2>1. VaArg = x[shim.named + k - 1]
    BY <1>1, <1>6 DEF VaArg, Lists
  <2>2. VaArg = Arg(k)
    BY <1>1, <1>6, <2>1 DEF Handed
  <2>3. QED BY <1>1, <2>2
<1>7. CASE /\ shim.kind = "registers" /\ ~(host = "posix" /\ args[k] = "double")
           /\ ~(shim.named + k <= 8)
  <2>1. VaArg = mem[sp + shim.named + k - 9]
    BY <1>1, <1>7 DEF VaArg, Lists
  <2>2. PICK n \in 1 .. 3 : n = shim.named
    BY CallFacts, ShimFacts DEF ArgsType
  <2>3. sp = 0
    BY <1>7 DEF VarArgsInv, FrameKept
  <2>4. k <= MaxArgs
    <3>1. k <= Len(args) /\ Len(args) <= MaxArgs /\ Len(args) \in Nat
      BY CallFacts DEF ArgsType
    <3>2. QED BY <3>1, MaxArgsAssumption
  <2>5. 0 + n + k - 9 \in Words
    <3>1. k \in Nat /\ n + k > 8
      BY <1>1, <1>7, <2>2
    <3>2. QED BY <2>4, <3>1, MaxArgsAssumption DEF Words, Low
  <2>6. VaArg \in Int
    BY <2>1, <2>2, <2>3, <2>5, CallFacts, Loaded DEF ArgsType
  <2>7. ~Fits(k)
    BY <1>7 DEF Fits
  <2>8. QED BY <2>6, <2>7
<1>8. shim.kind \in Lists \/ shim.kind \in {"third", "registers"}
  BY CallFacts, ShimFacts DEF Lists, ArgsType
<1>9. host \in {"posix", "win32"}
  BY CallFacts DEF ArgsType
<1>10. QED BY <1>2, <1>3, <1>4, <1>5, <1>6, <1>7, <1>8, <1>9

LEMMA HostReadsStep == ASSUME VarArgsInv, HostReads PROVE VarArgsInv'
<1>1. PICK k \in 1 .. Len(args) : k = Len(read) + 1 /\ Next_arg = k
  <2>1. Next_arg \in DOMAIN args /\ Next_arg = Len(read) + 1
    BY DEF HostReads, Next_arg
  <2>2. DOMAIN args = 1 .. Len(args)
    BY CallFacts DEF ArgsType
  <2>3. QED BY <2>1, <2>2
<1>2. /\ at = "reading" /\ Handed
      /\ shim.kind = "third" => k = 1
      /\ read' = Append(read, VaArg)
      /\ shim.kind \in Lists /\ host = "posix" =>
            mem' = [mem EXCEPT ![ap] = mem[ap] + 1] /\ ap' = ap
      /\ ~(shim.kind \in Lists /\ host = "posix") =>
            mem' = mem /\ ap' = IF shim.kind \in Lists THEN ap + 1 ELSE ap
      /\ UNCHANGED <<host, shim, args, at, sp, x29, x30, x>>
  BY <1>1 DEF HostReads, VarArgsInv
<1>3. VaArg \in Int /\ (Fits(k) => VaArg = Arg(k))
  BY <1>1, <1>2, VaArgFacts
<1>4. /\ read' \in Seq(Int) /\ Len(read') = k /\ read'[k] = VaArg
      /\ \A j \in 1 .. Len(read) : read'[j] = read[j]
  BY <1>1, <1>2, <1>3, CallFacts DEF ArgsType
<1>5. /\ mem' \in Memory /\ ap' \in Int
      /\ \A a \in -8 .. MaxArgs : a # -6 => mem'[a] = mem[a]
      /\ shim.kind \in Lists /\ host = "posix" => mem'[-6] = k /\ ap' = -6
  <2>1. mem \in Memory /\ ap \in Int
    BY CallFacts DEF ArgsType
  <2>2. CASE shim.kind \in Lists /\ host = "posix"
    <3>1. ap = -6 /\ mem[-6] + 1 = k
      BY <1>1, <1>2, <2>2, CallFacts DEF Handed
    <3>2. mem' = [mem EXCEPT ![-6] = k] /\ ap' = -6
      BY <1>2, <2>2, <3>1
    <3>3. -6 \in Words /\ k \in Int
      BY Places, MaxArgsAssumption
    <3>4. /\ mem' \in Memory /\ mem'[-6] = k
          /\ \A b \in Words \ {-6} : mem'[b] = mem[b]
      BY <2>1, <3>2, <3>3, Stored
    <3>5. QED BY <3>2, <3>4, Places
  <2>3. CASE ~(shim.kind \in Lists /\ host = "posix")
    BY <1>2, <2>1, <2>3
  <2>4. QED BY <2>2, <2>3
<1>6. ArgsType'
  BY <1>1, <1>2, <1>4, <1>5, CallFacts DEF ArgsType
<1>7. ArgsInPlace'
  <2>1. \A a \in 0 .. MaxArgs : a \in -8 .. MaxArgs /\ a # -6
    BY MaxArgsAssumption
  <2>2. QED BY <1>2, <1>5, <2>1, ArgsStay
<1>8. FrameKept'
  <2>1. CASE shim.kind = "registers"
    BY <1>2, <2>1 DEF VarArgsInv, FrameKept
  <2>2. CASE shim.kind # "registers"
    <3>1. sp = -Frame /\ mem[sp] = FP /\ mem[sp + 1] = LR
      BY <1>2, <2>2 DEF VarArgsInv, FrameKept
    <3>2. sp \in {-8, -2} /\ sp + 1 \in {-7, -1}
      BY <3>1, CallFacts, FrameFacts
    <3>3. mem'[sp] = FP /\ mem'[sp + 1] = LR
      BY <1>5, <3>1, <3>2, MaxArgsAssumption
    <3>4. QED BY <1>2, <2>2, <3>1, <3>3 DEF FrameKept, Frame
  <2>3. QED BY <2>1, <2>2
<1>9. Handed'
  <2>1. mem'[-3] = mem[-3]
    BY <1>5, MaxArgsAssumption
  <2>2. shim.kind \in Lists /\ host = "win32" => ap' = k
    BY <1>1, <1>2, CallFacts DEF Handed
  <2>3. QED BY <1>2, <1>4, <1>5, <2>1, <2>2 DEF Handed
<1>10. ASSUME NEW j \in 1 .. Len(read') PROVE Fits(j)' => read'[j] = Arg(j)
  <2>1. Fits(j)' = Fits(j)
    BY <1>2 DEF Fits
  <2>2. CASE j = k
    BY <1>3, <1>4, <2>1, <2>2
  <2>3. CASE j # k
    <3>1. j \in 1 .. Len(read)
      BY <1>1, <1>4, <2>3, CallFacts
    <3>2. QED BY <1>4, <2>1, <3>1 DEF VarArgsInv
  <2>4. QED BY <2>2, <2>3
<1>11. QED BY <1>2, <1>6, <1>7, <1>8, <1>9, <1>10 DEF VarArgsInv

LEMMA HostReturnsStep == ASSUME VarArgsInv, HostReturns PROVE VarArgsInv'
<1>1. /\ at = "reading" /\ at' = "returned"
      /\ UNCHANGED <<host, shim, args, x, mem, ap, read>>
  BY DEF HostReturns
<1>2. sp' = 0 /\ x29' = FP /\ x30' = LR
  <2>1. CASE shim.kind = "registers"
    BY <1>1, <2>1 DEF HostReturns, VarArgsInv, FrameKept
  <2>2. CASE shim.kind # "registers"
    BY <1>1, <2>2, CallFacts, FrameFacts DEF HostReturns, VarArgsInv, FrameKept
  <2>3. QED BY <2>1, <2>2
<1>3. ArgsType'
  BY <1>1, <1>2, CallFacts DEF ArgsType
<1>4. ArgsInPlace' /\ FrameKept'
  BY <1>1, <1>2 DEF VarArgsInv, ArgsInPlace, FrameKept
<1>5. QED BY <1>1, <1>3, <1>4 DEF VarArgsInv, Fits

LEMMA VarArgsStep == ASSUME VarArgsInv, [VarArgsNext]_argVars PROVE VarArgsInv'
<1>1. CASE UNCHANGED argVars
  BY <1>1 DEF argVars, VarArgsInv, ArgsType, ArgsInPlace, FrameKept, Frame, Handed, Fits
<1>2. QED
  BY <1>1, PushStep, ListBodyStep, ThirdBodyStep, RegistersBodyStep, HostRunsStep,
     HostReadsStep, HostReturnsStep DEF VarArgsNext

(* Whichever shim, host and arguments, the host's k-th variadic argument is *)
(* the game's k-th, and the game gets its stack, frame and arguments back.  *)
THEOREM ArgumentsArrive == VarArgsSpec => []CallsTransparent
<1>1. VarArgsInit => VarArgsInv
  <2> SUFFICES ASSUME VarArgsInit PROVE VarArgsInv
    OBVIOUS
  <2>1. PICK n \in 0 .. MaxArgs : args \in [1 .. n -> {"int", "double"}]
    BY DEF VarArgsInit
  <2>2. args \in Seq({"int", "double"}) /\ Len(args) = n
    BY <2>1
  <2>3. mem \in [Low .. MaxArgs + 8 -> Int]
    BY <2>1, MaxArgsAssumption DEF VarArgsInit, Arg, Junk, Memory, Words, Low
  <2>4. x \in [0 .. 7 -> Int]
    BY DEF VarArgsInit, Junk
  <2>5. ArgsType
    <3>1. Len(args) <= MaxArgs /\ read \in Seq(Int) /\ Len(read) <= Len(args)
      BY <2>1, <2>2, MaxArgsAssumption DEF VarArgsInit
    <3>2. mem \in Memory
      BY <2>3 DEF Memory, Words
    <3>3. QED BY <2>2, <2>4, <3>1, <3>2 DEF VarArgsInit, ArgsType
  <2>6. ArgsInPlace
    <3>1. \A k \in 1 .. n : /\ k - 1 \in Low .. MaxArgs + 8
                            /\ (k - 1) + 1 = k /\ k \in DOMAIN args
      BY <2>1, MaxArgsAssumption DEF Low
    <3>2. mem = [a \in Low .. MaxArgs + 8 |-> IF a + 1 \in DOMAIN args THEN Arg(a + 1) ELSE Junk]
      BY DEF VarArgsInit
    <3>3. ASSUME NEW k \in 1 .. n PROVE mem[k - 1] = Arg(k)
      <4>1. mem[k - 1] = IF (k - 1) + 1 \in DOMAIN args THEN Arg((k - 1) + 1) ELSE Junk
        BY <3>1, <3>2
      <4>2. QED BY <3>1, <4>1
    <3>4. QED BY <2>2, <3>3 DEF ArgsInPlace
  <2>7. shim.kind = "adapter" => x[shim.named] = 0
    <3>1. shim.named \in 1 .. 3
      BY ShimFacts DEF VarArgsInit
    <3>2. QED BY <3>1 DEF VarArgsInit
  <2>8. QED BY <2>5, <2>6, <2>7 DEF VarArgsInit, VarArgsInv, FrameKept
<1>2. VarArgsInv => CallsTransparent
  <2> SUFFICES ASSUME VarArgsInv PROVE CallsTransparent
    OBVIOUS
  <2>1. DOMAIN read = 1 .. Len(read) /\ DOMAIN args = 1 .. Len(args)
    BY DEF VarArgsInv, ArgsType
  <2>2. KthArgument
    BY <2>1 DEF VarArgsInv, KthArgument
  <2>3. FrameReturned
    BY <2>1 DEF VarArgsInv, ArgsInPlace, FrameKept, FrameReturned
  <2>4. QED BY <2>2, <2>3 DEF CallsTransparent
<1>3. QED BY <1>1, <1>2, VarArgsStep, PTL DEF VarArgsSpec

-----------------------------------------------------------------------------
(* setjmp and longjmp. *)

File == [Regs -> Int]
WordsKept == 0 .. BufWords - 1

JumpType ==
    /\ regs \in File /\ saved \in Seq(File)
    /\ jmp_buf \in [WordsKept -> Int]

(* While the activation of the last setjmp lives, the buffer holds its      *)
(* registers, each in a word of its own.                                    *)
BufferHolds ==
    marked # Unmarked =>
       /\ marked.depth \in 0 .. Len(saved) /\ marked.regs \in File
       /\ \A k \in DOMAIN Preserved : jmp_buf[Word(k)] = marked.regs[Preserved[k]]

(* Since a jump, the game is where it took it, or in calls made from there. *)
BackAtMark ==
    jumped # NoJump =>
       /\ marked # Unmarked
       /\ Len(saved) = marked.depth => regs = marked.regs
       /\ jumped.w0 # 0 /\ (jumped.val # 0 => jumped.w0 = jumped.val)

JumpInv == JumpType /\ BufferHolds /\ BackAtMark

(* The registers are all different, and each has a word in the buffer.      *)
LEMMA PreservedFacts ==
    /\ DOMAIN Preserved = 1 .. 21
    /\ \A k \in 1 .. 21 : Preserved[k] \in Regs
    /\ \A k, l \in 1 .. 21 : Preserved[k] = Preserved[l] => k = l
    /\ \A r \in Regs : \E k \in 1 .. 21 : Preserved[k] = r
<1>1. DOMAIN Preserved = 1 .. 21
  BY DEF Preserved
<1>2. \A k, l \in 1 .. 21 : Preserved[k] = Preserved[l] => k = l
  BY DEF Preserved
<1>3. QED BY <1>1, <1>2 DEF Regs

LEMMA WordFacts ==
    /\ \A k \in 1 .. 21 : Word(k) \in WordsKept
    /\ \A k, l \in 1 .. 21 : Word(k) = Word(l) => k = l
<1>1. Len(Preserved) = 21
  BY DEF Preserved
<1>2. QED BY <1>1, RoomAssumption, BufAssumption DEF Word, WordsKept

LEMMA Truncated ==
    ASSUME NEW s \in Seq(File), NEW n \in 0 .. Len(s)
    PROVE  SubSeq(s, 1, n) \in Seq(File) /\ Len(SubSeq(s, 1, n)) = n
  OBVIOUS

LEMMA EnterStep == ASSUME JumpInv, Enter PROVE JumpInv'
<1>1. /\ saved' = Append(saved, regs) /\ UNCHANGED <<jmp_buf, marked, jumped>>
  BY DEF Enter
<1>2. PICK used : regs' = [r \in Regs |-> IF r \in used THEN Len(saved) + 2 ELSE regs[r]]
  BY DEF Enter
<1>3. regs \in File /\ saved \in Seq(File) /\ Len(saved) \in Nat
  BY DEF JumpInv, JumpType
<1>4. regs' \in File
  BY <1>2, <1>3 DEF File
<1>5. saved' \in Seq(File) /\ Len(saved') = Len(saved) + 1
  BY <1>1, <1>3
<1>6. JumpType'
  BY <1>1, <1>4, <1>5 DEF JumpInv, JumpType
<1>7. BufferHolds'
  BY <1>1, <1>3, <1>5 DEF JumpInv, BufferHolds
<1>8. BackAtMark'
  <2>1. marked # Unmarked => Len(saved') # marked.depth
    BY <1>3, <1>5 DEF JumpInv, BufferHolds
  <2>2. QED BY <1>1, <2>1 DEF JumpInv, BackAtMark
<1>9. QED BY <1>6, <1>7, <1>8 DEF JumpInv

LEMMA LeaveStep == ASSUME JumpInv, Leave PROVE JumpInv'
<1>1. /\ saved # << >> /\ saved \in Seq(File) /\ Len(saved) \in Nat \ {0}
      /\ regs' = saved[Len(saved)] /\ saved' = SubSeq(saved, 1, Len(saved) - 1)
      /\ marked' = IF marked.depth = Len(saved) THEN Unmarked ELSE marked
      /\ jumped' = NoJump /\ UNCHANGED jmp_buf
  BY DEF Leave, JumpInv, JumpType
<1>2. regs' \in File /\ saved' \in Seq(File) /\ Len(saved') = Len(saved) - 1
  <2>1. PICK n \in Nat : n = Len(saved) - 1
    BY <1>1
  <2>2. saved' \in Seq(File) /\ Len(saved') = n
    BY <1>1, <2>1, Truncated
  <2>3. Len(saved) \in 1 .. Len(saved)
    BY <1>1
  <2>4. QED BY <1>1, <2>1, <2>2, <2>3
<1>3. JumpType'
  BY <1>1, <1>2 DEF JumpInv, JumpType
<1>4. BufferHolds'
  <2>1. CASE marked.depth = Len(saved)
    BY <1>1, <2>1 DEF BufferHolds
  <2>2. CASE marked.depth # Len(saved)
    <3>1. marked' = marked
      BY <1>1, <2>2
    <3>2. marked # Unmarked => marked.depth \in 0 .. Len(saved) - 1
      BY <1>1, <2>2 DEF JumpInv, BufferHolds
    <3>3. QED BY <1>1, <1>2, <3>1, <3>2 DEF JumpInv, BufferHolds
  <2>3. QED BY <2>1, <2>2
<1>5. BackAtMark'
  BY <1>1 DEF BackAtMark
<1>6. QED BY <1>3, <1>4, <1>5 DEF JumpInv

(* What win_setjmp leaves in the buffer.                                    *)
LEMMA SetjmpStores ==
    ASSUME JumpInv, win_setjmp
    PROVE  /\ jmp_buf' \in [WordsKept -> Int]
           /\ \A k \in 1 .. 21 : jmp_buf'[Word(k)] = regs[Preserved[k]]
<1> DEFINE last(w) == CHOOSE k \in DOMAIN Preserved :
                         Word(k) = w /\ \A l \in DOMAIN Preserved : Word(l) = w => l <= k
<1>1. /\ jmp_buf \in [WordsKept -> Int] /\ regs \in File /\ DOMAIN jmp_buf = WordsKept
      /\ jmp_buf' = [w \in DOMAIN jmp_buf |->
                        IF \E k \in DOMAIN Preserved : Word(k) = w
                        THEN regs[Preserved[last(w)]] ELSE jmp_buf[w]]
  BY DEF JumpInv, JumpType, win_setjmp
<1>2. ASSUME NEW k \in 1 .. 21 PROVE last(Word(k)) = k
  <2>1. \A l \in 1 .. 21 : Word(l) = Word(k) => l = k
    BY WordFacts
  <2>2. \E l \in DOMAIN Preserved :
           Word(l) = Word(k) /\ \A m \in DOMAIN Preserved : Word(m) = Word(k) => m <= l
    BY <2>1, PreservedFacts
  <2>3. last(Word(k)) \in DOMAIN Preserved /\ Word(last(Word(k))) = Word(k)
    BY <2>2
  <2>4. QED BY <2>1, <2>3, PreservedFacts
<1> HIDE DEF last
<1>3. ASSUME NEW k \in 1 .. 21 PROVE jmp_buf'[Word(k)] = regs[Preserved[k]]
  BY <1>1, <1>2, WordFacts, PreservedFacts
<1>4. ASSUME NEW w \in WordsKept PROVE jmp_buf'[w] \in Int
  <2>1. CASE \E k \in 1 .. 21 : Word(k) = w
    <3>1. PICK k \in 1 .. 21 : Word(k) = w
      BY <2>1
    <3>2. regs[Preserved[k]] \in Int
      BY <1>1, PreservedFacts DEF File
    <3>3. QED BY <1>3, <3>1, <3>2
  <2>2. CASE ~\E k \in 1 .. 21 : Word(k) = w
    <3>1. jmp_buf'[w] = jmp_buf[w]
      BY <1>1, <2>2, PreservedFacts
    <3>2. QED BY <1>1, <3>1
  <2>3. QED BY <2>1, <2>2
<1>5. jmp_buf' \in [WordsKept -> Int]
  BY <1>1, <1>4
<1>6. QED BY <1>3, <1>5

LEMMA SetjmpStep == ASSUME JumpInv, win_setjmp PROVE JumpInv'
<1>1. /\ marked' = [depth |-> Len(saved), regs |-> regs] /\ jumped' = NoJump
      /\ UNCHANGED <<regs, saved>>
  BY DEF win_setjmp
<1>2. regs \in File /\ saved \in Seq(File) /\ Len(saved) \in Nat
  BY DEF JumpInv, JumpType
<1>3. JumpType'
  BY <1>1, <1>2, SetjmpStores DEF JumpType
<1>4. marked'.depth = Len(saved) /\ marked'.regs = regs
  BY <1>1
<1>5. BufferHolds'
  BY <1>1, <1>2, <1>4, SetjmpStores, PreservedFacts DEF BufferHolds
<1>6. BackAtMark'
  BY <1>1 DEF BackAtMark
<1>7. QED BY <1>3, <1>5, <1>6 DEF JumpInv

LEMMA LongjmpStep == ASSUME JumpInv, win_longjmp PROVE JumpInv'
<1> DEFINE place(r) == CHOOSE l \in DOMAIN Preserved : Preserved[l] = r
<1>1. /\ marked # Unmarked /\ saved' = SubSeq(saved, 1, marked.depth)
      /\ UNCHANGED <<jmp_buf, marked>>
      /\ regs' = [r \in Regs |-> IF Word(place(r)) \in DOMAIN jmp_buf
                                 THEN jmp_buf[Word(place(r))] ELSE 0]
  BY DEF win_longjmp
<1>2. PICK val \in Values : jumped' = [val |-> val, w0 |-> IF val = 0 THEN 1 ELSE val]
  BY DEF win_longjmp
<1>3. /\ jmp_buf \in [WordsKept -> Int] /\ saved \in Seq(File) /\ Len(saved) \in Nat
      /\ marked.depth \in 0 .. Len(saved) /\ marked.regs \in File
      /\ \A k \in 1 .. 21 : jmp_buf[Word(k)] = marked.regs[Preserved[k]]
  <2>1. jmp_buf \in [WordsKept -> Int] /\ saved \in Seq(File) /\ Len(saved) \in Nat
    BY DEF JumpInv, JumpType
  <2>2. /\ marked.depth \in 0 .. Len(saved) /\ marked.regs \in File
        /\ \A k \in DOMAIN Preserved : jmp_buf[Word(k)] = marked.regs[Preserved[k]]
    BY <1>1 DEF JumpInv, BufferHolds
  <2>3. DOMAIN Preserved = 1 .. 21
    BY PreservedFacts
  <2>4. QED BY <2>1, <2>2, <2>3
<1>4. ASSUME NEW r \in Regs PROVE regs'[r] = marked.regs[r]
  <2>1. place(r) \in 1 .. 21 /\ Preserved[place(r)] = r
    BY PreservedFacts
  <2>2. Word(place(r)) \in DOMAIN jmp_buf
    BY <1>3, <2>1, WordFacts
  <2> HIDE DEF place
  <2>3. QED BY <1>1, <1>3, <2>1, <2>2
<1>5. regs' = marked.regs
  <2>1. DOMAIN regs' = Regs
    BY <1>1
  <2> HIDE DEF place
  <2>2. regs' = [r \in Regs |-> regs'[r]]
    BY <1>1
  <2>3. marked.regs = [r \in Regs |-> marked.regs[r]]
    BY <1>3 DEF File
  <2>4. QED BY <1>4, <2>2, <2>3
<1>6. saved' \in Seq(File) /\ Len(saved') = marked.depth
  <2>1. PICK d \in 0 .. Len(saved) : d = marked.depth
    BY <1>3
  <2>2. saved' = SubSeq(saved, 1, d)
    BY <1>1, <2>1
  <2>3. QED BY <1>3, <2>1, <2>2, Truncated
<1>7. JumpType'
  BY <1>1, <1>3, <1>5, <1>6 DEF JumpType
<1>8. BufferHolds'
  BY <1>1, <1>3, <1>6, PreservedFacts DEF BufferHolds
<1>9. BackAtMark'
  <2>1. val \in Int
    BY BufAssumption
  <2>2. jumped'.w0 # 0 /\ (jumped'.val # 0 => jumped'.w0 = jumped'.val)
    BY <1>2, <2>1
  <2>3. QED BY <1>1, <1>5, <2>2 DEF BackAtMark
<1>10. QED BY <1>7, <1>8, <1>9 DEF JumpInv

LEMMA JumpStep == ASSUME JumpInv, [JumpNext]_jumpVars PROVE JumpInv'
<1>1. CASE UNCHANGED jumpVars
  BY <1>1 DEF jumpVars, JumpInv, JumpType, BufferHolds, BackAtMark
<1>2. QED BY <1>1, EnterStep, LeaveStep, SetjmpStep, LongjmpStep DEF JumpNext

(* With whatever in the registers, from whatever depth and as often as it   *)
(* is done, a longjmp gives the game the registers it had at its setjmp and *)
(* a result other than 0.                                                   *)
THEOREM JumpsRestore == JumpSpec => []JumpRestores
<1>1. JumpInit => JumpInv
  <2> SUFFICES ASSUME JumpInit PROVE JumpInv
    OBVIOUS
  <2>1. JumpType
    BY DEF JumpInit, JumpType, File, WordsKept
  <2>2. BufferHolds /\ BackAtMark
    BY DEF JumpInit, BufferHolds, BackAtMark
  <2>3. QED BY <2>1, <2>2 DEF JumpInv
<1>2. JumpInv => JumpRestores
  BY DEF JumpInv, BackAtMark, JumpRestores
<1>3. QED BY <1>1, <1>2, JumpStep, PTL DEF JumpSpec

-----------------------------------------------------------------------------
(* The stack probe. *)

(* Where a prologue has stored is committed, and so is all above.  While    *)
(* the probe walks down it stands on committed pages, and what remains ends *)
(* where the frame will: so the end of a frame that was taken is committed  *)
(* or in the guard page.                                                    *)
ProbeInv ==
    /\ doing \in {"running", "probing", "push_fault"}
    /\ stack \in Int /\ frame \in Nat /\ pushed \in Nat /\ committed \in Int
    /\ x16 \in Int /\ x17 \in Int
    /\ doing = "running" => /\ committed <= stack + PageSize
                            /\ committed <= stack + frame
    /\ doing = "probing" => /\ x16 >= committed /\ x16 - x17 = stack - frame
                            /\ committed <= stack
    /\ doing = "push_fault" => frame > 0 /\ stack < committed

LEMMA TouchFacts ==
    ASSUME committed \in Int, NEW a \in Int, Touch(a)
    PROVE  /\ committed' \in Int /\ committed' <= committed
           /\ a >= committed'
BY ProbeAssumption DEF Touch

LEMMA ProbeStep == ASSUME ProbeInv, [ProbeNext]_probeVars PROVE ProbeInv'
<1> USE ProbeAssumption
<1>1. CASE Prologue
  <2>1. PICK k \in 1 .. MaxPush, n \in 0 .. MaxFrame :
           \/ /\ Touch(stack - k) /\ doing' = "probing"
              /\ stack' = stack - k /\ pushed' = k /\ frame' = n
              /\ x16' = stack' /\ x17' = n
           \/ /\ Faults(stack - k) /\ doing' = "push_fault"
              /\ UNCHANGED <<stack, pushed, frame, committed, x16, x17>>
    BY <1>1 DEF Prologue
  <2>2. k \in Int /\ 1 <= k /\ k <= PageSize /\ n \in Nat /\ stack - k \in Int
    BY <2>1 DEF ProbeInv
  <2>3. CASE Touch(stack - k) /\ doing' = "probing"
    <3>1. committed' \in Int /\ stack - k >= committed'
      BY <2>2, <2>3, TouchFacts DEF ProbeInv
    <3>2. stack' = stack - k /\ pushed' = k /\ frame' = n /\ x16' = stack' /\ x17' = n
      BY <2>1, <2>3
    <3>3. QED BY <2>2, <2>3, <3>1, <3>2 DEF ProbeInv
  <2>4. CASE Faults(stack - k) /\ doing' = "push_fault"
    <3>1. UNCHANGED <<stack, pushed, frame, committed, x16, x17>>
      BY <2>1, <2>4
    <3>2. doing = "running" BY <1>1 DEF Prologue
    <3>3. stack < committed /\ frame > 0
      BY <2>2, <2>4, <3>2 DEF Faults, ProbeInv
    <3>4. QED BY <2>4, <3>1, <3>3 DEF ProbeInv
  <2>5. QED BY <2>1, <2>3, <2>4
<1>2. CASE Probe
  <2>1. x16 - Step \in Int /\ ~Faults(x16 - Step)
    BY <1>2 DEF Probe, ProbeInv, Faults
  <2>2. Touch(x16 - Step) /\ doing' = "probing"
    BY <1>2, <2>1 DEF Probe
  <2>3. committed' \in Int /\ x16 - Step >= committed'
    BY <2>1, <2>2, TouchFacts DEF ProbeInv
  <2>4. committed' <= committed BY <2>1, <2>2, TouchFacts DEF ProbeInv
  <2>5. QED BY <1>2, <2>2, <2>3, <2>4 DEF Probe, ProbeInv
<1>3. CASE Take BY <1>3 DEF Take, More, ProbeInv
<1>4. CASE Access
  <2>1. PICK a \in stack .. stack + frame + pushed :
           \/ Touch(a) /\ UNCHANGED doing
           \/ Faults(a) /\ doing' = "fault" /\ UNCHANGED committed
    BY <1>4 DEF Access
  <2>2. a \in Int /\ a >= stack BY <2>1 DEF ProbeInv
  <2>3. ~Faults(a) BY <1>4, <2>2 DEF Access, ProbeInv, Faults
  <2>4. committed' \in Int /\ committed' <= committed /\ doing' = doing
    BY <2>1, <2>2, <2>3, TouchFacts DEF ProbeInv
  <2>5. doing = "running" /\ UNCHANGED <<stack, pushed, frame, x16, x17>>
    BY <1>4 DEF Access
  <2>6. QED BY <2>4, <2>5 DEF ProbeInv
<1>5. CASE Release
  <2>1. PICK n \in (stack + frame + pushed) .. 0 : stack' = n
    BY <1>5 DEF Release
  <2>2. n \in Int /\ stack + frame <= n BY <2>1 DEF ProbeInv
  <2>3. QED BY <1>5, <2>1, <2>2 DEF Release, ProbeInv
<1>6. CASE UNCHANGED probeVars BY <1>6 DEF probeVars, ProbeInv
<1>7. QED BY <1>1, <1>2, <1>3, <1>4, <1>5, <1>6 DEF ProbeNext

(* Whatever the sizes of pages and frames are, as long as neither a step of *)
(* the probe nor what a prologue stores is longer than a page: no access in *)
(* a frame and none of the probe goes past the guard page, and a prologue's *)
(* store does so only right below a frame whose end was never touched.      *)
THEOREM ProbesNeverFault == ProbeSpec => []NoFault
<1>1. ProbeInit => ProbeInv
  BY ProbeAssumption DEF ProbeInit, ProbeInv
<1>2. ProbeInv => NoFault
  BY DEF ProbeInv, NoFault
<1>3. QED BY <1>1, <1>2, ProbeStep, PTL DEF ProbeSpec

-----------------------------------------------------------------------------
(* The counters. *)

(* Each dump stands between the counters as it found them and as they are,  *)
(* and those never go down.                                                 *)
CountersInv ==
    /\ shim_counters \in [ShimIds -> Nat]
    /\ i \in [Dumpers -> 1 .. Idle]
    /\ before \in [Dumpers -> [ShimIds -> Nat]]
    /\ printed \in [Dumpers -> [ShimIds -> Nat]]
    /\ dumps \in [Dumpers -> Nat]
    /\ \A d \in Dumpers, s \in ShimIds : before[d][s] <= shim_counters[s]
    /\ SnapshotBetween

LEMMA CountersStep ==
    ASSUME CountersInv, [CountersNext]_countVars PROVE CountersInv'
<1>0. ShimIds \subseteq Nat /\ Idle \in Nat /\ \A s \in ShimIds : s < Idle
  BY CountersAssumption DEF ShimIds, Idle
<1>1. CASE \E s \in ShimIds : SHIM_HIT(s)
  <2>1. PICK s \in ShimIds : SHIM_HIT(s) BY <1>1
  <2>2. \A r \in ShimIds : shim_counters'[r] \in Nat /\ shim_counters[r] <= shim_counters'[r]
    BY <2>1 DEF SHIM_HIT, CountersInv
  <2>3. shim_counters' \in [ShimIds -> Nat]
    BY <2>1 DEF SHIM_HIT, CountersInv
  <2>4. UNCHANGED <<i, before, printed, dumps>> BY <2>1 DEF SHIM_HIT
  <2>5. ASSUME NEW d \in Dumpers, NEW r \in ShimIds
        PROVE  /\ before[d][r] <= shim_counters'[r]
               /\ printed[d][r] <= shim_counters[r] => printed[d][r] <= shim_counters'[r]
    <3>1. before[d][r] \in Nat /\ printed[d][r] \in Nat /\ shim_counters[r] \in Nat
      BY DEF CountersInv
    <3>2. before[d][r] <= shim_counters[r] BY DEF CountersInv
    <3>3. QED BY <2>2, <3>1, <3>2
  <2>6. SnapshotBetween' BY <2>4, <2>5 DEF CountersInv, SnapshotBetween
  <2>7. QED BY <2>3, <2>4, <2>5, <2>6 DEF CountersInv
<1>2. CASE \E d \in Dumpers : StartDump(d)
  <2>1. PICK d \in Dumpers : StartDump(d) BY <1>2
  <2>2. /\ i' \in [Dumpers -> 1 .. Idle] /\ dumps' \in [Dumpers -> Nat]
        /\ before' \in [Dumpers -> [ShimIds -> Nat]]
        /\ printed' \in [Dumpers -> [ShimIds -> Nat]]
    BY <2>1 DEF StartDump, CountersInv, Zeros
  <2>3. \A e \in Dumpers, s \in ShimIds : before'[e][s] <= shim_counters[s]
    BY <2>1 DEF StartDump, CountersInv
  <2>4. \A e \in Dumpers \ {d} : /\ i'[e] = i[e] /\ dumps'[e] = dumps[e]
                                 /\ before'[e] = before[e] /\ printed'[e] = printed[e]
    BY <2>1 DEF StartDump, CountersInv
  <2>5. i'[d] = 1 /\ \A s \in ShimIds : printed'[d][s] = 0
    BY <2>1 DEF StartDump, CountersInv, Zeros
  <2>6. shim_counters' = shim_counters BY <2>1 DEF StartDump
  <2>7. ASSUME NEW e \in Dumpers, NEW s \in ShimIds
        PROVE  /\ s < i'[e] /\ dumps'[e] > 0 =>
                    before'[e][s] <= printed'[e][s] /\ printed'[e][s] <= shim_counters'[s]
               /\ s >= i'[e] => printed'[e][s] = 0
    <3>1. CASE e = d
      <4>1. s \in Nat /\ s >= 1 BY CountersAssumption DEF ShimIds
      <4>2. QED BY <2>5, <3>1, <4>1
    <3>2. CASE e # d BY <2>4, <2>6, <3>2 DEF SnapshotBetween, CountersInv
    <3>3. QED BY <3>1, <3>2
  <2>8. SnapshotBetween' BY <2>7 DEF SnapshotBetween
  <2>9. QED BY <2>2, <2>3, <2>6, <2>8 DEF CountersInv
<1>3. CASE \E d \in Dumpers : DumpRound(d)
  <2>1. PICK d \in Dumpers : DumpRound(d) BY <1>3
  <2>2. i[d] \in ShimIds /\ i'[d] = i[d] + 1
    BY <2>1, CountersAssumption DEF DumpRound, CountersInv, ShimIds, Idle
  <2>3. i[d] + 1 \in 1 .. Idle
    BY <2>2, CountersAssumption DEF ShimIds, Idle
  <2>4. i' \in [Dumpers -> 1 .. Idle] /\ printed' \in [Dumpers -> [ShimIds -> Nat]]
    BY <2>1, <2>2, <2>3 DEF DumpRound, Prints, CountersInv
  <2>5. \A e \in Dumpers \ {d} : i'[e] = i[e] /\ printed'[e] = printed[e]
    BY <2>1 DEF DumpRound, Prints, CountersInv
  <2>6. /\ printed'[d][i[d]] = shim_counters[i[d]]
        /\ \A s \in ShimIds \ {i[d]} : printed'[d][s] = printed[d][s]
    BY <2>1, <2>2 DEF DumpRound, Prints, CountersInv
  <2>7. UNCHANGED <<shim_counters, before, dumps>> BY <2>1 DEF DumpRound
  <2>8. ASSUME NEW s \in ShimIds
        PROVE  /\ s < i'[d] /\ dumps'[d] > 0 =>
                    before'[d][s] <= printed'[d][s] /\ printed'[d][s] <= shim_counters'[s]
               /\ s >= i'[d] => printed'[d][s] = 0
    <3>1. CASE s = i[d]
      <4>1. before[d][s] <= shim_counters[s] /\ shim_counters[s] \in Nat
        BY DEF CountersInv
      <4>2. s \in Nat /\ ~(s >= s + 1) BY <1>0
      <4>3. QED BY <2>2, <2>6, <2>7, <3>1, <4>1, <4>2
    <3>2. CASE s # i[d]
      <4>1. /\ s < i[d] /\ dumps[d] > 0 =>
                 before[d][s] <= printed[d][s] /\ printed[d][s] <= shim_counters[s]
            /\ s >= i[d] => printed[d][s] = 0
        BY DEF CountersInv, SnapshotBetween
      <4>2. (s < i'[d] => s < i[d]) /\ (s >= i'[d] => s >= i[d])
        BY <1>0, <2>2, <3>2
      <4>3. QED BY <2>6, <2>7, <3>2, <4>1, <4>2
    <3>3. QED BY <3>1, <3>2
  <2>9. ASSUME NEW e \in Dumpers \ {d}, NEW s \in ShimIds
        PROVE  /\ s < i'[e] /\ dumps'[e] > 0 =>
                    before'[e][s] <= printed'[e][s] /\ printed'[e][s] <= shim_counters'[s]
               /\ s >= i'[e] => printed'[e][s] = 0
    BY <2>5, <2>7 DEF CountersInv, SnapshotBetween
  <2>10. SnapshotBetween' BY <2>8, <2>9 DEF SnapshotBetween
  <2>11. QED BY <2>4, <2>7, <2>10 DEF CountersInv
<1>4. CASE UNCHANGED countVars
  BY <1>4 DEF countVars, CountersInv, SnapshotBetween
<1>5. QED BY <1>1, <1>2, <1>3, <1>4 DEF CountersNext

(* Every dump prints, for each shim, a count between those before and       *)
(* after, for any number of shims, hits and dumps, and whether or not the   *)
(* one on demand interrupts the one at exit.                                *)
THEOREM DumpsInBetween == CountersSpec => []SnapshotBetween
<1>1. CountersInit => CountersInv
  BY CountersAssumption
  DEF CountersInit, CountersInv, SnapshotBetween, Zeros, Idle, ShimIds, Dumpers
<1>2. CountersInv => SnapshotBetween
  BY DEF CountersInv
<1>3. QED BY <1>1, <1>2, CountersStep, PTL DEF CountersSpec

-----------------------------------------------------------------------------
(* The crash handler. *)

Activation == [step : {"report", "walk", "map", "exit"}, depth : Nat,
               start : Frames \cup {0}, own : Nat, frame : Frames \cup {0}]

CrashType ==
    /\ os \in {"posix", "win32"}
    /\ frames \in [Frames -> Frames \cup {0, Segv, Bus, LowLr}]
    /\ handlers \in [Threads -> Seq(Activation)]
    /\ reset \subseteq Signals

(* The walk of the n-th activation on a thread meets the frames of the ones *)
(* before it first: what it has walked and what is left of them is at least *)
(* what they have.                                                          *)
OwnFirst(hs) ==
    hs # << >> => LET h == hs[Len(hs)]
                  IN  h.own + h.depth >= HandlerFrames * (Len(hs) - 1)

(* On POSIX each activation on a thread has used up a signal.  On Windows   *)
(* an activation that may fault again has walked past the ones before it.   *)
CrashInv ==
    /\ CrashType
    /\ os = "posix" => \A t \in Threads : Len(handlers[t]) <= Cardinality(reset)
    /\ os = "win32" => \A t \in Threads : /\ OwnFirst(handlers[t])
                                          /\ Len(handlers[t]) <= Nesting
    /\ os = "win32" /\ Nesting <= Room => process # "killed"

-----------------------------------------------------------------------------
LEMMA ProductNat == ASSUME NEW a \in Nat, NEW b \in Nat PROVE a * b \in Nat
OBVIOUS

(* The frames of n activations that fit in a walk are fewer than the        *)
(* quotient, rounded up, of Nesting.                                        *)
LEMMA FewerThanQuotient ==
    ASSUME NEW n \in Nat, NEW m \in Nat, NEW f \in Nat \ {0}, f * n < m
    PROVE  n < (m + f - 1) \div f
<1> DEFINE q == (m + f - 1) \div f
<1>1. q \in Nat /\ m + f - 1 < f * (q + 1)
  BY Z3
<1>2. f * (q + 1) = f * q + f /\ f * q \in Nat /\ f * n \in Nat
  BY <1>1, Z3
<1>3. f * n < f * q
  <2> HIDE DEF q
  <2> QED BY <1>1, <1>2
<1>4. n < q
  <2> HIDE DEF q
  <2> SUFFICES ASSUME q <= n PROVE FALSE BY <1>1
  <2>1. PICK k \in Nat : n = q + k BY <1>1
  <2>2. f * n = f * q + f * k /\ f * k \in Nat BY <1>1, <2>1, Z3
  <2>3. QED BY <1>2, <1>3, <2>2
<1>5. QED BY <1>4

LEMMA SignalCount == IsFiniteSet(Signals) /\ Cardinality(Signals) = 3
<1>1. Signals = {-1, -2, -4} BY DEF Signals, Segv, Bus, Ill
<1>2. IsFiniteSet({}) /\ Cardinality({}) = 0 BY FS_EmptySet
<1>3. IsFiniteSet({-1}) /\ Cardinality({-1}) = 1
  BY FS_Singleton
<1>4. IsFiniteSet({-1, -2}) /\ Cardinality({-1, -2}) = 2
  <2>1. {-1} \cup {-2} = {-1, -2} /\ -2 \notin {-1} OBVIOUS
  <2>2. QED BY <1>3, <2>1, FS_AddElement
<1>5. {-1, -2} \cup {-4} = {-1, -2, -4} /\ -4 \notin {-1, -2} OBVIOUS
<1>6. QED BY <1>1, <1>4, <1>5, FS_AddElement

LEMMA NestingType ==
    ASSUME CrashType PROVE Nesting \in Nat /\ Nesting >= 1
<1>1. Cardinality(Signals) = 3 BY SignalCount
<1>2. (MaxFrames + HandlerFrames - 1) \div HandlerFrames \in Nat
  BY CrashAssumption, Z3
<1>3. QED BY <1>1, <1>2 DEF Nesting

-----------------------------------------------------------------------------
LEMMA SetTopFacts ==
    ASSUME CrashType, NEW t \in Threads, handlers[t] # << >>,
           NEW h \in Activation, SetTop(t, h)
    PROVE  /\ handlers' \in [Threads -> Seq(Activation)]
           /\ Len(handlers'[t]) = Len(handlers[t])
           /\ handlers'[t] # << >> /\ handlers'[t][Len(handlers'[t])] = h
           /\ \A u \in Threads \ {t} : handlers'[u] = handlers[u]
<1> DEFINE hs == handlers[t]
           new == [hs EXCEPT ![Len(hs)] = h]
<1>1. hs \in Seq(Activation) /\ hs # << >> /\ Len(hs) \in 1 .. Len(hs)
  BY DEF CrashType
<1>2. new \in Seq(Activation) /\ Len(new) = Len(hs) /\ new[Len(hs)] = h
  BY <1>1
<1>3. handlers' = [handlers EXCEPT ![t] = new]
  BY DEF SetTop
<1>4. handlers'[t] = new /\ \A u \in Threads \ {t} : handlers'[u] = handlers[u]
  BY <1>3 DEF CrashType
<1>5. handlers' \in [Threads -> Seq(Activation)]
  BY <1>2, <1>3 DEF CrashType
<1>6. new # << >> BY <1>1, <1>2
<1>7. QED BY <1>2, <1>4, <1>5, <1>6

(* A step of the walk keeps the bounds when it does not start an activation *)
(* and the top one has not lost count.                                      *)
LEMMA WalkOn ==
    ASSUME CrashInv, NEW t \in Threads, handlers[t] # << >>,
           NEW h \in Activation, SetTop(t, h),
           h.own + h.depth >= Top(t).own + Top(t).depth,
           UNCHANGED <<os, frames, process, reset>>
    PROVE  CrashInv'
<1>1. CrashType BY DEF CrashInv
<1>2. /\ handlers' \in [Threads -> Seq(Activation)]
      /\ Len(handlers'[t]) = Len(handlers[t])
      /\ handlers'[t] # << >> /\ handlers'[t][Len(handlers'[t])] = h
      /\ \A u \in Threads \ {t} : handlers'[u] = handlers[u]
  BY <1>1, SetTopFacts
<1>3. CrashType' BY <1>1, <1>2 DEF CrashType
<1>4. Nesting' = Nesting BY DEF Nesting
<1>5. \A u \in Threads : Len(handlers'[u]) = Len(handlers[u]) BY <1>2
<1>6. ASSUME os = "win32" PROVE \A u \in Threads : OwnFirst(handlers'[u])
  <2>1. OwnFirst(handlers[t]) /\ \A u \in Threads \ {t} : OwnFirst(handlers[u])
    BY <1>6 DEF CrashInv
  <2>2. Top(t).own + Top(t).depth >= HandlerFrames * (Len(handlers[t]) - 1)
    BY <2>1 DEF OwnFirst, Top
  <2>3. /\ h.own + h.depth \in Nat /\ Top(t).own + Top(t).depth \in Nat
        /\ HandlerFrames * (Len(handlers[t]) - 1) \in Nat
    <3>1. handlers[t] \in Seq(Activation) /\ Len(handlers[t]) \in 1 .. Len(handlers[t])
      BY <1>1 DEF CrashType
    <3>2. Top(t) \in Activation BY <3>1 DEF Top
    <3>3. Len(handlers[t]) - 1 \in Nat BY <3>1
    <3>4. HandlerFrames * (Len(handlers[t]) - 1) \in Nat
      BY <3>3, ProductNat, CrashAssumption
    <3>5. QED BY <3>2, <3>4 DEF Activation
  <2>4. h.own + h.depth >= HandlerFrames * (Len(handlers'[t]) - 1)
    BY <1>2, <2>2, <2>3
  <2>5. QED BY <1>2, <2>1, <2>4 DEF OwnFirst
<1>7. QED BY <1>3, <1>4, <1>5, <1>6 DEF CrashInv

(* So does a new activation: the first one, or one that has walked past     *)
(* those before it.                                                         *)
LEMMA RaiseOn ==
    ASSUME CrashInv, NEW t \in Threads, NEW sig \in Signals,
           NEW start \in Frames \cup {0}, Raise(t, sig, start),
           process = "running", UNCHANGED <<os, frames>>,
           os = "win32" /\ handlers[t] # << >> =>
               HandlerFrames * (Len(handlers[t]) - 1) < MaxFrames
    PROVE  CrashInv'
<1> DEFINE n == Len(handlers[t])
           h == [step |-> "report", depth |-> 0, start |-> start,
                 own |-> HandlerFrames * n, frame |-> start]
           dies == IF os = "posix" THEN sig \in reset ELSE n = Room
<1>1. CrashType BY DEF CrashInv
<1>2. n \in Nat /\ handlers[t] \in Seq(Activation) BY <1>1 DEF CrashType
<1>3. Nesting' = Nesting /\ Nesting \in Nat /\ Nesting >= 1
  BY <1>1, NestingType DEF Nesting
<1>4. ASSUME os = "win32" PROVE n < Nesting
  <2>1. CASE handlers[t] = << >> BY <1>3, <2>1
  <2>2. CASE handlers[t] # << >>
    <3>1. n - 1 \in Nat BY <1>2, <2>2
    <3>2. HandlerFrames * (n - 1) < MaxFrames BY <1>4, <2>2
    <3>3. n - 1 < (MaxFrames + HandlerFrames - 1) \div HandlerFrames
      BY <3>1, <3>2, FewerThanQuotient, CrashAssumption
    <3>4. Nesting = 1 + ((MaxFrames + HandlerFrames - 1) \div HandlerFrames)
      BY <1>4 DEF Nesting
    <3>5. (MaxFrames + HandlerFrames - 1) \div HandlerFrames \in Int
      BY CrashAssumption, Z3
    <3>6. QED BY <1>2, <3>3, <3>4, <3>5
  <2>3. QED BY <2>1, <2>2
<1>5. CASE dies
  <2>1. process' = "killed" /\ UNCHANGED <<handlers, reset>> BY <1>5 DEF Raise
  <2>2. ~(os = "win32" /\ Nesting <= Room)
    <3>1. SUFFICES ASSUME os = "win32", Nesting <= Room PROVE FALSE OBVIOUS
    <3>2. n = Room BY <1>5, <3>1
    <3>3. n < Nesting BY <1>4, <3>1
    <3>4. QED BY <1>2, <1>3, <3>1, <3>2, <3>3
  <2>3. QED BY <1>3, <2>1, <2>2 DEF CrashInv, CrashType
<1>6. CASE ~dies
  <2>1. /\ handlers' = [handlers EXCEPT ![t] = Append(@, h)]
        /\ reset' = IF os = "posix" THEN reset \cup {sig} ELSE reset
        /\ process' = process
    BY <1>6 DEF Raise
  <2>2. h \in Activation
    <3>1. HandlerFrames * n \in Nat BY <1>2, ProductNat, CrashAssumption
    <3>2. QED BY <3>1 DEF Activation
  <2>3. /\ Append(handlers[t], h) \in Seq(Activation)
        /\ Len(Append(handlers[t], h)) = n + 1
        /\ Append(handlers[t], h)[n + 1] = h
    BY <1>2, <2>2
  <2>4. /\ handlers'[t] = Append(handlers[t], h)
        /\ \A u \in Threads \ {t} : handlers'[u] = handlers[u]
        /\ handlers' \in [Threads -> Seq(Activation)]
    BY <2>1, <2>3, <1>1 DEF CrashType
  <2>5. CrashType' BY <1>1, <2>1, <2>4 DEF CrashType
  <2>6. ASSUME os = "posix"
        PROVE  \A u \in Threads : Len(handlers'[u]) <= Cardinality(reset')
    <3>1. sig \notin reset /\ reset' = reset \cup {sig} BY <1>6, <2>1, <2>6
    <3>2. IsFiniteSet(reset)
      BY <1>1, SignalCount, FS_Subset DEF CrashType
    <3>3. Cardinality(reset') = Cardinality(reset) + 1 /\ Cardinality(reset) \in Nat
      BY <3>1, <3>2, FS_AddElement, FS_CardinalityType
    <3>4. \A u \in Threads : Len(handlers[u]) <= Cardinality(reset)
      BY <2>6 DEF CrashInv
    <3>5. \A u \in Threads : Len(handlers[u]) \in Nat BY <1>1 DEF CrashType
    <3>6. QED BY <2>3, <2>4, <3>3, <3>4, <3>5
  <2>7. ASSUME os = "win32"
        PROVE  \A u \in Threads : OwnFirst(handlers'[u]) /\ Len(handlers'[u]) <= Nesting
    <3>1. n + 1 <= Nesting BY <1>2, <1>3, <1>4, <2>7
    <3>2. OwnFirst(handlers'[t])
      <4>1. h.own + h.depth = HandlerFrames * n
        BY <1>2, ProductNat, CrashAssumption
      <4>2. (n + 1) - 1 = n BY <1>2
      <4>3. HandlerFrames * n \in Nat BY <1>2, ProductNat, CrashAssumption
      <4>4. QED BY <2>3, <2>4, <4>1, <4>2, <4>3 DEF OwnFirst
    <3>3. QED BY <2>3, <2>4, <2>7, <3>1, <3>2 DEF CrashInv
  <2>8. process' # "killed" BY <2>1
  <2>9. QED BY <1>3, <2>5, <2>6, <2>7, <2>8 DEF CrashInv
<1>7. QED BY <1>5, <1>6

-----------------------------------------------------------------------------
LEMMA TopType ==
    ASSUME CrashType, NEW t \in Threads, handlers[t] # << >>
    PROVE  Top(t) \in Activation
<1>1. handlers[t] \in Seq(Activation) /\ Len(handlers[t]) \in 1 .. Len(handlers[t])
  BY DEF CrashType
<1>2. QED BY <1>1 DEF Top

(* What a round of the walk makes of an activation.                         *)
LEMMA OwnRound ==
    ASSUME NEW h \in Activation, NEW o \in Nat, NEW d \in Nat
    PROVE  /\ [h EXCEPT !.own = o, !.depth = d] \in Activation
           /\ [h EXCEPT !.own = o, !.depth = d].own = o
           /\ [h EXCEPT !.own = o, !.depth = d].depth = d
BY DEF Activation

LEMMA GameRound ==
    ASSUME NEW h \in Activation, NEW f \in Frames, NEW d \in Nat
    PROVE  /\ [h EXCEPT !.frame = f, !.depth = d] \in Activation
           /\ [h EXCEPT !.frame = f, !.depth = d].own = h.own
           /\ [h EXCEPT !.frame = f, !.depth = d].depth = d
BY DEF Activation

LEMMA WalkStep ==
    ASSUME CrashInv, NEW t \in Threads, Walk(t) PROVE CrashInv'
<1> DEFINE h == Top(t)
           next == frames[h.frame]
<1>1. CrashType /\ At(t, "walk") /\ UNCHANGED <<os, frames>>
  BY DEF CrashInv, Walk
<1>2. handlers[t] # << >> /\ process = "running" BY <1>1 DEF At
<1>3. h \in Activation BY <1>1, <1>2, TopType
<1>4. CASE h.depth >= MaxFrames \/ (h.own = 0 /\ h.frame = 0)
  <2>1. SetTop(t, [h EXCEPT !.step = "map"]) /\ UNCHANGED <<process, reset>>
    BY <1>4 DEF Walk
  <2>2. [h EXCEPT !.step = "map"] \in Activation
    BY <1>3 DEF Activation
  <2>3. [h EXCEPT !.step = "map"].own + [h EXCEPT !.step = "map"].depth
            >= h.own + h.depth
    BY <1>3 DEF Activation
  <2>4. QED BY <1>1, <1>2, <2>1, <2>2, <2>3, WalkOn
<1>5. CASE ~(h.depth >= MaxFrames \/ (h.own = 0 /\ h.frame = 0)) /\ h.own > 0
  <2> DEFINE g == [h EXCEPT !.own = @ - 1, !.depth = Deeper(@)]
             left == h.own - 1
  <2>1. SetTop(t, g) /\ UNCHANGED <<process, reset>> BY <1>5 DEF Walk
  <2>2. /\ h.own \in Nat /\ left \in Nat
        /\ h.depth \in Nat /\ h.depth + 1 \in Nat
        /\ g = [h EXCEPT !.own = left, !.depth = h.depth + 1]
    BY <1>3, <1>5 DEF Activation, Deeper
  <2>3. g \in Activation /\ g.own = left /\ g.depth = h.depth + 1
    <3> HIDE DEF h, g, left
    <3>1. \A d \in Nat : /\ [h EXCEPT !.own = left, !.depth = d] \in Activation
                         /\ [h EXCEPT !.own = left, !.depth = d].own = left
                         /\ [h EXCEPT !.own = left, !.depth = d].depth = d
      BY <1>3, <2>2, OwnRound, ZenonT(60)
    <3>2. QED BY <2>2, <3>1, Zenon
  <2>4. g.own + g.depth >= h.own + h.depth BY <2>2, <2>3
  <2>5. QED BY <1>1, <1>2, <2>1, <2>3, <2>4, WalkOn
<1>6. CASE /\ ~(h.depth >= MaxFrames \/ (h.own = 0 /\ h.frame = 0))
           /\ ~(h.own > 0) /\ next \in {Segv, Bus}
  <2>1. Raise(t, next, h.start) BY <1>6 DEF Walk
  <2>2. h.own = 0 /\ h.depth < MaxFrames /\ h.depth \in Nat
    BY <1>3, <1>6, CrashAssumption DEF Activation
  <2>3. os = "win32" => HandlerFrames * (Len(handlers[t]) - 1) < MaxFrames
    <3>1. SUFFICES ASSUME os = "win32"
                   PROVE  HandlerFrames * (Len(handlers[t]) - 1) < MaxFrames
      OBVIOUS
    <3>2. OwnFirst(handlers[t]) BY <3>1 DEF CrashInv
    <3>3. h.own + h.depth >= HandlerFrames * (Len(handlers[t]) - 1)
      BY <1>2, <3>2 DEF OwnFirst, Top
    <3>4. Len(handlers[t]) - 1 \in Nat BY <1>1, <1>2 DEF CrashType
    <3>5. HandlerFrames * (Len(handlers[t]) - 1) \in Nat
      BY <3>4, ProductNat, CrashAssumption
    <3>6. QED BY <2>2, <3>3, <3>5, CrashAssumption
  <2>4. next \in Signals /\ h.start \in Frames \cup {0}
    BY <1>3, <1>6 DEF Signals, Activation
  <2>5. QED BY <1>1, <1>2, <2>1, <2>3, <2>4, RaiseOn
<1>7. CASE /\ ~(h.depth >= MaxFrames \/ (h.own = 0 /\ h.frame = 0))
           /\ ~(h.own > 0) /\ next \notin {Segv, Bus}
  <2> DEFINE g == IF next \in {LowLr, 0, h.frame} THEN [h EXCEPT !.step = "map"]
                  ELSE [h EXCEPT !.frame = next, !.depth = Deeper(@)]
  <2>1. SetTop(t, g) /\ UNCHANGED <<process, reset>> BY <1>7 DEF Walk
  <2>2. next \in Frames \cup {0, LowLr}
    <3>1. h.frame \in Frames BY <1>3, <1>7 DEF Activation
    <3>2. next \in Frames \cup {0, Segv, Bus, LowLr} BY <1>1, <3>1 DEF CrashType
    <3>3. QED BY <1>7, <3>2
  <2>3. g \in Activation /\ g.own + g.depth >= h.own + h.depth
    <3>1. CASE next \in {LowLr, 0, h.frame} BY <1>3, <3>1 DEF Activation
    <3>2. CASE next \notin {LowLr, 0, h.frame}
      <4>1. /\ next \in Frames /\ h.depth \in Nat /\ h.own \in Nat
            /\ h.depth + 1 \in Nat
            /\ g = [h EXCEPT !.frame = next, !.depth = h.depth + 1]
        BY <1>3, <2>2, <3>2 DEF Activation, Deeper
      <4>2. g \in Activation /\ g.own = h.own /\ g.depth = h.depth + 1
        <5> HIDE DEF h, g, next
        <5> QED BY <1>3, <4>1, GameRound, ZenonT(60)
      <4>3. QED BY <4>1, <4>2
    <3>3. QED BY <3>1, <3>2
  <2>4. QED BY <1>1, <1>2, <2>1, <2>3, WalkOn
<1>8. QED BY <1>4, <1>5, <1>6, <1>7

LEMMA CrashStep == ASSUME CrashInv, [CrashNext]_crashVars PROVE CrashInv'
<1> USE DEF CrashInv
<1>1. ASSUME NEW t \in Threads, Fault(t) PROVE CrashInv'
  <2>1. PICK sig \in Signals, start \in Frames \cup {0} : Raise(t, sig, start)
    BY <1>1 DEF Fault
  <2>2. process = "running" /\ handlers[t] = << >> /\ UNCHANGED <<os, frames>>
    BY <1>1 DEF Fault
  <2>3. QED BY <2>1, <2>2, RaiseOn
<1>2. ASSUME NEW t \in Threads, Report(t) PROVE CrashInv'
  <2> DEFINE h == [Top(t) EXCEPT !.step = "walk"]
  <2>1. handlers[t] # << >> /\ SetTop(t, h) /\ UNCHANGED <<os, frames, process, reset>>
    BY <1>2 DEF Report, At
  <2>2. h \in Activation /\ h.own + h.depth >= Top(t).own + Top(t).depth
    BY <2>1, TopType DEF Activation
  <2>3. QED BY <2>1, <2>2, WalkOn
<1>3. ASSUME NEW t \in Threads, os_print_memory_map(t) PROVE CrashInv'
  <2> DEFINE h == [Top(t) EXCEPT !.step = "exit"]
  <2>1. handlers[t] # << >> /\ SetTop(t, h) /\ UNCHANGED <<os, frames, process, reset>>
    BY <1>3 DEF os_print_memory_map, At
  <2>2. h \in Activation /\ h.own + h.depth >= Top(t).own + Top(t).depth
    BY <2>1, TopType DEF Activation
  <2>3. QED BY <2>1, <2>2, WalkOn
<1>4. ASSUME NEW t \in Threads, Exit(t) PROVE CrashInv'
  BY <1>4 DEF Exit, CrashType, Nesting
<1>5. CASE UNCHANGED crashVars
  BY <1>5 DEF crashVars, CrashType, Nesting
<1>6. QED BY <1>1, <1>2, <1>3, <1>4, <1>5, WalkStep DEF CrashNext, Handles

(* The crash handler does not fault for ever: on POSIX it runs once for     *)
(* each signal, on Windows the walks soon spend themselves on the handler's *)
(* own frames, for whatever the frames of the game hold, and never exhaust  *)
(* a stack with room for that many.                                         *)
THEOREM HandlerNestsLittle == CrashSpec => []NestingBounded
<1>1. CrashInit => CrashInv
  <2> SUFFICES ASSUME CrashInit PROVE CrashInv OBVIOUS
  <2>1. CrashType BY DEF CrashInit, CrashType
  <2>2. Nesting \in Nat BY <2>1, NestingType
  <2>3. \A t \in Threads : handlers[t] = << >> /\ Len(handlers[t]) = 0
    BY DEF CrashInit
  <2>4. Cardinality(reset) = 0 BY FS_EmptySet DEF CrashInit
  <2>5. process # "killed" BY DEF CrashInit
  <2>6. QED BY <2>1, <2>2, <2>3, <2>4, <2>5 DEF CrashInv, OwnFirst
<1>2. CrashInv => NestingBounded
  <2> SUFFICES ASSUME CrashInv PROVE NestingBounded OBVIOUS
  <2>1. ASSUME os = "posix", NEW t \in Threads PROVE Len(handlers[t]) <= Nesting
    <3>1. Len(handlers[t]) <= Cardinality(reset) BY <2>1 DEF CrashInv
    <3>2. Cardinality(reset) <= Cardinality(Signals)
      BY SignalCount, FS_Subset DEF CrashInv, CrashType
    <3>3. Nesting = Cardinality(Signals) BY <2>1 DEF Nesting
    <3>4. Len(handlers[t]) \in Nat /\ Cardinality(reset) \in Nat
      BY SignalCount, FS_Subset, FS_CardinalityType DEF CrashInv, CrashType
    <3>5. QED BY <3>1, <3>2, <3>3, <3>4, SignalCount
  <2>2. os \in {"posix", "win32"} BY DEF CrashInv, CrashType
  <2>3. QED BY <2>1, <2>2 DEF CrashInv, NestingBounded
<1>3. QED BY <1>1, <1>2, CrashStep, PTL DEF CrashSpec

=============================================================================
