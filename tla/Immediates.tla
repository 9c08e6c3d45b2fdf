------------------------------ MODULE Immediates ------------------------------
(***************************************************************************)
(* Constants and jumps in the code the reducer generates (src/inst.rs):    *)
(*   append_load_u64  loads a constant into a register, for every register,*)
(*                    CSR, address and memory value to be restored,        *)
(*   encode_jmp       jumps there and back.                                *)
(* Each instruction takes effect in the order it is appended.              *)
(*                                                                         *)
(* The widths are parameters: 64 bits of a register, 32 of a word, 12 of   *)
(* an immediate and 21 of the offset of a JAL.  Patching writes the jumps  *)
(* into a program.                                                         *)
(***************************************************************************)
EXTENDS Integers, Sequences

CONSTANTS
    Width,    \* bits of a register
    WordBits, \* bits that LUI and AUIPC reach
    ImmBits,  \* bits of the immediate of ADDI and JALR
    JalBits,  \* bits of the offset of JAL
    Values,   \* constants to be loaded
    Origins,  \* addresses of jumps
    Targets   \* addresses to jump to

\* 2 to the n, as a function that is known by what it is at 0 and at n + 1.
Pow2[n \in Nat] == IF n = 0 THEN 1 ELSE 2 * Pow2[n - 1]

ASSUME WidthAssumption ==
    /\ ImmBits \in Nat \ {0} /\ JalBits \in Nat \ {0}
    /\ WordBits \in Nat /\ WordBits > ImmBits
    /\ Width \in Nat /\ Width > WordBits
ASSUME ValueAssumption ==
    Values \cup Origins \cup Targets \subseteq 0..Pow2[Width] - 1

VARIABLES
    stage,  \* "split", "combine", "loaded", "jump", "landed" or "none"
    value,  \* the constant, or where the jump starts
    rest,   \* the part still to be split, or where the jump ends
    far,    \* longjmp
    shifts, \* shifts and low parts to be applied after the upper part
    reg,    \* the register, or where the jump has arrived
    insts   \* instructions appended

generated == <<stage, value, rest, far, shifts, reg, insts>>

\* Code for a constant, and for a jump, is about to be generated.
LoadOf(v) == stage = "split" /\ value = v /\ rest = v /\ far = FALSE

JumpFrom(origin, target, longjmp) ==
    stage = "jump" /\ value = origin /\ rest = target /\ far = longjmp

NothingYet == shifts = <<>> /\ reg = 0 /\ insts = 0

\* The lowest bits of x as a signed number.
Signed(x, bits) ==
    LET low == x % Pow2[bits]
    IN  IF low < Pow2[bits - 1] THEN low ELSE low - Pow2[bits]

Wrapped(x) == x % Pow2[Width]

SignExtend(x, bits) == Wrapped(Signed(x, bits))

\* is_int_n for 32 bits
IsWord(x) == x = Wrapped(Signed(x, WordBits))

Bias == Pow2[ImmBits - 1]

(***************************************************************************)
(* append_load_u64                                                         *)
(***************************************************************************)
\* Faulty: the upper part is not rounded up for a negative lower part.
UpperTruncated(x) == x \div Pow2[ImmBits]

Upper(x) == (x + Bias) \div Pow2[ImmBits]

TrailingZeros(x) ==
    CHOOSE z \in 0..Width : x % Pow2[z] = 0 /\ x % Pow2[z + 1] # 0

\* A wider constant: its upper part is loaded first, without trailing zeros.
SplitOff ==
    /\ stage = "split"
    /\ ~IsWord(rest)
    /\ LET upper == Upper(rest) % Pow2[Width - ImmBits]
           zeros == TrailingZeros(upper)
       IN  /\ rest' = SignExtend(upper \div Pow2[zeros], Width - ImmBits - zeros)
           /\ shifts' = <<[shift |-> ImmBits + zeros, low |-> rest % Pow2[ImmBits]]>> \o shifts
    /\ UNCHANGED <<stage, value, far, reg, insts>>

Lui(upper) == Wrapped(Signed(upper * Pow2[ImmBits], WordBits))

\* A word: LUI and ADDI, or only the one that is needed.
LoadWord ==
    /\ stage = "split"
    /\ IsWord(rest)
    /\ LET upper == Upper(Signed(rest, Width)) % Pow2[WordBits - ImmBits]
           low   == rest % Pow2[ImmBits]
       IN  /\ reg' = Wrapped(Lui(upper) + Signed(low, ImmBits))
           /\ insts' = IF upper # 0 /\ low # 0 THEN 2 ELSE 1
    /\ stage' = IF shifts = <<>> THEN "loaded" ELSE "combine"
    /\ UNCHANGED <<value, rest, far, shifts>>

\* SLLI, and ADDI unless the lower part is 0.
Combine ==
    /\ stage = "combine"
    /\ LET next == Head(shifts)
       IN  /\ reg' = Wrapped(reg * Pow2[next.shift] + Signed(next.low, ImmBits))
           /\ insts' = insts + IF next.low = 0 THEN 1 ELSE 2
    /\ shifts' = Tail(shifts)
    /\ stage' = IF Len(shifts) = 1 THEN "loaded" ELSE "combine"
    /\ UNCHANGED <<value, rest, far>>

(***************************************************************************)
(* encode_jmp                                                              *)
(***************************************************************************)
Offset == rest - value

\* Faulty: the largest offset is one too large.
JalReachesMore == Offset >= -(Pow2[JalBits - 1]) /\ Offset <= Pow2[JalBits - 1]

JalReaches == Offset >= -(Pow2[JalBits - 1]) /\ Offset <= Pow2[JalBits - 1] - 2

AuipcReaches ==
    LET reach == Pow2[WordBits - ImmBits - 1]
    IN  Upper(Offset) >= -reach /\ Upper(Offset) <= reach - 1

JumpNear ==
    /\ stage = "jump"
    /\ JalReaches
    /\ reg' = Wrapped(value + Signed(Offset, JalBits))
    /\ insts' = 1
    /\ stage' = "landed"
    /\ UNCHANGED <<value, rest, far, shifts>>

\* AUIPC and JALR, which adds a signed lower part.
JumpFar ==
    /\ stage = "jump"
    /\ ~JalReaches /\ far /\ AuipcReaches
    /\ LET base == Upper(Offset) * Pow2[ImmBits]
           low  == (Offset - base) % Pow2[ImmBits]
       IN  reg' = Wrapped(value + Signed(base, WordBits) + Signed(low, ImmBits))
    /\ insts' = 2
    /\ stage' = "landed"
    /\ UNCHANGED <<value, rest, far, shifts>>

NoJump ==
    /\ stage = "jump"
    /\ ~JalReaches /\ ~(far /\ AuipcReaches)
    /\ stage' = "none"
    /\ UNCHANGED <<value, rest, far, shifts, reg, insts>>

Generate ==
    \/ SplitOff \/ LoadWord \/ Combine
    \/ JumpNear \/ JumpFar \/ NoJump

(***************************************************************************)
(* Properties                                                              *)
(***************************************************************************)
\* Words from which rounding up the upper part carries into the sign bit.
Carry == Pow2[WordBits - 1] - Bias .. Pow2[WordBits - 1] - 1

\* The code loads the constant it was generated for, however many parts it is
\* split into, unless the word that the constant comes down to carries: LUI
\* extends that sign, and no ADDIW truncates it again.
LoadsUnlessCarry == (stage = "loaded" /\ rest \notin Carry) => reg = value

\* A jump arrives at its target, however the signs of its two parts combine,
\* and is only refused beyond the reach of both encodings.
JumpsArrive ==
    /\ stage = "landed" => reg = rest
    /\ (stage = "none" /\ far) => \/ Offset >= Pow2[WordBits - 1] - Bias
                                  \/ Offset < -(Pow2[WordBits - 1]) - Bias
=============================================================================
