---------------------------- MODULE ContextRestore ----------------------------
(***************************************************************************)
(* Skipping the first instructions of a failing program: the prefix search *)
(* (src/reduce/strip_prefix.rs) replaces them by code that restores what   *)
(* they left behind,                                                       *)
(*   collect_memory_bytes         replays the stores of the prefix and     *)
(*                                keeps the bytes the suffix reads,        *)
(*   collect_context_restore_plan finds the registers and CSRs that        *)
(*                                changed,                                 *)
(*   append_context_restore       writes all of it back, and leaves for a  *)
(*                                lower privilege by mret.                 *)
(* The traced run comes first, the restored one last, so that the two can  *)
(* be compared.  Memory accesses are decoded as src/inst.rs does.          *)
(*                                                                         *)
(* A byte has one bit; a register has four of them, and so has an address. *)
(* The privilege modes are user (0), supervisor (1) and machine mode (3).  *)
(* Of the CSRs there are those mret uses and one more of machine and of    *)
(* supervisor mode; mstatus is MPP + 4 * MIE + 8 * MPIE.                   *)
(***************************************************************************)
EXTENDS Integers, Sequences, FiniteSets, FiniteSetsExt

CONSTANTS
    LastReg,    \* registers are 0..LastReg, register 0 is ZERO_REG
    Starts,     \* registers and CSRs at the entry, instructions of the program
    StartMem,   \* what memory holds at first
    MaxTrace,   \* instructions executed
    Junk        \* what a long entry jump may leave in its register

Registers == 0..LastReg
Words     == 0..15
Addresses == 0..15
Bytes     == 0..1
Widths    == {1, 2, 4}

Ops == {"li", "load", "store", "swap", "add", "lr", "sc",
        "csrw", "csrr", "mret", "ecall", "badload", "badstore"}

\* Instructions that trap: system calls, and forms of loads and stores that
\* the processor does not have and the decoder refuses.
Trapping == {"ecall", "badload", "badstore"}

\* imm is a constant, the number of a CSR or the address of a trapping
\* instruction.
Insts == [op : Ops, width : Widths, rd : Registers, rs1 : Registers,
          rs2 : Registers, imm : Words]

\* csr_values: the CSRs in the order they are restored.
CsrOrder == <<"mstatus", "mepc", "mscratch", "sscratch">>

Modes == {0, 1, 3}

\* MPP names a mode.
Statuses == {n \in 0..15 : n % 4 \in Modes}

CsrStates == [priv : Modes, mstatus : Statuses, mepc : Words, mscratch : Words,
              sscratch : Words]

ASSUME RegisterAssumption ==
    /\ LastReg \in Nat /\ LastReg >= 2
    /\ \A s \in Starts : /\ s.regs \in [Registers -> Words] /\ s.regs[0] = 0
                        /\ s.csr \in CsrStates
                        /\ s.program \subseteq Insts
                        /\ \A i \in s.program :
                             i.op \in {"csrw", "csrr"} => i.imm \in DOMAIN CsrOrder
ASSUME MemoryAssumption == StartMem \in [Addresses -> Bytes]
ASSUME TraceAssumption == MaxTrace \in Nat /\ Junk \subseteq Words

VARIABLES
    pc,
    start,     \* the state at the entry, and the program
    regs, mem, csr,  \* of the run under way
    trace,     \* what the trackers record: state before, and the instruction
    unseen,    \* what no tracker records: memory before each instruction, and
               \* whether a store-conditional succeeds
    skipped,   \* candidate_idx
    idx,       \* the next trace entry to look at
    written,   \* bytes the prefix wrote, by address
    needed     \* those the suffix reads

vars == <<pc, start, regs, mem, csr, trace, unseen, skipped, idx, written, needed>>

Empty == [a \in {} |-> 0]

Init ==
    /\ pc = "trace"
    /\ start \in Starts
    /\ regs = start.regs
    /\ mem = StartMem
    /\ csr = start.csr
    /\ trace = <<>>
    /\ unseen = <<>>
    /\ skipped = 0
    /\ idx = 0
    /\ written = Empty
    /\ needed = Empty

(***************************************************************************)
(* The machine                                                             *)
(***************************************************************************)
\* The addresses of an access, lowest first.
Span(addr, width) == [k \in 1..width |-> (addr + k - 1) % 16]

Truncate(value, width) == value % 2^width

Byte(value, k) == (value \div 2^(k - 1)) % 2

ByteValue(bytes, span) ==
    LET bit(k) == IF k \in DOMAIN span THEN bytes[span[k]] ELSE 0
    IN  bit(1) + 2 * bit(2) + 4 * bit(3) + 8 * bit(4)

\* bytes with value stored over span.
Stored(bytes, span, value) ==
    [a \in DOMAIN bytes \cup {span[k] : k \in DOMAIN span} |->
        IF \E k \in DOMAIN span : span[k] = a
        THEN Byte(value, CHOOSE k \in DOMAIN span : span[k] = a) ELSE bytes[a]]

Set(r, rd, value) == IF rd = 0 THEN r ELSE [r EXCEPT ![rd] = value]

\* mstatus_with_mpp
WithMpp(status, mode) == (status \div 4) * 4 + mode

\* MIE gets MPIE, MPIE is set, MPP falls to user mode.
Mret(c) == [c EXCEPT !.priv = c.mstatus % 4,
                     !.mstatus = 8 + 4 * (c.mstatus \div 8)]

\* A trap into machine mode remembers where from, and MIE in MPIE.
Trap(c, addr) == [c EXCEPT !.priv = 3, !.mepc = addr,
                           !.mstatus = c.priv + 8 * ((c.mstatus \div 4) % 2)]

\* A write that names no mode leaves MPP alone.
WrittenStatus(old, value) ==
    IF value % 4 \in Modes THEN value ELSE WithMpp(value, old % 4)

WriteCsrValue(c, name, value) ==
    [c EXCEPT ![name] =
        IF name = "mstatus" THEN WrittenStatus(c.mstatus, value) ELSE value]

Successes(i) == IF i.op = "sc" THEN BOOLEAN ELSE {TRUE}

\* What an instruction does; a store-conditional may also fail.
Effect(i, r, m, c, success) ==
    LET span == Span(r[i.rs1], i.width)
        old  == ByteValue(m, span)
        End(rs, bytes) == [regs |-> rs, mem |-> bytes, csr |-> c]
    IN  CASE i.op = "li" -> End(Set(r, i.rd, i.imm), m)
          [] i.op \in {"load", "lr"} -> End(Set(r, i.rd, old), m)
          [] i.op = "store" -> End(r, Stored(m, span, r[i.rs2]))
          [] i.op = "swap" -> End(Set(r, i.rd, old), Stored(m, span, r[i.rs2]))
          [] i.op = "add" -> End(Set(r, i.rd, old), Stored(m, span, old + r[i.rs2]))
          [] i.op = "sc" /\ success -> End(Set(r, i.rd, 0), Stored(m, span, r[i.rs2]))
          [] i.op = "sc" /\ ~success -> End(Set(r, i.rd, 1), m)
          [] i.op = "csrr" -> End(Set(r, i.rd, c[CsrOrder[i.imm]]), m)
          [] i.op = "csrw" ->
               [End(r, m) EXCEPT !.csr = WriteCsrValue(c, CsrOrder[i.imm], r[i.rs1])]
          [] i.op = "mret" -> [End(r, m) EXCEPT !.csr = Mret(c)]
          [] i.op \in Trapping -> [End(r, m) EXCEPT !.csr = Trap(c, i.imm)]

\* The lowest mode that may access a CSR.
CsrMode(name) == IF name = "sscratch" THEN 1 ELSE 3

Legal(i) ==
    /\ i.op \in {"csrw", "csrr"} => csr.priv >= CsrMode(CsrOrder[i.imm])
    /\ i.op = "mret" => csr.priv = 3

\* The failing run, as the trackers record it.
Execute(i) ==
    /\ pc = "trace"
    /\ Len(trace) < MaxTrace
    /\ Legal(i)
    /\ trace' = Append(trace, [regs |-> regs, csr |-> csr, inst |-> i])
    /\ \E success \in Successes(i) :
         LET e == Effect(i, regs, mem, csr, success)
         IN  /\ regs' = e.regs /\ mem' = e.mem /\ csr' = e.csr
             /\ unseen' = Append(unseen, [mem |-> mem, success |-> success])
    /\ UNCHANGED <<pc, start, skipped, idx, written, needed>>

(***************************************************************************)
(* collect_memory_bytes                                                    *)
(***************************************************************************)
\* Faulty: every store is taken for a store of one byte.
WriteByte(entry, value) ==
    [kind |-> "write", span |-> Span(entry.regs[entry.inst.rs1], 1),
     value |-> Truncate(value, 1)]

NotAnAccess == [kind |-> "none"]
Unsupported == [kind |-> "unsupported"]

Write(entry, value) ==
    [kind |-> "write", span |-> Span(entry.regs[entry.inst.rs1], entry.inst.width),
     value |-> Truncate(value, entry.inst.width)]

\* decode_memory_write_at: the old value of an atomic access is taken from rd.
DecodeWrite(entry) ==
    LET i   == entry.inst
        rd  == entry.regs[i.rd]
        rhs == Truncate(entry.regs[i.rs2], i.width)
    IN  CASE i.op \in {"store", "swap"} -> Write(entry, rhs)
          [] i.op \in {"add", "sc"} /\ i.rd = 0 -> Unsupported
          [] i.op = "badstore" -> Unsupported
          [] i.op = "add" /\ i.rd # 0 -> Write(entry, Truncate(rd, i.width) + rhs)
          [] i.op = "sc" /\ i.rd # 0 -> IF rd = 0 THEN Write(entry, rhs) ELSE NotAnAccess
          [] OTHER -> NotAnAccess

\* decode_memory_read_at
DecodeRead(entry) ==
    LET i == entry.inst
    IN  CASE i.op \in {"load", "swap", "add", "lr"} ->
               [kind |-> "read", span |-> Span(entry.regs[i.rs1], i.width)]
          [] i.op = "badload" -> Unsupported
          [] OTHER -> NotAnAccess

SpanSet(access) == {access.span[k] : k \in DOMAIN access.span}

Without(bytes, addrs) == [a \in DOMAIN bytes \ addrs |-> bytes[a]]

\* The first n instructions are to be skipped.
Skip(n) ==
    /\ pc = "trace"
    /\ n \in 1..Len(trace) - 1
    /\ skipped' = n
    /\ pc' = "replay"
    /\ UNCHANGED <<start, regs, mem, csr, trace, unseen, idx, written, needed>>

Replay ==
    /\ pc = "replay"
    /\ idx < skipped
    /\ LET write == DecodeWrite(trace[idx + 1])
       IN  /\ pc' = IF write = Unsupported THEN "none" ELSE pc
           /\ written' = IF write.kind = "write"
                         THEN Stored(written, write.span, write.value) ELSE written
    /\ idx' = idx + 1
    /\ UNCHANGED <<start, regs, mem, csr, trace, unseen, skipped, needed>>

\* Faulty: a byte the suffix overwrites is still looked for.
OverwrittenKept(bytes, write) == bytes

\* What is left to be looked for after a write of the suffix.
Overwritten(bytes, write) ==
    IF write.kind = "write" THEN Without(bytes, SpanSet(write)) ELSE bytes

Scan ==
    /\ pc = "scan"
    /\ idx < Len(trace)
    /\ LET entry == trace[idx + 1]
           read  == DecodeRead(entry)
           found == IF read.kind = "read" THEN DOMAIN written \cap SpanSet(read) ELSE {}
           write == DecodeWrite(entry)
       IN  /\ needed' = [a \in DOMAIN needed \cup found |->
                            IF a \in found THEN written[a] ELSE needed[a]]
           /\ written' = Overwritten(Without(written, found), write)
           /\ pc' = IF Unsupported \in {read, write} THEN "none" ELSE pc
    /\ idx' = idx + 1
    /\ UNCHANGED <<start, regs, mem, csr, trace, unseen, skipped>>

\* The prefix wrote something: look for it in the suffix.
EndReplay ==
    /\ pc = "replay"
    /\ idx = skipped
    /\ pc' = IF DOMAIN written = {} THEN "restore" ELSE "scan"
    /\ UNCHANGED <<start, regs, mem, csr, trace, unseen, skipped, idx, written, needed>>

EndScan ==
    /\ pc = "scan"
    /\ idx = Len(trace)
    /\ pc' = "restore"
    /\ UNCHANGED <<start, regs, mem, csr, trace, unseen, skipped, idx, written, needed>>

(***************************************************************************)
(* collect_context_restore_plan and append_context_restore                 *)
(***************************************************************************)
Changed ==
    {r \in Registers \ {0} :
        \E k \in 1..skipped : trace[k].regs[r] # trace[k + 1].regs[r]}

\* The two registers the code works with, in the order they are chosen:
\* changed ones, then the defaults 1 and 2.
Scratches ==
    LET first  == IF Changed # {} THEN Min(Changed) ELSE 1
        others == Changed \ {first}
    IN  <<first, IF others # {} THEN Min(others) ELSE IF first = 1 THEN 2 ELSE 1>>

\* contiguous_bytes, for an aligned address.
Joinable(addr, width, left) ==
    addr % width = 0 /\ \A k \in 1..width : addr + k - 1 \in left

\* The widest store of the restoring code at its next address.
ChunkWidth(addr, left) ==
    IF Joinable(addr, 4, left) THEN 4 ELSE IF Joinable(addr, 2, left) THEN 2 ELSE 1

ChangedCsrs ==
    {c \in {CsrOrder[k] : k \in DOMAIN CsrOrder} :
        \E k \in 1..skipped : trace[k].csr[c] # trace[k + 1].csr[c]}

Target == trace[skipped + 1].csr

\* Faulty: mret is only used if the prefix changed mstatus.
UseMretIfChanged == Target.priv # 3 /\ "mstatus" \in ChangedCsrs

\* privilege_changed && target_privilege != 3
UseMret == trace[1].csr.priv # Target.priv /\ Target.priv # 3

\* The CSRs it writes one by one: the changed ones, but those mret needs.
Puts(c) == c \in ChangedCsrs /\ ~(UseMret /\ c \in {"mstatus", "mepc"})

\* The address of the restoring code does not settle, or it is too far from
\* the candidate for the jump back: the candidate is dropped.
NotBuilt ==
    /\ pc = "restore"
    /\ pc' = "none"
    /\ UNCHANGED <<start, regs, mem, csr, trace, unseen, skipped, idx, written, needed>>

\* The restored program starts where the traced one did; a long entry jump
\* goes through the first scratch register.
Restart(junk) ==
    /\ pc = "restore"
    /\ regs' = [start.regs EXCEPT ![Scratches[1]] = junk]
    /\ mem' = StartMem
    /\ csr' = start.csr
    /\ idx' = 1
    /\ pc' = "csrs"
    /\ UNCHANGED <<start, trace, unseen, skipped, written, needed>>

WriteCsr ==
    /\ pc = "csrs"
    /\ idx <= Len(CsrOrder)
    /\ LET c == CsrOrder[idx]
       IN  IF Puts(c)
           THEN /\ csr.priv >= CsrMode(c)
                /\ csr' = WriteCsrValue(csr, c, Target[c])
                /\ regs' = [regs EXCEPT ![Scratches[1]] = Target[c]]
           ELSE UNCHANGED <<csr, regs>>
    /\ idx' = idx + 1
    /\ UNCHANGED <<pc, start, mem, trace, unseen, skipped, written, needed>>

\* Into the lower privilege, behind the mret: mstatus is that of the target
\* with its mode as MPP, mepc the address where the restoring code goes on.
ReturnDown(continuation) ==
    /\ pc = "csrs"
    /\ idx > Len(CsrOrder)
    /\ IF UseMret
       THEN /\ csr.priv = 3
            /\ csr' = Mret([csr EXCEPT !.mstatus = WithMpp(Target.mstatus, Target.priv),
                                      !.mepc = continuation])
            /\ regs' = [regs EXCEPT ![Scratches[1]] = continuation]
       ELSE UNCHANGED <<csr, regs>>
    /\ pc' = "store"
    /\ UNCHANGED <<start, mem, trace, unseen, skipped, idx, written, needed>>

\* append_memory_restore: one store after the other, in ascending order.
StoreNeeded ==
    /\ pc = "store"
    /\ DOMAIN needed # {}
    /\ LET addr  == Min(DOMAIN needed)
           width == ChunkWidth(addr, DOMAIN needed)
           span  == Span(addr, width)
           value == ByteValue(needed, span)
       IN  /\ mem' = Stored(mem, span, value)
           /\ regs' = [regs EXCEPT ![Scratches[1]] = addr, ![Scratches[2]] = value]
           /\ needed' = Without(needed, {span[k] : k \in DOMAIN span})
    /\ UNCHANGED <<pc, start, csr, trace, unseen, skipped, idx, written>>

\* Faulty: the scratch registers are only loaded if the prefix changed them.
LoadedChanged == Changed

\* Registers loaded in the end: the changed ones and the scratch registers.
Loaded == Changed \cup {Scratches[1], Scratches[2]}

LoadRegisters ==
    /\ pc = "store"
    /\ DOMAIN needed = {}
    /\ regs' = [r \in Registers |->
                   IF r \in Loaded THEN trace[skipped + 1].regs[r] ELSE regs[r]]
    /\ pc' = "resume"
    /\ idx' = skipped
    /\ UNCHANGED <<start, mem, csr, trace, unseen, skipped, written, needed>>

\* The suffix runs from the candidate on; a store-conditional fares as it did
\* in the traced run.
Resume ==
    /\ pc = "resume"
    /\ idx < Len(trace)
    /\ Legal(trace[idx + 1].inst)
    /\ LET e == Effect(trace[idx + 1].inst, regs, mem, csr, unseen[idx + 1].success)
       IN  regs' = e.regs /\ mem' = e.mem /\ csr' = e.csr
    /\ idx' = idx + 1
    /\ UNCHANGED <<pc, start, trace, unseen, skipped, written, needed>>

\* The restored program was entered below machine mode and meets an instruction
\* that its mode must not execute: one of the restoring code, or one that the
\* traced program came to in a higher mode.
Lost ==
    /\ \/ /\ pc = "csrs" /\ idx <= Len(CsrOrder)
          /\ Puts(CsrOrder[idx]) /\ csr.priv < CsrMode(CsrOrder[idx])
       \/ pc = "csrs" /\ idx > Len(CsrOrder) /\ UseMret /\ csr.priv < 3
       \/ pc = "resume" /\ idx < Len(trace) /\ ~Legal(trace[idx + 1].inst)
    /\ pc' = "lost"
    /\ UNCHANGED <<start, regs, mem, csr, trace, unseen, skipped, idx, written, needed>>

Finished ==
    /\ \/ pc \in {"none", "lost"}
       \/ pc = "resume" /\ idx = Len(trace)
    /\ UNCHANGED vars

Next ==
    \/ \E i \in start.program : Execute(i)
    \/ \E n \in 1..MaxTrace - 1 : Skip(n)
    \/ Replay \/ EndReplay \/ Scan \/ EndScan
    \/ \E junk \in Junk \cup {start.regs[Scratches[1]]} : Restart(junk)
    \/ NotBuilt
    \/ WriteCsr
    \/ \E continuation \in Junk : ReturnDown(continuation)
    \/ StoreNeeded \/ LoadRegisters \/ Resume \/ Lost
    \/ Finished

Spec == Init /\ [][Next]_vars

(***************************************************************************)
(* Properties                                                              *)
(***************************************************************************)
\* Atomic accesses whose decoding reads rd before the instruction wrote it: an
\* addition's old value, or whether a store-conditional succeeded.
StaleAccess(k) == trace[k].inst.op \in {"add", "sc"} /\ trace[k].inst.rd # 0

\* The bytes replayed so far are the memory the traced run had at that
\* point: the replayed ones hold what was written last, and no other byte
\* has changed since the entry (collect_memory_bytes: "Trace entry N is the
\* state before instruction N").  Behind an atomic access that is decoded from
\* a stale register the replay is known to go astray.
ReplayedIsTraced ==
    (pc = "replay" /\ \A k \in 1..idx : ~StaleAccess(k)) =>
        \A a \in Addresses :
            unseen[idx + 1].mem[a] = IF a \in DOMAIN written THEN written[a] ELSE StartMem[a]

\* An mret that changes no interrupt bit: MIE and MPIE are set already.
MretKeeps == UseMret => Target.mstatus \div 4 = 3

\* The restoring code can only go down from machine mode.
ModeInReach == trace[1].csr.priv \in {3, Target.priv}

Repeatable ==
    /\ \A k \in DOMAIN trace : ~StaleAccess(k)
    /\ MretKeeps
    /\ ModeInReach

Comparable == pc = "resume" /\ idx < Len(trace) /\ Repeatable

\* After the restoring code, every instruction of the suffix finds in every
\* register what it found in the traced run, although registers the prefix
\* left alone are used as scratch registers, only the bytes the suffix reads
\* before it overwrites them are restored, and mepc is not.  Traces with a
\* stale access are excepted, returns to a lower mode whose mret changes the
\* interrupt bits, which a handler may read, and traces that start below
\* machine mode and have changed mode at the candidate.
SuffixRepeats == Comparable => regs = trace[idx + 1].regs

\* The suffix runs in the privilege it was traced in and with its CSRs.  An
\* mret of the restoring code uses up mepc and rewrites mstatus, but nothing
\* the suffix does in the lower mode can tell: the trap that takes it back to
\* machine mode writes both anew.  A program entered in machine mode meets no
\* instruction that its mode must not execute, before the suffix or in it.
PrivilegeRepeats ==
    /\ Comparable =>
            LET was == trace[idx + 1].csr
            IN  /\ csr.priv = was.priv
                /\ csr.mstatus = was.mstatus
                /\ csr.mscratch = was.mscratch /\ csr.sscratch = was.sscratch
                /\ csr.priv = 3 => csr.mepc = was.mepc
    /\ (pc = "lost" /\ Repeatable) => start.csr.priv < 3

\* A byte is restored only if the suffix reads it before any of its stores
\* covers it: the restoring code writes nothing the suffix cannot notice.
RestoredIsRead ==
    pc = "resume" /\ idx = skipped =>
        \A a \in Addresses :
            mem[a] # StartMem[a] =>
                \E k \in skipped + 1..Len(trace) :
                    /\ DecodeRead(trace[k]).kind = "read"
                    /\ a \in SpanSet(DecodeRead(trace[k]))
                    /\ \A l \in skipped + 1..k - 1 :
                          DecodeWrite(trace[l]).kind = "write" =>
                              a \notin SpanSet(DecodeWrite(trace[l]))
=============================================================================
