--------------------------- MODULE MCContextRestore ---------------------------
(***************************************************************************)
(* Short programs over four registers, 1 and 3 hold data and 2 an address: *)
(* programs that access memory, and programs that change the privilege.    *)
(***************************************************************************)
EXTENDS ContextRestore

I(op, width, rd, rs1, rs2, imm) ==
    [op |-> op, width |-> width, rd |-> rd, rs1 |-> rs1, rs2 |-> rs2, imm |-> imm]

\* Loads, stores and swaps of one, two and four bytes, aligned or not, and
\* atomic additions whose old value the trace shows or does not show.
Plain == { I("li", 1, 1, 0, 0, 11), I("li", 1, 2, 0, 0, 6),
           I("load", 2, 1, 2, 0, 0), I("load", 4, 3, 2, 0, 0), I("load", 1, 0, 2, 0, 0),
           I("store", 4, 0, 2, 1, 0), I("store", 2, 0, 2, 3, 0), I("store", 1, 0, 1, 2, 0),
           I("swap", 4, 3, 2, 1, 0), I("add", 1, 0, 2, 1, 0),
           I("add", 2, 1, 2, 3, 0), I("sc", 1, 1, 2, 3, 0), I("sc", 1, 0, 2, 1, 0),
           I("badload", 1, 0, 2, 0, 9), I("badstore", 1, 0, 2, 0, 9) }

\* Into the lower modes and back, reading and writing what mret and traps use.
Privileged == { I("li", 1, 1, 0, 0, 7), I("load", 2, 3, 2, 0, 0), I("store", 2, 0, 2, 1, 0),
                I("csrw", 1, 0, 1, 0, 1), I("csrw", 1, 0, 2, 0, 2), I("csrw", 1, 0, 1, 0, 3),
                I("csrw", 1, 0, 2, 0, 4), I("csrr", 1, 3, 0, 0, 4),
                I("csrr", 1, 3, 0, 0, 1), I("csrr", 1, 1, 0, 0, 2),
                I("mret", 1, 0, 0, 0, 0), I("ecall", 1, 0, 0, 0, 9) }

Csr(mode, status) ==
    [priv |-> mode, mstatus |-> status, mepc |-> 3, mscratch |-> 0, sscratch |-> 0]

Regs(v) == [r \in Registers |-> CASE r = 0 -> 0 [] r = 2 -> 4 [] r = 3 -> 5 [] OTHER -> v]

MCStarts ==
    {[regs |-> Regs(v), csr |-> Csr(3, 0), program |-> Plain] : v \in {0, 7}} \cup
    {[regs |-> Regs(6), csr |-> c, program |-> Privileged] :
        c \in {Csr(3, 0), Csr(3, 12), Csr(3, 13), Csr(1, 12), Csr(0, 12)}}
MCStartMem == [a \in Addresses |-> IF a \in {4, 7, 9} THEN 1 ELSE 0]
MCJunk     == {8}
=============================================================================
