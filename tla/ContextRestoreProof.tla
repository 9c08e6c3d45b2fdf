------------------------ MODULE ContextRestoreProof ------------------------
(***************************************************************************)
(* Skipping a prefix, for every program and every number of registers: the *)
(* replay of the prefix yields the memory of the traced run, and what the  *)
(* restoring code leaves behind the suffix cannot tell from it.            *)
(***************************************************************************)
EXTENDS ContextRestore, Ordering

(***************************************************************************)
(* Bytes and values                                                        *)
(***************************************************************************)
LEMMA ByteType == \A v \in Nat, k \in 1..4 : Byte(v, k) \in Bytes
<1> SUFFICES ASSUME NEW v \in Nat, NEW k \in 1..4 PROVE Byte(v, k) \in Bytes
  OBVIOUS
<1>1. \A n \in Int : n % 2 \in Bytes
  BY DEF Bytes
<1>2. v \div 1 \in Int /\ v \div 2 \in Int /\ v \div 4 \in Int /\ v \div 8 \in Int
  OBVIOUS
<1>3. k = 1 \/ k = 2 \/ k = 3 \/ k = 4
  OBVIOUS
<1>4. 2^0 = 1 /\ 2^1 = 2 /\ 2^2 = 4 /\ 2^3 = 8
  OBVIOUS
<1> QED BY <1>1, <1>2, <1>3, <1>4 DEF Byte

\* The bytes of a value by numbers that solvers know.
LEMMA BytesAre ==
    ASSUME NEW v \in Nat
    PROVE  /\ Byte(v, 1) = v % 2
           /\ Byte(v, 2) = (v \div 2) % 2
           /\ Byte(v, 3) = (v \div 4) % 2
           /\ Byte(v, 4) = (v \div 8) % 2
<1>1. 2^(1 - 1) = 1 /\ 2^(2 - 1) = 2 /\ 2^(3 - 1) = 4 /\ 2^(4 - 1) = 8
  OBVIOUS
<1>2. v \div 1 = v
  OBVIOUS
<1> QED BY <1>1, <1>2 DEF Byte

LEMMA TruncatesAre ==
    ASSUME NEW v \in Nat
    PROVE  /\ Truncate(v, 1) = v % 2
           /\ Truncate(v, 2) = v % 4
           /\ Truncate(v, 4) = v % 16
<1>1. 2^1 = 2 /\ 2^2 = 4 /\ 2^4 = 16
  OBVIOUS
<1> QED BY <1>1 DEF Truncate

\* Truncated to a width, a value keeps the bytes of that width.
LEMMA TruncateKeeps ==
    ASSUME NEW v \in Nat, NEW w \in Widths
    PROVE  /\ Truncate(v, w) \in Nat
           /\ \A k \in 1..w : Byte(Truncate(v, w), k) = Byte(v, k)
<1>1. CASE w = 1
  <2>1. v % 2 \in Nat /\ (v % 2) % 2 = v % 2
    OBVIOUS
  <2>2. \A k \in 1..1 : k = 1
    OBVIOUS
  <2> QED BY <1>1, <2>1, <2>2, TruncatesAre, BytesAre
<1>2. CASE w = 2
  <2>1. v % 4 \in Nat /\ (v % 4) % 2 = v % 2 /\ ((v % 4) \div 2) % 2 = (v \div 2) % 2
    OBVIOUS
  <2>2. \A k \in 1..2 : k = 1 \/ k = 2
    OBVIOUS
  <2>3. Byte(v % 4, 1) = Byte(v, 1) /\ Byte(v % 4, 2) = Byte(v, 2)
    BY <2>1, BytesAre
  <2> QED BY <1>2, <2>1, <2>2, <2>3, TruncatesAre
<1>3. CASE w = 4
  <2>1. v % 16 \in Nat /\ (v % 16) % 2 = v % 2 /\ ((v % 16) \div 2) % 2 = (v \div 2) % 2
    OBVIOUS
  <2>2. ((v % 16) \div 4) % 2 = (v \div 4) % 2 /\ ((v % 16) \div 8) % 2 = (v \div 8) % 2
    OBVIOUS
  <2>3. \A k \in 1..4 : k = 1 \/ k = 2 \/ k = 3 \/ k = 4
    OBVIOUS
  <2>4. /\ Byte(v % 16, 1) = Byte(v, 1) /\ Byte(v % 16, 2) = Byte(v, 2)
        /\ Byte(v % 16, 3) = Byte(v, 3) /\ Byte(v % 16, 4) = Byte(v, 4)
    BY <2>1, <2>2, BytesAre
  <2> QED BY <1>3, <2>1, <2>3, <2>4, TruncatesAre
<1> QED BY <1>1, <1>2, <1>3 DEF Widths

\* The bytes of a number put together from bits.
LEMMA BitsBack ==
    \A b1, b2, b3, b4 \in Bytes :
        LET v == b1 + 2 * b2 + 4 * b3 + 8 * b4
        IN  /\ v \in Words
            /\ Byte(v, 1) = b1 /\ Byte(v, 2) = b2 /\ Byte(v, 3) = b3 /\ Byte(v, 4) = b4
<1> SUFFICES ASSUME NEW b1 \in Bytes, NEW b2 \in Bytes, NEW b3 \in Bytes, NEW b4 \in Bytes
             PROVE  LET v == b1 + 2 * b2 + 4 * b3 + 8 * b4
                    IN  /\ v \in Words
                        /\ Byte(v, 1) = b1 /\ Byte(v, 2) = b2
                        /\ Byte(v, 3) = b3 /\ Byte(v, 4) = b4
  OBVIOUS
<1> DEFINE v == b1 + 2 * b2 + 4 * b3 + 8 * b4
<1>1. v \in Nat /\ v \in Words
  BY DEF Bytes, Words
<1>2. v % 2 = b1 /\ (v \div 2) % 2 = b2 /\ (v \div 4) % 2 = b3 /\ (v \div 8) % 2 = b4
  BY DEF Bytes
<1> HIDE DEF v
<1>3. Byte(v, 1) = b1 /\ Byte(v, 2) = b2 /\ Byte(v, 3) = b3 /\ Byte(v, 4) = b4
  BY <1>1, <1>2, BytesAre
<1> QED BY <1>1, <1>3 DEF v

RegFiles == {r \in [Registers -> Words] : r[0] = 0}
Memories == [Addresses -> Bytes]
Known    == {i \in Insts : i.op \in {"csrw", "csrr"} => i.imm \in DOMAIN CsrOrder}
Entries  == [regs : RegFiles, csr : CsrStates, inst : Known]
Ghosts   == [mem : Memories, success : BOOLEAN]

\* Some bytes of memory.
Partial(f) == DOMAIN f \subseteq Addresses /\ \A a \in DOMAIN f : f[a] \in Bytes

(***************************************************************************)
(* Accesses                                                                *)
(***************************************************************************)
\* The addresses of an access, and which byte of the value an address gets.
Covered(span)  == {span[k] : k \in DOMAIN span}
Place(span, a) == CHOOSE k \in DOMAIN span : span[k] = a

LEMMA SpanType ==
    ASSUME NEW addr \in Words, NEW w \in Widths
    PROVE  /\ w \in 1..4 /\ 1..w \subseteq 1..4
           /\ DOMAIN Span(addr, w) = 1..w
           /\ \A k \in 1..w : Span(addr, w)[k] \in Addresses
           /\ Covered(Span(addr, w)) \subseteq Addresses
<1>1. w \in 1..4 /\ 1..w \subseteq 1..4
  BY DEF Widths
<1>2. \A n \in Int : n % 16 \in 0..15
  OBVIOUS
<1>3. \A k \in 1..w : addr + k - 1 \in Int
  BY DEF Words
<1>4. DOMAIN Span(addr, w) = 1..w
  BY DEF Span
<1>5. \A k \in 1..w : Span(addr, w)[k] \in Addresses
  BY <1>2, <1>3 DEF Span, Addresses
<1> QED BY <1>1, <1>4, <1>5 DEF Covered

LEMMA PlaceIn ==
    ASSUME NEW span, NEW a \in Covered(span)
    PROVE  Place(span, a) \in DOMAIN span /\ span[Place(span, a)] = a
<1>1. \E k \in DOMAIN span : span[k] = a
  BY DEF Covered
<1> QED BY <1>1 DEF Place

\* A store in terms of places.
LEMMA StoredIs ==
    ASSUME NEW bytes, NEW span, NEW value \in Nat
    PROVE  /\ DOMAIN Stored(bytes, span, value) = DOMAIN bytes \cup Covered(span)
           /\ \A a \in Covered(span) :
                Stored(bytes, span, value)[a] = Byte(value, Place(span, a))
           /\ \A a \in DOMAIN bytes \ Covered(span) :
                Stored(bytes, span, value)[a] = bytes[a]
<1>1. \A a : a \in Covered(span) <=> \E k \in DOMAIN span : span[k] = a
  BY DEF Covered
<1> QED BY <1>1 DEF Stored, Place, Covered

LEMMA StoredType ==
    ASSUME NEW bytes, Partial(bytes), NEW addr \in Words, NEW w \in Widths,
           NEW value \in Nat
    PROVE  Partial(Stored(bytes, Span(addr, w), value))
<1> DEFINE span == Span(addr, w)
           after == Stored(bytes, span, value)
<1>1. /\ Covered(span) \subseteq Addresses
      /\ \A a \in Covered(span) : Place(span, a) \in 1..4
  <2>1. DOMAIN span \subseteq 1..4 /\ Covered(span) \subseteq Addresses
    BY SpanType
  <2> QED BY <2>1, PlaceIn
<1> HIDE DEF span
<1>2. /\ DOMAIN after = DOMAIN bytes \cup Covered(span)
      /\ \A a \in Covered(span) : after[a] = Byte(value, Place(span, a))
      /\ \A a \in DOMAIN bytes \ Covered(span) : after[a] = bytes[a]
  BY StoredIs
<1> HIDE DEF after
<1>3. DOMAIN after \subseteq Addresses
  BY <1>1, <1>2 DEF Partial
<1>4. \A a \in Covered(span) : after[a] \in Bytes
  BY <1>1, <1>2, ByteType
<1>5. \A a \in DOMAIN after : after[a] \in Bytes
  BY <1>2, <1>4 DEF Partial
<1>6. Partial(after)
  BY <1>3, <1>5 DEF Partial
<1> QED BY <1>6 DEF after, span

LEMMA MemoryStored ==
    ASSUME NEW m \in Memories, NEW addr \in Words, NEW w \in Widths, NEW value \in Nat
    PROVE  Stored(m, Span(addr, w), value) \in Memories
<1> DEFINE span == Span(addr, w)
           after == Stored(m, span, value)
<1>1. DOMAIN m = Addresses /\ Partial(m)
  BY DEF Memories, Partial
<1>2. Partial(after)
  BY <1>1, StoredType
<1>3. Covered(span) \subseteq Addresses
  BY SpanType
<1> HIDE DEF span
<1>4. DOMAIN after = Addresses
  BY <1>1, <1>3, StoredIs
<1>5. after = [a \in DOMAIN after |-> after[a]]
  BY DEF Stored
<1> HIDE DEF after
<1>6. after \in Memories
  BY <1>2, <1>4, <1>5 DEF Memories, Partial
<1> QED BY <1>6 DEF after, span

LEMMA ByteValueIs ==
    ASSUME NEW bytes, NEW addr \in Words, NEW w \in Widths,
           \A k \in 1..w : bytes[Span(addr, w)[k]] \in Bytes
    PROVE  /\ ByteValue(bytes, Span(addr, w)) \in Words
           /\ \A k \in 1..w :
                Byte(ByteValue(bytes, Span(addr, w)), k) = bytes[Span(addr, w)[k]]
<1> DEFINE span == Span(addr, w)
           bit(k) == IF k \in DOMAIN span THEN bytes[span[k]] ELSE 0
           value == bit(1) + 2 * bit(2) + 4 * bit(3) + 8 * bit(4)
<1>1. DOMAIN span = 1..w /\ 1..w \subseteq 1..4
  BY SpanType
<1>2. \A k : bit(k) \in Bytes
  BY <1>1 DEF Bytes
<1>3. ByteValue(bytes, span) = value
  BY DEF ByteValue
<1>4. \A k \in 1..w : bit(k) = bytes[span[k]]
  BY <1>1
<1> HIDE DEF bit, span
<1>5. /\ value \in Words
      /\ Byte(value, 1) = bit(1) /\ Byte(value, 2) = bit(2)
      /\ Byte(value, 3) = bit(3) /\ Byte(value, 4) = bit(4)
  BY <1>2, BitsBack
<1> HIDE DEF value
<1>6. \A k \in 1..w : k = 1 \/ k = 2 \/ k = 3 \/ k = 4
  BY <1>1
<1>7. \A k \in 1..w : Byte(value, k) = bit(k)
  BY <1>5, <1>6
<1>8. ByteValue(bytes, span) \in Words /\ \A k \in 1..w : Byte(ByteValue(bytes, span), k) = bytes[span[k]]
  BY <1>3, <1>4, <1>5, <1>7
<1> QED BY <1>8 DEF span

LEMMA ByteValueSame ==
    ASSUME NEW m, NEW n, NEW span, \A k \in DOMAIN span : m[span[k]] = n[span[k]]
    PROVE  ByteValue(m, span) = ByteValue(n, span)
BY DEF ByteValue

(***************************************************************************)
(* The machine                                                             *)
(***************************************************************************)
LEMMA CsrNames ==
    /\ DOMAIN CsrOrder = 1..4 /\ Len(CsrOrder) = 4
    /\ CsrOrder[1] = "mstatus" /\ CsrOrder[2] = "mepc"
    /\ CsrOrder[3] = "mscratch" /\ CsrOrder[4] = "sscratch"
    /\ \A k \in DOMAIN CsrOrder :
         CsrOrder[k] \in {"mstatus", "mepc", "mscratch", "sscratch"}
<1>1. /\ DOMAIN CsrOrder = 1..4 /\ Len(CsrOrder) = 4
      /\ CsrOrder[1] = "mstatus" /\ CsrOrder[2] = "mepc"
      /\ CsrOrder[3] = "mscratch" /\ CsrOrder[4] = "sscratch"
  BY DEF CsrOrder
<1>2. \A k \in 1..4 : k = 1 \/ k = 2 \/ k = 3 \/ k = 4
  OBVIOUS
<1> QED BY <1>1, <1>2

LEMMA CsrFields ==
    ASSUME NEW c \in CsrStates
    PROVE  /\ c.priv \in Modes /\ c.mstatus \in Statuses
           /\ c.mstatus \in 0..15 /\ c.mstatus % 4 \in Modes
           /\ c.mepc \in Words /\ c.mscratch \in Words /\ c.sscratch \in Words
           /\ c = [priv |-> c.priv, mstatus |-> c.mstatus, mepc |-> c.mepc,
                   mscratch |-> c.mscratch, sscratch |-> c.sscratch]
BY DEF CsrStates, Statuses

LEMMA InstFields ==
    ASSUME NEW i \in Known
    PROVE  /\ i.op \in Ops /\ i.width \in Widths /\ i.rd \in Registers
           /\ i.rs1 \in Registers /\ i.rs2 \in Registers /\ i.imm \in Words
           /\ i.op \in {"csrw", "csrr"} => i.imm \in DOMAIN CsrOrder
BY DEF Known, Insts

LEMMA RegFields ==
    ASSUME NEW r \in RegFiles
    PROVE  /\ DOMAIN r = Registers /\ r[0] = 0
           /\ \A k \in Registers : r[k] \in Words /\ r[k] \in Nat
BY DEF RegFiles, Words

LEMMA SetType ==
    ASSUME NEW r \in RegFiles, NEW rd \in Registers, NEW v \in Words
    PROVE  Set(r, rd, v) \in RegFiles
<1>1. 0 \in Registers
  BY RegisterAssumption DEF Registers
<1> QED BY <1>1 DEF Set, RegFiles

LEMMA OldType ==
    ASSUME NEW i \in Known, NEW r \in RegFiles, NEW m \in Memories
    PROVE  ByteValue(m, Span(r[i.rs1], i.width)) \in Words
<1>1. r[i.rs1] \in Words /\ i.width \in Widths
  BY InstFields, RegFields
<1>2. \A k \in 1..i.width : m[Span(r[i.rs1], i.width)[k]] \in Bytes
  BY <1>1, SpanType DEF Memories
<1> QED BY <1>1, <1>2, ByteValueIs

\* What an instruction leaves is a state of the machine again.
Ends == [regs : RegFiles, mem : Memories, csr : CsrStates]

\* The numbers that are values of mstatus.
LEMMA StatusNumbers ==
    /\ \A n \in 0..15 : n % 4 = 0 => n \in Statuses
    /\ \A n \in 0..15 : 8 + 4 * (n \div 8) \in Statuses /\ (8 + 4 * (n \div 8)) % 4 = 0
    /\ \A n \in 0..15, p \in Modes : p + 8 * ((n \div 4) % 2) \in Statuses
    /\ \A n \in 0..15, p \in Modes : (n \div 4) * 4 + p \in Statuses
<1>1. \A n \in 0..15 : 8 + 4 * (n \div 8) \in 0..15 /\ (8 + 4 * (n \div 8)) % 4 = 0
  OBVIOUS
<1>2. ASSUME NEW n \in 0..15, NEW p \in {0, 1, 3}
      PROVE  /\ p + 8 * ((n \div 4) % 2) \in 0..15
             /\ (p + 8 * ((n \div 4) % 2)) % 4 = p
  <2>1. (n \div 4) % 2 = 0 \/ (n \div 4) % 2 = 1
    OBVIOUS
  <2>2. p + 8 * 0 \in 0..15 /\ p + 8 * 1 \in 0..15
        /\ (p + 8 * 0) % 4 = p /\ (p + 8 * 1) % 4 = p
    OBVIOUS
  <2> QED BY <2>1, <2>2
<1>3. ASSUME NEW n \in 0..15, NEW p \in {0, 1, 3}
      PROVE  (n \div 4) * 4 + p \in 0..15 /\ ((n \div 4) * 4 + p) % 4 = p
  <2>1. n \div 4 \in 0..3
    OBVIOUS
  <2>2. \A q \in 0..3 : q * 4 + p \in 0..15 /\ (q * 4 + p) % 4 = p
    OBVIOUS
  <2> QED BY <2>1, <2>2
<1> QED BY <1>1, <1>2, <1>3 DEF Statuses, Modes

LEMMA MretType ==
    ASSUME NEW c \in CsrStates
    PROVE  /\ Mret(c) \in CsrStates
           /\ Mret(c).priv = c.mstatus % 4
           /\ Mret(c).mstatus = 8 + 4 * (c.mstatus \div 8)
           /\ Mret(c).mepc = c.mepc
           /\ Mret(c).mscratch = c.mscratch /\ Mret(c).sscratch = c.sscratch
<1>1. c.mstatus % 4 \in Modes /\ 8 + 4 * (c.mstatus \div 8) \in Statuses
  BY StatusNumbers, CsrFields
<1> QED BY <1>1 DEF Mret, CsrStates

LEMMA TrapType ==
    ASSUME NEW c \in CsrStates, NEW addr \in Words
    PROVE  /\ Trap(c, addr) \in CsrStates
           /\ Trap(c, addr).priv = 3
           /\ Trap(c, addr).mstatus = c.priv + 8 * ((c.mstatus \div 4) % 2)
           /\ Trap(c, addr).mepc = addr
           /\ Trap(c, addr).mscratch = c.mscratch
           /\ Trap(c, addr).sscratch = c.sscratch
<1>1. c.priv + 8 * ((c.mstatus \div 4) % 2) \in Statuses
  BY StatusNumbers, CsrFields
<1>2. 3 \in Modes
  BY DEF Modes
<1> QED BY <1>1, <1>2 DEF Trap, CsrStates

LEMMA WrittenStatusType ==
    ASSUME NEW old \in Statuses, NEW v \in Words
    PROVE  WrittenStatus(old, v) \in Statuses
<1>1. v \in 0..15 /\ old % 4 \in Modes
  BY DEF Words, Statuses
<1>2. CASE v % 4 \in Modes
  BY <1>1, <1>2 DEF WrittenStatus, Statuses
<1>3. CASE v % 4 \notin Modes
  <2>1. (v \div 4) * 4 + (old % 4) \in Statuses
    BY <1>1, StatusNumbers
  <2> QED BY <1>3, <2>1 DEF WrittenStatus, WithMpp
<1> QED BY <1>2, <1>3

LEMMA WriteCsrType ==
    ASSUME NEW c \in CsrStates, NEW k \in DOMAIN CsrOrder, NEW v \in Words
    PROVE  /\ WriteCsrValue(c, CsrOrder[k], v) \in CsrStates
           /\ WriteCsrValue(c, CsrOrder[k], v).priv = c.priv
           /\ WriteCsrValue(c, CsrOrder[k], v).mstatus
                = IF CsrOrder[k] = "mstatus" THEN WrittenStatus(c.mstatus, v) ELSE c.mstatus
           /\ WriteCsrValue(c, CsrOrder[k], v).mepc
                = IF CsrOrder[k] = "mepc" THEN v ELSE c.mepc
           /\ WriteCsrValue(c, CsrOrder[k], v).mscratch
                = IF CsrOrder[k] = "mscratch" THEN v ELSE c.mscratch
           /\ WriteCsrValue(c, CsrOrder[k], v).sscratch
                = IF CsrOrder[k] = "sscratch" THEN v ELSE c.sscratch
<1>1. WrittenStatus(c.mstatus, v) \in Statuses
  BY CsrFields, WrittenStatusType
<1>2. CsrOrder[k] \in {"mstatus", "mepc", "mscratch", "sscratch"}
  BY CsrNames
<1> QED BY <1>1, <1>2 DEF WriteCsrValue, CsrStates

LEMMA EffectType ==
    ASSUME NEW i \in Known, NEW r \in RegFiles, NEW m \in Memories,
           NEW c \in CsrStates, NEW success \in BOOLEAN
    PROVE  Effect(i, r, m, c, success) \in Ends
<1> DEFINE span == Span(r[i.rs1], i.width)
           old  == ByteValue(m, span)
           Put(v) == Stored(m, span, v)
<1>1. /\ i.op \in Ops /\ i.rd \in Registers /\ i.imm \in Words
      /\ i.op \in {"csrw", "csrr"} => i.imm \in DOMAIN CsrOrder
  BY InstFields
<1>2. /\ old \in Words /\ old \in Nat /\ r[i.rs2] \in Nat /\ r[i.rs1] \in Words
  BY OldType, InstFields, RegFields DEF Words
<1>3. \A v \in Nat : Put(v) \in Memories
  BY <1>2, InstFields, MemoryStored
<1>4. \A v \in Words : Set(r, i.rd, v) \in RegFiles
  BY <1>1, SetType
<1>5. 0 \in Words /\ 1 \in Words
  BY DEF Words
<1>6. \A k \in DOMAIN CsrOrder : c[CsrOrder[k]] \in Words
  <2>1. \A n \in 0..15 : n \in Words
    BY DEF Words
  <2>2. /\ c["mstatus"] \in Words /\ c["mepc"] \in Words
        /\ c["mscratch"] \in Words /\ c["sscratch"] \in Words
    BY <2>1, CsrFields
  <2> QED BY <2>2, CsrNames
<1>7. old + r[i.rs2] \in Nat
  BY <1>2
<1> HIDE DEF span, old, Put
<1>8. Effect(i, r, m, c, success) =
        LET End(rs, bytes) == [regs |-> rs, mem |-> bytes, csr |-> c]
        IN  CASE i.op = "li" -> End(Set(r, i.rd, i.imm), m)
              [] i.op \in {"load", "lr"} -> End(Set(r, i.rd, old), m)
              [] i.op = "store" -> End(r, Put(r[i.rs2]))
              [] i.op = "swap" -> End(Set(r, i.rd, old), Put(r[i.rs2]))
              [] i.op = "add" -> End(Set(r, i.rd, old), Put(old + r[i.rs2]))
              [] i.op = "sc" /\ success -> End(Set(r, i.rd, 0), Put(r[i.rs2]))
              [] i.op = "sc" /\ ~success -> End(Set(r, i.rd, 1), m)
              [] i.op = "csrr" -> End(Set(r, i.rd, c[CsrOrder[i.imm]]), m)
              [] i.op = "csrw" ->
                   [End(r, m) EXCEPT !.csr = WriteCsrValue(c, CsrOrder[i.imm], r[i.rs1])]
              [] i.op = "mret" -> [End(r, m) EXCEPT !.csr = Mret(c)]
              [] i.op \in Trapping -> [End(r, m) EXCEPT !.csr = Trap(c, i.imm)]
  BY DEF Effect, span, old, Put
<1>9. CASE i.op \in {"li", "load", "lr", "store", "swap", "add"}
  BY <1>1, <1>2, <1>3, <1>4, <1>7, <1>8, <1>9 DEF Ends, Trapping
<1>10. CASE i.op = "sc"
  BY <1>1, <1>2, <1>3, <1>4, <1>5, <1>8, <1>10 DEF Ends, Trapping
<1>11. CASE i.op = "csrr"
  BY <1>1, <1>4, <1>6, <1>8, <1>11 DEF Ends, Trapping
<1>12. CASE i.op = "csrw"
  <2>1. WriteCsrValue(c, CsrOrder[i.imm], r[i.rs1]) \in CsrStates
    BY <1>1, <1>2, <1>12, WriteCsrType
  <2> QED BY <2>1, <1>8, <1>12 DEF Ends, Trapping
<1>13. CASE i.op = "mret"
  BY <1>8, <1>13, MretType DEF Ends, Trapping
<1>14. CASE i.op \in Trapping
  BY <1>1, <1>8, <1>14, TrapType DEF Ends, Trapping
<1> QED BY <1>1, <1>9, <1>10, <1>11, <1>12, <1>13, <1>14 DEF Ops, Trapping

LEMMA EffectIs ==
    ASSUME NEW i, NEW r, NEW m, NEW c, NEW success \in BOOLEAN, i.op \in Ops
    PROVE  LET span == Span(r[i.rs1], i.width)
               old  == ByteValue(m, span)
               e    == Effect(i, r, m, c, success)
           IN  /\ i.op = "li" => e.regs = Set(r, i.rd, i.imm) /\ e.mem = m /\ e.csr = c
               /\ i.op \in {"load", "lr"} =>
                    e.regs = Set(r, i.rd, old) /\ e.mem = m /\ e.csr = c
               /\ i.op = "store" =>
                    e.regs = r /\ e.mem = Stored(m, span, r[i.rs2]) /\ e.csr = c
               /\ i.op = "swap" =>
                    /\ e.regs = Set(r, i.rd, old) /\ e.csr = c
                    /\ e.mem = Stored(m, span, r[i.rs2])
               /\ i.op = "add" =>
                    /\ e.regs = Set(r, i.rd, old) /\ e.csr = c
                    /\ e.mem = Stored(m, span, old + r[i.rs2])
               /\ i.op = "sc" =>
                    /\ e.regs = Set(r, i.rd, IF success THEN 0 ELSE 1) /\ e.csr = c
                    /\ e.mem = IF success THEN Stored(m, span, r[i.rs2]) ELSE m
               /\ i.op = "csrr" =>
                    /\ e.regs = Set(r, i.rd, c[CsrOrder[i.imm]])
                    /\ e.mem = m /\ e.csr = c
               /\ i.op = "csrw" =>
                    /\ e.regs = r /\ e.mem = m
                    /\ e.csr = WriteCsrValue(c, CsrOrder[i.imm], r[i.rs1])
               /\ i.op = "mret" => e.regs = r /\ e.mem = m /\ e.csr = Mret(c)
               /\ i.op \in Trapping => e.regs = r /\ e.mem = m /\ e.csr = Trap(c, i.imm)
<1> DEFINE span == Span(r[i.rs1], i.width)
           old  == ByteValue(m, span)
           e    == Effect(i, r, m, c, success)
<1>1. i.op = "li" => e.regs = Set(r, i.rd, i.imm) /\ e.mem = m /\ e.csr = c
  BY DEF Effect, Trapping
<1>2. i.op \in {"load", "lr"} => e.regs = Set(r, i.rd, old) /\ e.mem = m /\ e.csr = c
  BY DEF Effect, Trapping
<1>3. i.op = "store" => e.regs = r /\ e.mem = Stored(m, span, r[i.rs2]) /\ e.csr = c
  BY DEF Effect, Trapping
<1>4. i.op = "swap" => /\ e.regs = Set(r, i.rd, old) /\ e.csr = c
                       /\ e.mem = Stored(m, span, r[i.rs2])
  BY DEF Effect, Trapping
<1>5. i.op = "add" => /\ e.regs = Set(r, i.rd, old) /\ e.csr = c
                      /\ e.mem = Stored(m, span, old + r[i.rs2])
  BY DEF Effect, Trapping
<1>6. i.op = "sc" => /\ e.regs = Set(r, i.rd, IF success THEN 0 ELSE 1) /\ e.csr = c
                     /\ e.mem = IF success THEN Stored(m, span, r[i.rs2]) ELSE m
  BY DEF Effect, Trapping
<1>7. i.op = "csrr" => /\ e.regs = Set(r, i.rd, c[CsrOrder[i.imm]])
                       /\ e.mem = m /\ e.csr = c
  BY DEF Effect, Trapping
<1>8. i.op = "csrw" => /\ e.regs = r /\ e.mem = m
                       /\ e.csr = WriteCsrValue(c, CsrOrder[i.imm], r[i.rs1])
  BY DEF Effect, Trapping
<1>9. i.op = "mret" => e.regs = r /\ e.mem = m /\ e.csr = Mret(c)
  BY DEF Effect, Trapping
<1>10. i.op \in Trapping => e.regs = r /\ e.mem = m /\ e.csr = Trap(c, i.imm)
  BY DEF Effect, Trapping
<1> HIDE DEF e
<1> QED BY <1>1, <1>2, <1>3, <1>4, <1>5, <1>6, <1>7, <1>8, <1>9, <1>10 DEF e

\* The same store makes two memories agree where it stores.
LEMMA StoredSame ==
    ASSUME NEW m \in Memories, NEW n \in Memories, NEW span, NEW value \in Nat,
           NEW a \in Addresses, m[a] = n[a] \/ a \in Covered(span)
    PROVE  Stored(m, span, value)[a] = Stored(n, span, value)[a]
<1>1. DOMAIN m = Addresses /\ DOMAIN n = Addresses
  BY DEF Memories
<1>2. /\ DOMAIN Stored(m, span, value) = DOMAIN m \cup Covered(span)
      /\ \A b \in Covered(span) : Stored(m, span, value)[b] = Byte(value, Place(span, b))
      /\ \A b \in DOMAIN m \ Covered(span) : Stored(m, span, value)[b] = m[b]
  BY StoredIs
<1>3. /\ DOMAIN Stored(n, span, value) = DOMAIN n \cup Covered(span)
      /\ \A b \in Covered(span) : Stored(n, span, value)[b] = Byte(value, Place(span, b))
      /\ \A b \in DOMAIN n \ Covered(span) : Stored(n, span, value)[b] = n[b]
  BY StoredIs
<1> QED BY <1>1, <1>2, <1>3

\* c is was, as far as its mode can tell.
SameTo(c, was) ==
    /\ c.priv = was.priv
    /\ c.mstatus = was.mstatus
    /\ c.mscratch = was.mscratch /\ c.sscratch = was.sscratch
    /\ c.priv = 3 => c.mepc = was.mepc

\* Legal, for a mode at hand.
Allowed(i, mode) ==
    /\ i.op \in {"csrw", "csrr"} => mode >= CsrMode(CsrOrder[i.imm])
    /\ i.op = "mret" => mode = 3

LEMMA LegalIs == \A i : Legal(i) <=> Allowed(i, csr.priv)
BY DEF Legal, Allowed

\* Below machine mode only sscratch can be accessed.
LEMMA AllowedCsr ==
    ASSUME NEW i \in Known, NEW mode \in Modes, Allowed(i, mode),
           i.op \in {"csrw", "csrr"}
    PROVE  mode = 3 \/ CsrOrder[i.imm] = "sscratch"
<1>1. mode >= CsrMode(CsrOrder[i.imm])
  BY DEF Allowed
<1>2. CsrOrder[i.imm] # "sscratch" => CsrMode(CsrOrder[i.imm]) = 3
  BY DEF CsrMode
<1> QED BY <1>1, <1>2 DEF Modes

\* An instruction does the same to two states that agree in the registers, in
\* the CSRs as far as the mode can tell, and in the bytes it reads.
LEMMA EffectRepeats ==
    ASSUME NEW i \in Known, NEW r \in RegFiles, NEW m \in Memories, NEW n \in Memories,
           NEW c \in CsrStates, NEW d \in CsrStates, NEW success \in BOOLEAN,
           SameTo(c, d),
           Allowed(i, d.priv),
           i.op \in {"load", "swap", "add", "lr"} =>
             \A a \in Covered(Span(r[i.rs1], i.width)) : m[a] = n[a]
    PROVE  LET e == Effect(i, r, m, c, success)
               f == Effect(i, r, n, d, success)
           IN  /\ e.regs = f.regs /\ SameTo(e.csr, f.csr)
               /\ \A a \in Addresses : m[a] = n[a] => e.mem[a] = f.mem[a]
               /\ i.op \in {"store", "swap"} =>
                    \A a \in Covered(Span(r[i.rs1], i.width)) : e.mem[a] = f.mem[a]
<1> DEFINE span == Span(r[i.rs1], i.width)
           e    == Effect(i, r, m, c, success)
           f    == Effect(i, r, n, d, success)
<1>1. /\ i.op \in Ops /\ i.imm \in Words /\ r[i.rs1] \in Words /\ r[i.rs2] \in Nat
      /\ i.width \in Widths
      /\ i.op \in {"csrw", "csrr"} => i.imm \in DOMAIN CsrOrder
  BY InstFields, RegFields
<1>2. i.op \in {"load", "swap", "add", "lr"} => ByteValue(m, span) = ByteValue(n, span)
  BY ByteValueSame DEF Covered
<1>3. ByteValue(m, span) \in Nat
  BY OldType DEF Words
<1>4. Covered(span) \subseteq Addresses
  BY <1>1, SpanType
<1> HIDE DEF span
<1>5. \A v \in Nat, a \in Addresses :
        (m[a] = n[a] \/ a \in Covered(span)) => Stored(m, span, v)[a] = Stored(n, span, v)[a]
  BY StoredSame
<1>6. CASE i.op \in {"li", "load", "lr", "store", "swap", "add", "sc"}
  <2>1. e.csr = c /\ f.csr = d
    BY <1>6, <1>1, EffectIs
  <2>2. e.regs = f.regs
    <3>1. CASE i.op = "store"
      BY <3>1, <1>1, EffectIs
    <3>2. CASE i.op \in {"li", "sc"}
      BY <3>2, <1>1, EffectIs
    <3>3. CASE i.op \in {"load", "lr", "swap", "add"}
      BY <3>3, <1>1, <1>2, EffectIs DEF span
    <3> QED BY <1>6, <3>1, <3>2, <3>3
  <2>3. CASE i.op \in {"li", "load", "lr"}
    <3>1. e.mem = m /\ f.mem = n
      BY <2>3, <1>1, EffectIs
    <3> QED BY <2>1, <2>2, <2>3, <3>1
  <2>4. CASE i.op \in {"store", "swap"}
    <3>1. e.mem = Stored(m, span, r[i.rs2]) /\ f.mem = Stored(n, span, r[i.rs2])
      BY <2>4, <1>1, EffectIs DEF span
    <3> HIDE DEF e, f
    <3>2. /\ \A a \in Addresses : m[a] = n[a] => e.mem[a] = f.mem[a]
          /\ \A a \in Covered(span) : e.mem[a] = f.mem[a]
      BY <1>1, <1>4, <1>5, <3>1
    <3> QED BY <2>1, <2>2, <3>2 DEF e, f, span
  <2>5. CASE i.op = "add"
    <3>1. /\ e.mem = Stored(m, span, ByteValue(m, span) + r[i.rs2])
          /\ f.mem = Stored(n, span, ByteValue(m, span) + r[i.rs2])
      BY <2>5, <1>1, <1>2, EffectIs DEF span
    <3>2. ByteValue(m, span) + r[i.rs2] \in Nat
      BY <1>1, <1>3
    <3> HIDE DEF e, f
    <3>3. \A a \in Addresses : m[a] = n[a] => e.mem[a] = f.mem[a]
      BY <1>5, <3>1, <3>2
    <3> QED BY <2>1, <2>2, <2>5, <3>3 DEF e, f
  <2>6. CASE i.op = "sc"
    <3>1. \/ e.mem = Stored(m, span, r[i.rs2]) /\ f.mem = Stored(n, span, r[i.rs2])
          \/ e.mem = m /\ f.mem = n
      BY <2>6, <1>1, EffectIs DEF span
    <3> HIDE DEF e, f
    <3>2. \A a \in Addresses : m[a] = n[a] => e.mem[a] = f.mem[a]
      BY <1>1, <1>5, <3>1
    <3> QED BY <2>1, <2>2, <2>6, <3>2 DEF e, f
  <2> QED BY <1>6, <2>3, <2>4, <2>5, <2>6
<1>7. CASE i.op \in {"csrw", "csrr", "mret"} \cup Trapping
  <2>0. "load" \notin Trapping /\ "store" \notin Trapping /\ "swap" \notin Trapping
    BY DEF Trapping
  <2>1. e.mem = m /\ f.mem = n
    BY <1>7, <1>1, EffectIs
  <2>2. CASE i.op = "csrr"
    <3>1. c[CsrOrder[i.imm]] = d[CsrOrder[i.imm]]
      <4>1. /\ c["mstatus"] = d["mstatus"] /\ c["mscratch"] = d["mscratch"]
            /\ c["sscratch"] = d["sscratch"] /\ (d.priv = 3 => c["mepc"] = d["mepc"])
        BY DEF SameTo
      <4>2. d.priv = 3 \/ CsrOrder[i.imm] = "sscratch"
        BY <2>2, AllowedCsr, CsrFields
      <4> QED BY <1>1, <2>2, <4>1, <4>2, CsrNames
    <3>2. e.regs = f.regs /\ e.csr = c /\ f.csr = d
      BY <1>1, <2>2, <3>1, EffectIs
    <3> QED BY <2>1, <2>2, <3>2
  <2>3. CASE i.op = "csrw"
    <3>1. /\ e.regs = f.regs
          /\ e.csr = WriteCsrValue(c, CsrOrder[i.imm], r[i.rs1])
          /\ f.csr = WriteCsrValue(d, CsrOrder[i.imm], r[i.rs1])
      BY <1>1, <2>3, EffectIs
    <3>2. SameTo(e.csr, f.csr)
      <4>1. c.priv = d.priv /\ c.mstatus = d.mstatus /\ (c.priv = 3 => c.mepc = d.mepc)
            /\ c.mscratch = d.mscratch /\ c.sscratch = d.sscratch
        BY DEF SameTo
      <4> HIDE DEF e, f
      <4> QED BY <1>1, <2>3, <3>1, <4>1, WriteCsrType DEF SameTo
    <3> QED BY <2>1, <2>3, <3>1, <3>2
  <2>4. CASE i.op = "mret"
    <3>1. e.regs = f.regs /\ e.csr = Mret(c) /\ f.csr = Mret(d)
      BY <1>1, <2>4, EffectIs
    <3>2. SameTo(e.csr, f.csr)
      <4>1. d.priv = 3
        BY <2>4 DEF Allowed
      <4>2. /\ c.mstatus = d.mstatus /\ c.mepc = d.mepc
            /\ c.mscratch = d.mscratch /\ c.sscratch = d.sscratch
        BY <4>1 DEF SameTo
      <4> HIDE DEF e, f
      <4> QED BY <3>1, <4>2, MretType DEF SameTo
    <3> QED BY <2>1, <2>4, <3>1, <3>2
  <2>5. CASE i.op \in Trapping
    <3>1. e.regs = f.regs /\ e.csr = Trap(c, i.imm) /\ f.csr = Trap(d, i.imm)
      BY <1>1, <2>5, EffectIs
    <3>2. SameTo(e.csr, f.csr)
      <4> HIDE DEF e, f
      <4> QED BY <1>1, <3>1, TrapType DEF SameTo
    <3> QED BY <2>0, <2>1, <2>5, <3>1, <3>2
  <2> QED BY <1>7, <2>2, <2>3, <2>4, <2>5
<1> QED BY <1>1, <1>6, <1>7 DEF Ops, Trapping

\* Below machine mode, MPP is what the mret left that went there.
MppClear(c) == c.priv # 3 => c.mstatus % 4 = 0

LEMMA EffectClear ==
    ASSUME NEW i \in Known, NEW r \in RegFiles, NEW m \in Memories,
           NEW c \in CsrStates, NEW success \in BOOLEAN,
           Allowed(i, c.priv), MppClear(c)
    PROVE  MppClear(Effect(i, r, m, c, success).csr)
<1>1. /\ i.op \in Ops /\ i.imm \in Words /\ r[i.rs1] \in Words
      /\ i.op \in {"csrw", "csrr"} => i.imm \in DOMAIN CsrOrder
  BY InstFields, RegFields
<1>2. CASE i.op \notin {"csrw", "mret"} \cup Trapping
  BY <1>1, <1>2, EffectIs DEF Ops, Trapping
<1>3. CASE i.op = "csrw"
  <2>1. Effect(i, r, m, c, success).csr = WriteCsrValue(c, CsrOrder[i.imm], r[i.rs1])
    BY <1>1, <1>3, EffectIs
  <2>2. c.priv = 3 \/ CsrOrder[i.imm] = "sscratch"
    BY <1>3, AllowedCsr, CsrFields
  <2> QED BY <1>1, <1>3, <2>1, <2>2, WriteCsrType DEF MppClear
<1>4. CASE i.op = "mret"
  <2>1. Effect(i, r, m, c, success).csr = Mret(c)
    BY <1>1, <1>4, EffectIs
  <2> QED BY <2>1, StatusNumbers, MretType, CsrFields DEF MppClear
<1>5. CASE i.op \in Trapping
  <2>1. Effect(i, r, m, c, success).csr = Trap(c, i.imm)
    BY <1>1, <1>5, EffectIs
  <2> QED BY <1>1, <2>1, TrapType DEF MppClear
<1> QED BY <1>2, <1>3, <1>4, <1>5

(***************************************************************************)
(* Decoding                                                                *)
(***************************************************************************)
EntrySpan(entry) == Span(entry.regs[entry.inst.rs1], entry.inst.width)

LEMMA EntryFields ==
    ASSUME NEW entry \in Entries
    PROVE  /\ entry.regs \in RegFiles /\ entry.csr \in CsrStates /\ entry.inst \in Known
           /\ entry.regs[entry.inst.rs1] \in Words /\ entry.inst.width \in Widths
           /\ entry.regs[entry.inst.rs2] \in Nat /\ entry.regs[entry.inst.rd] \in Nat
           /\ entry.inst.op \in Ops
<1>1. entry.regs \in RegFiles /\ entry.csr \in CsrStates /\ entry.inst \in Known
  BY DEF Entries
<1> QED BY <1>1, InstFields, RegFields

LEMMA WriteIs ==
    ASSUME NEW entry, NEW value
    PROVE  /\ Write(entry, value).kind = "write"
           /\ Write(entry, value).span = EntrySpan(entry)
           /\ Write(entry, value).value = Truncate(value, entry.inst.width)
BY DEF Write, EntrySpan

LEMMA OtherKinds ==
    /\ NotAnAccess.kind # "write" /\ NotAnAccess.kind # "read"
    /\ Unsupported.kind # "write" /\ Unsupported.kind # "read"
    /\ NotAnAccess # Unsupported
<1>1. NotAnAccess.kind = "none" /\ Unsupported.kind = "unsupported"
  BY DEF NotAnAccess, Unsupported
<1> QED BY <1>1

\* What the decoder takes for a write covers the addresses of the access.
LEMMA WriteDecoded ==
    ASSUME NEW entry \in Entries, DecodeWrite(entry).kind = "write"
    PROVE  /\ DecodeWrite(entry).span = EntrySpan(entry)
           /\ DecodeWrite(entry).value \in Nat
<1> DEFINE w  == entry.inst.width
           rd == entry.regs[entry.inst.rd]
           rhs == Truncate(entry.regs[entry.inst.rs2], w)
<1>1. w \in Widths /\ rd \in Nat /\ rhs \in Nat /\ Truncate(rd, w) + rhs \in Nat
  <2>1. w \in Widths /\ rd \in Nat /\ entry.regs[entry.inst.rs2] \in Nat
    BY EntryFields
  <2>2. rhs \in Nat /\ Truncate(rd, w) \in Nat
    BY <2>1, TruncateKeeps
  <2> QED BY <2>1, <2>2
<1>2. \/ DecodeWrite(entry) = Write(entry, rhs)
      \/ DecodeWrite(entry) = Write(entry, Truncate(rd, w) + rhs)
  BY OtherKinds DEF DecodeWrite
<1> HIDE DEF rd, rhs
<1>3. Truncate(rhs, w) \in Nat /\ Truncate(Truncate(rd, w) + rhs, w) \in Nat
  BY <1>1, TruncateKeeps
<1> QED BY <1>2, <1>3, WriteIs

Stale(entry) == entry.inst.op \in {"add", "sc"} /\ entry.inst.rd # 0

\* If the access is not stale, a write is decoded for the stores it performs.
LEMMA FreshDecoded ==
    ASSUME NEW entry \in Entries, ~Stale(entry), DecodeWrite(entry) # Unsupported
    PROVE  /\ DecodeWrite(entry).kind = "write" <=> entry.inst.op \in {"store", "swap"}
           /\ DecodeWrite(entry).kind # "write" =>
                entry.inst.op \notin {"store", "swap", "add", "sc"}
           /\ DecodeWrite(entry).kind = "write" =>
                DecodeWrite(entry).value
                  = Truncate(Truncate(entry.regs[entry.inst.rs2], entry.inst.width),
                             entry.inst.width)
<1>1. CASE entry.inst.op \in {"store", "swap"}
  BY <1>1, WriteIs DEF DecodeWrite
<1>2. CASE entry.inst.op \in {"add", "sc"}
  BY <1>2 DEF DecodeWrite, Stale
<1>3. CASE entry.inst.op \notin {"store", "swap", "add", "sc"}
  <2>1. DecodeWrite(entry) \in {NotAnAccess, Unsupported}
    BY <1>3 DEF DecodeWrite
  <2> QED BY <1>3, <2>1, OtherKinds
<1> QED BY <1>1, <1>2, <1>3

LEMMA ReadDecoded ==
    ASSUME NEW entry
    PROVE  /\ DecodeRead(entry).kind = "read"
                <=> entry.inst.op \in {"load", "swap", "add", "lr"}
           /\ DecodeRead(entry).kind = "read" => DecodeRead(entry).span = EntrySpan(entry)
<1>1. CASE entry.inst.op \in {"load", "swap", "add", "lr"}
  BY <1>1 DEF DecodeRead, EntrySpan
<1>2. CASE entry.inst.op \notin {"load", "swap", "add", "lr"}
  BY <1>2, OtherKinds DEF DecodeRead
<1> QED BY <1>1, <1>2

\* A byte of the replay is the byte the store wrote.
LEMMA ReplayedByte ==
    ASSUME NEW entry \in Entries, NEW bytes, NEW m \in Memories, NEW a \in Addresses,
           NEW start0 \in Memories,
           Partial(bytes), m[a] = IF a \in DOMAIN bytes THEN bytes[a] ELSE start0[a]
    PROVE  LET rhs   == entry.regs[entry.inst.rs2]
               twice == Truncate(Truncate(rhs, entry.inst.width), entry.inst.width)
               after == Stored(bytes, EntrySpan(entry), twice)
           IN  Stored(m, EntrySpan(entry), rhs)[a]
                 = IF a \in DOMAIN after THEN after[a] ELSE start0[a]
<1> DEFINE w     == entry.inst.width
           rhs   == entry.regs[entry.inst.rs2]
           once  == Truncate(rhs, w)
           twice == Truncate(once, w)
           span  == EntrySpan(entry)
           after == Stored(bytes, span, twice)
           real  == Stored(m, span, rhs)
<1>1. w \in Widths /\ rhs \in Nat /\ DOMAIN span = 1..w
  BY EntryFields, SpanType DEF EntrySpan
<1> HIDE DEF w, rhs, span
<1>2. once \in Nat /\ \A k \in 1..w : Byte(once, k) = Byte(rhs, k)
  BY <1>1, TruncateKeeps
<1> HIDE DEF once
<1>3. twice \in Nat /\ \A k \in 1..w : Byte(twice, k) = Byte(rhs, k)
  BY <1>1, <1>2, TruncateKeeps
<1> HIDE DEF twice
<1>4. /\ DOMAIN after = DOMAIN bytes \cup Covered(span)
      /\ \A b \in Covered(span) : after[b] = Byte(twice, Place(span, b))
      /\ \A b \in DOMAIN bytes \ Covered(span) : after[b] = bytes[b]
  BY <1>3, StoredIs
<1>5. /\ DOMAIN real = DOMAIN m \cup Covered(span)
      /\ \A b \in Covered(span) : real[b] = Byte(rhs, Place(span, b))
      /\ \A b \in DOMAIN m \ Covered(span) : real[b] = m[b]
  BY <1>1, StoredIs
<1> HIDE DEF after, real
<1>6. DOMAIN m = Addresses
  BY DEF Memories
<1>7. \A b \in Covered(span) : Place(span, b) \in 1..w
  BY <1>1, PlaceIn
<1>8. a \in Covered(span) => a \in DOMAIN after /\ real[a] = after[a]
  BY <1>3, <1>4, <1>5, <1>7
<1>9. a \notin Covered(span) =>
        /\ real[a] = m[a]
        /\ a \in DOMAIN after <=> a \in DOMAIN bytes
        /\ a \in DOMAIN bytes => after[a] = bytes[a]
  BY <1>4, <1>5, <1>6
<1>10. real[a] = IF a \in DOMAIN after THEN after[a] ELSE start0[a]
  BY <1>8, <1>9
<1> QED BY <1>10 DEF real, after, twice, once, span, rhs, w

\* What does not change from one to the next is the same in the end.
LEMMA Unchanging ==
    ASSUME NEW n \in Nat, NEW f, \A k \in 1..n : f[k] = f[k + 1]
    PROVE  f[1] = f[n + 1]
<1> SUFFICES ASSUME f[1] # f[n + 1] PROVE FALSE
  OBVIOUS
<1> DEFINE S == {k \in 1..(n + 1) : f[k] # f[1]}
<1>1. S \in SUBSET Nat /\ S # {}
  BY DEF S
<1>2. PICK m \in S : \A k \in S : m <= k
  <2> HIDE DEF S
  <2> QED BY <1>1, LeastNatural
<1>3. m \in 1..(n + 1) /\ f[m] # f[1]
  OBVIOUS
<1>4. m - 1 \in 1..n /\ m - 1 + 1 = m
  BY <1>3
<1>5. f[m - 1] = f[m]
  BY <1>4
<1>6. m - 1 \in S
  BY <1>3, <1>4, <1>5
<1> QED BY <1>2, <1>4, <1>6

(***************************************************************************)
(* The inductive invariant                                                 *)
(***************************************************************************)
TypeInv ==
    /\ start \in Starts
    /\ regs \in RegFiles /\ mem \in Memories /\ csr \in CsrStates
    /\ trace \in Seq(Entries) /\ unseen \in Seq(Ghosts) /\ Len(unseen) = Len(trace)
    /\ Partial(written) /\ Partial(needed)

PhaseInv ==
    /\ pc \in {"trace", "replay", "scan", "restore", "csrs", "store", "resume",
              "none", "lost"}
    /\ pc = "trace" => skipped = 0 /\ idx = 0 /\ DOMAIN written = {} /\ DOMAIN needed = {}
    /\ pc # "trace" => skipped \in Nat /\ skipped >= 1 /\ skipped < Len(trace) /\ idx \in Nat
    /\ pc = "replay" => idx <= skipped /\ DOMAIN needed = {}
    /\ pc = "scan" => idx >= skipped /\ idx <= Len(trace)
    /\ pc = "csrs" => idx \in 1..5
    /\ pc = "resume" => idx >= skipped /\ idx <= Len(trace)

\* What the k-th traced instruction left.
After(k) == Effect(trace[k].inst, trace[k].regs, unseen[k].mem, trace[k].csr,
                   unseen[k].success)

\* The trace is a run of the machine.
MachineInv ==
    /\ Len(trace) > 0 =>
         trace[1].regs = start.regs /\ trace[1].csr = start.csr /\ unseen[1].mem = StartMem
    /\ \A k \in 1..Len(trace) :
         /\ Allowed(trace[k].inst, trace[k].csr.priv)
         /\ start.csr.priv = 3 => MppClear(trace[k].csr)
    /\ \A k \in 1..(Len(trace) - 1) :
         /\ After(k).regs = trace[k + 1].regs
         /\ After(k).mem = unseen[k + 1].mem
         /\ After(k).csr = trace[k + 1].csr
    /\ pc = "trace" =>
         /\ start.csr.priv = 3 => MppClear(csr)
         /\ Len(trace) = 0 => regs = start.regs /\ mem = StartMem /\ csr = start.csr
         /\ Len(trace) > 0 => /\ After(Len(trace)).regs = regs
                              /\ After(Len(trace)).mem = mem
                              /\ After(Len(trace)).csr = csr

\* What the decoder says the k-th instruction reads and writes.
ReadSet(k) ==
    IF DecodeRead(trace[k]).kind = "read" THEN SpanSet(DecodeRead(trace[k])) ELSE {}
WriteSet(k) ==
    IF DecodeWrite(trace[k]).kind = "write" THEN SpanSet(DecodeWrite(trace[k])) ELSE {}

\* From the j-th instruction on, a is not read before it is overwritten.
Dead(a, j) ==
    \A k \in j..Len(trace) : a \in ReadSet(k) => \E l \in j..(k - 1) : a \in WriteSet(l)

First == skipped + 1

Fresh(n) == \A k \in 1..n : ~StaleAccess(k)

\* While the prefix is replayed the bytes written are those of the traced run.
ReplayInv == pc = "replay" /\ Fresh(idx) =>
    \A a \in Addresses :
        unseen[idx + 1].mem[a] = IF a \in DOMAIN written THEN written[a] ELSE StartMem[a]

\* Of the bytes the prefix wrote, the ones looked for have been neither read
\* nor overwritten, the ones found are alive, and all others are dead.
ScanInv == pc = "scan" =>
    /\ \A a \in DOMAIN written :
         \A k \in First..idx : a \notin ReadSet(k) /\ a \notin WriteSet(k)
    /\ \A a \in DOMAIN needed : ~Dead(a, First)
    /\ Fresh(skipped) =>
         /\ \A a \in DOMAIN written : written[a] = unseen[First].mem[a]
         /\ \A a \in DOMAIN needed : needed[a] = unseen[First].mem[a]
         /\ \A a \in Addresses \ (DOMAIN written \cup DOMAIN needed) :
              unseen[First].mem[a] = StartMem[a] \/ Dead(a, First)

\* What memory holds when the restored program begins.
Restoring == IF pc = "restore" THEN StartMem ELSE mem

\* Only live bytes are restored, and all other bytes are as they were in the
\* traced run, or dead.
RestoreInv == pc \in {"restore", "csrs", "store"} =>
    /\ \A a \in DOMAIN needed : ~Dead(a, First)
    /\ \A a \in Addresses : Restoring[a] # StartMem[a] => ~Dead(a, First)
    /\ Fresh(skipped) =>
         /\ \A a \in DOMAIN needed : needed[a] = unseen[First].mem[a]
         /\ \A a \in Addresses \ DOMAIN needed :
              Restoring[a] = unseen[First].mem[a] \/ Dead(a, First)

\* Only the scratch registers have been touched.
RegsInv == pc \in {"csrs", "store"} =>
    \A r \in Registers \ {Scratches[1], Scratches[2]} : regs[r] = start.regs[r]

\* The CSRs before idx are restored, but those that mret needs.
CsrsInv ==
    /\ pc = "csrs" =>
         /\ csr.priv = start.csr.priv
         /\ \A k \in 1..4 :
              csr[CsrOrder[k]] =
                IF k < idx /\ ~(UseMret /\ CsrOrder[k] \in {"mstatus", "mepc"})
                THEN Target[CsrOrder[k]] ELSE start.csr[CsrOrder[k]]
    /\ pc = "store" /\ MretKeeps /\ ModeInReach => SameTo(csr, Target)

\* The suffix finds what it found, and only a program entered below machine
\* mode gets lost.
ResumeInv ==
    /\ pc = "resume" =>
         /\ idx = skipped =>
              \A a \in Addresses : mem[a] # StartMem[a] => ~Dead(a, First)
         /\ Fresh(Len(trace)) /\ MretKeeps /\ ModeInReach /\ idx < Len(trace) =>
              /\ regs = trace[idx + 1].regs
              /\ SameTo(csr, trace[idx + 1].csr)
              /\ \A a \in Addresses :
                   mem[a] = unseen[idx + 1].mem[a] \/ Dead(a, idx + 1)
    /\ pc = "lost" /\ Fresh(Len(trace)) /\ MretKeeps /\ ModeInReach =>
         start.csr.priv # 3

IInv ==
    /\ TypeInv /\ PhaseInv /\ MachineInv
    /\ ReplayInv /\ ScanInv /\ RestoreInv /\ RegsInv /\ CsrsInv /\ ResumeInv

\* The plan depends on the trace and on what is skipped.
LEMMA SamePlan ==
    ASSUME trace' = trace, unseen' = unseen, skipped' = skipped, start' = start
    PROVE  /\ First' = First /\ Target' = Target
           /\ Changed' = Changed /\ Scratches' = Scratches
           /\ ChangedCsrs' = ChangedCsrs /\ UseMret' = UseMret /\ MretKeeps' = MretKeeps
           /\ ModeInReach' = ModeInReach
           /\ \A n : Fresh(n)' = Fresh(n)
           /\ \A k : ReadSet(k)' = ReadSet(k) /\ WriteSet(k)' = WriteSet(k)
           /\ \A a, j : Dead(a, j)' = Dead(a, j)
           /\ \A k : After(k)' = After(k)
<1>1. First' = First /\ Target' = Target
  BY DEF First, Target
<1>2. Changed' = Changed
  BY DEF Changed
<1>3. Scratches' = Scratches
  BY <1>2 DEF Scratches
<1>4. ChangedCsrs' = ChangedCsrs
  BY DEF ChangedCsrs
<1>5. UseMret' = UseMret
  BY <1>1 DEF UseMret
<1>6. MretKeeps' = MretKeeps /\ ModeInReach' = ModeInReach
  BY <1>1, <1>5 DEF MretKeeps, ModeInReach
<1>7. \A n : Fresh(n)' = Fresh(n)
  BY DEF Fresh, StaleAccess
<1>8. \A k : ReadSet(k)' = ReadSet(k) /\ WriteSet(k)' = WriteSet(k)
  BY DEF ReadSet, WriteSet
<1>9. \A a, j : Dead(a, j)' = Dead(a, j)
  BY <1>8 DEF Dead
<1>10. \A k : After(k)' = After(k)
  BY DEF After
<1> QED BY <1>1, <1>2, <1>3, <1>4, <1>5, <1>6, <1>7, <1>8, <1>9, <1>10

LEMMA MachineKept ==
    ASSUME MachineInv, pc' # "trace",
           trace' = trace, unseen' = unseen, start' = start
    PROVE  MachineInv'
<1>1. \A k : After(k)' = After(k)
  BY DEF After
<1> QED BY <1>1 DEF MachineInv

\* Entries of the trace and what goes with them.
LEMMA EntryAt ==
    ASSUME TypeInv, NEW k \in 1..Len(trace)
    PROVE  trace[k] \in Entries /\ unseen[k] \in Ghosts /\ unseen[k].mem \in Memories
<1>1. trace[k] \in Entries /\ unseen[k] \in Ghosts
  BY DEF TypeInv
<1> QED BY <1>1 DEF Ghosts

LEMMA StartFields ==
    ASSUME TypeInv
    PROVE  /\ start.regs \in RegFiles /\ start.csr \in CsrStates
           /\ start.csr.priv \in Modes
           /\ start.program \subseteq Known
<1>1. start \in Starts
  BY DEF TypeInv
<1>2. /\ start.regs \in [Registers -> Words] /\ start.regs[0] = 0
      /\ start.csr \in CsrStates
      /\ start.program \subseteq Insts
      /\ \A i \in start.program : i.op \in {"csrw", "csrr"} => i.imm \in DOMAIN CsrOrder
  BY <1>1, RegisterAssumption
<1> QED BY <1>2, CsrFields DEF RegFiles, Known

LEMMA InitInv == Init => IInv
<1> SUFFICES ASSUME Init PROVE IInv
  OBVIOUS
<1> USE DEF Init
<1>1. TypeInv
  <2>1. start.regs \in RegFiles /\ start.csr \in CsrStates
    <3>1. start \in Starts
      OBVIOUS
    <3> QED BY <3>1, RegisterAssumption DEF RegFiles
  <2>2. DOMAIN Empty = {}
    BY DEF Empty
  <2>3. Partial(written) /\ Partial(needed)
    BY <2>2 DEF Partial
  <2> QED BY <2>1, <2>3, MemoryAssumption DEF TypeInv, Memories
<1>2. PhaseInv
  <2>1. DOMAIN Empty = {}
    BY DEF Empty
  <2> QED BY <2>1 DEF PhaseInv
<1>3. MachineInv
  <2>1. start.csr.priv = 3 => MppClear(csr)
    BY DEF MppClear
  <2>2. Len(trace) = 0
    OBVIOUS
  <2> QED BY <2>1, <2>2 DEF MachineInv
<1> QED BY <1>1, <1>2, <1>3 DEF IInv, ReplayInv, ScanInv, RestoreInv, RegsInv, CsrsInv,
       ResumeInv

LEMMA ExecuteKeeps == ASSUME IInv, NEW i \in start.program, Execute(i) PROVE IInv'
<1> USE DEF IInv
<1>1. PICK success \in Successes(i) :
        LET e == Effect(i, regs, mem, csr, success)
        IN  /\ regs' = e.regs /\ mem' = e.mem /\ csr' = e.csr
            /\ unseen' = Append(unseen, [mem |-> mem, success |-> success])
  BY DEF Execute
<1> DEFINE e == Effect(i, regs, mem, csr, success)
           entry == [regs |-> regs, csr |-> csr, inst |-> i]
           ghost == [mem |-> mem, success |-> success]
<1>0. PICK n \in Nat : n = Len(trace)
  BY DEF TypeInv
<1>2. /\ pc = "trace" /\ pc' = pc /\ trace' = Append(trace, entry)
      /\ unseen' = Append(unseen, ghost)
      /\ regs' = e.regs /\ mem' = e.mem /\ csr' = e.csr
      /\ UNCHANGED <<start, skipped, idx, written, needed>>
      /\ Allowed(i, csr.priv)
  BY <1>1, LegalIs DEF Execute
<1>3. /\ i \in Known /\ success \in BOOLEAN
      /\ regs \in RegFiles /\ mem \in Memories /\ csr \in CsrStates
      /\ trace \in Seq(Entries) /\ unseen \in Seq(Ghosts) /\ Len(unseen) = n /\ Len(trace) = n
  <2>1. i \in Known
    BY StartFields
  <2>2. Successes(i) \subseteq BOOLEAN
    BY Zenon DEF Successes
  <2>3. success \in BOOLEAN
    BY <2>2
  <2> QED BY <1>0, <2>1, <2>3 DEF TypeInv
<1>4. e \in Ends
  BY <1>3, EffectType
<1>5. e.regs \in RegFiles /\ e.mem \in Memories /\ e.csr \in CsrStates
  BY <1>4 DEF Ends
<1>6. entry \in Entries /\ ghost \in Ghosts
  BY <1>3 DEF Entries, Ghosts
<1>7. start.csr.priv = 3 => MppClear(csr)
  BY <1>2 DEF MachineInv
<1>8. start.csr.priv = 3 => MppClear(e.csr)
  BY <1>2, <1>3, <1>7, EffectClear
<1> HIDE DEF e, entry, ghost
<1>9. /\ Len(trace') = n + 1 /\ Len(unseen') = n + 1
      /\ \A k \in 1..n : trace'[k] = trace[k] /\ unseen'[k] = unseen[k]
      /\ trace'[n + 1] = entry /\ unseen'[n + 1] = ghost
      /\ trace' \in Seq(Entries) /\ unseen' \in Seq(Ghosts)
  BY <1>2, <1>3, <1>6
<1>10. TypeInv'
  BY <1>2, <1>5, <1>9 DEF TypeInv, Partial
<1>11. PhaseInv'
  BY <1>2 DEF PhaseInv
<1>12. /\ entry.regs = regs /\ entry.csr = csr /\ entry.inst = i
       /\ ghost.mem = mem /\ ghost.success = success
  BY DEF entry, ghost
<1>13. /\ \A k \in 1..n : After(k)' = After(k)
       /\ After(n + 1)' = e
  <2>1. ASSUME NEW k \in 1..n PROVE After(k)' = After(k)
    <3>1. trace'[k] = trace[k] /\ unseen'[k] = unseen[k]
      BY <1>9
    <3> QED BY <3>1 DEF After
  <2>2. After(n + 1)' = Effect(i, regs, mem, csr, unseen'[n + 1].success)
    BY <1>9, <1>12 DEF After
  <2>3. unseen'[n + 1].success = success
    BY <1>9, <1>12
  <2> QED BY <2>1, <2>2, <2>3 DEF e
<1>14. MachineInv'
  <2>1. trace'[1].regs = start.regs /\ trace'[1].csr = start.csr /\ unseen'[1].mem = StartMem
    <3>1. CASE n = 0
      BY <1>0, <1>2, <1>9, <1>12, <3>1 DEF MachineInv
    <3>2. CASE n > 0
      <4>1. 1 \in 1..n
        BY <1>3, <3>2
      <4> QED BY <1>0, <1>9, <3>2, <4>1 DEF MachineInv
    <3> QED BY <1>3, <3>1, <3>2
  <2>2. ASSUME NEW k \in 1..(n + 1)
        PROVE  /\ Allowed(trace'[k].inst, trace'[k].csr.priv)
               /\ start.csr.priv = 3 => MppClear(trace'[k].csr)
    <3>1. k \in 1..n \/ k = n + 1
      BY <1>3
    <3>2. CASE k \in 1..n
      BY <1>0, <1>9, <3>2 DEF MachineInv
    <3>3. CASE k = n + 1
      BY <1>2, <1>7, <1>9, <1>12, <3>3
    <3> QED BY <3>1, <3>2, <3>3
  <2>3. ASSUME NEW k \in 1..n
        PROVE  /\ After(k)'.regs = trace'[k + 1].regs
               /\ After(k)'.mem = unseen'[k + 1].mem
               /\ After(k)'.csr = trace'[k + 1].csr
    <3>1. k \in 1..(n - 1) \/ k = n
      BY <1>3
    <3>2. CASE k \in 1..(n - 1)
      <4>1. k + 1 \in 1..n
        BY <1>3, <3>2
      <4> QED BY <1>0, <1>9, <1>13, <3>2, <4>1 DEF MachineInv
    <3>3. CASE k = n
      <4>1. n > 0
        BY <3>3
      <4>2. After(n).regs = regs /\ After(n).mem = mem /\ After(n).csr = csr
        BY <1>0, <1>2, <4>1 DEF MachineInv
      <4> QED BY <1>9, <1>12, <1>13, <3>3, <4>2
    <3> QED BY <3>1, <3>2, <3>3
  <2>4. start.csr.priv = 3 => MppClear(csr')
    BY <1>2, <1>8
  <2>5. Len(trace') - 1 = n /\ Len(trace') > 0
    BY <1>3, <1>9
  <2>6. After(n + 1)'.regs = regs' /\ After(n + 1)'.mem = mem' /\ After(n + 1)'.csr = csr'
    BY <1>2, <1>13
  <2>7. start' = start
    BY <1>2
  <2>8. Len(trace') > 0 => /\ trace'[1].regs = start'.regs /\ trace'[1].csr = start'.csr
                           /\ unseen'[1].mem = StartMem
    BY <2>1, <2>7
  <2>9. \A k \in 1..Len(trace') :
          /\ Allowed(trace'[k].inst, trace'[k].csr.priv)
          /\ start.csr.priv = 3 => MppClear(trace'[k].csr)
    BY <1>9, <2>2
  <2>10. \A k \in 1..(Len(trace') - 1) :
           /\ After(k)'.regs = trace'[k + 1].regs
           /\ After(k)'.mem = unseen'[k + 1].mem
           /\ After(k)'.csr = trace'[k + 1].csr
    BY <2>3, <2>5
  <2>11. /\ Len(trace') # 0
         /\ After(Len(trace))'.regs = regs' /\ After(Len(trace))'.mem = mem'
         /\ After(Len(trace))'.csr = csr'
    <3>1. Len(trace') = n + 1
      BY <1>9
    <3> QED BY <2>5, <2>6, <3>1 DEF After
  <2> QED BY <2>4, <2>7, <2>8, <2>9, <2>10, <2>11 DEF MachineInv
<1> QED BY <1>2, <1>10, <1>11, <1>14 DEF ReplayInv, ScanInv, RestoreInv, RegsInv,
       CsrsInv, ResumeInv

(***************************************************************************)
(* Replaying the prefix                                                    *)
(***************************************************************************)
LEMMA SkipKeeps == ASSUME IInv, NEW n \in 1..(MaxTrace - 1), Skip(n) PROVE IInv'
<1> USE DEF IInv
<1>1. /\ pc = "trace" /\ pc' = "replay" /\ n \in 1..(Len(trace) - 1) /\ skipped' = n
      /\ UNCHANGED <<start, regs, mem, csr, trace, unseen, idx, written, needed>>
      /\ idx = 0 /\ DOMAIN written = {} /\ DOMAIN needed = {}
  BY DEF Skip, PhaseInv
<1>2. TypeInv'
  BY <1>1 DEF TypeInv, Partial
<1>3. Len(trace) \in Nat /\ n \in Nat
  BY <1>1, TraceAssumption DEF TypeInv
<1>4. PhaseInv'
  BY <1>1, <1>3 DEF PhaseInv
<1>5. MachineInv'
  BY <1>1, MachineKept
<1>6. ReplayInv'
  <2>1. unseen[1].mem = StartMem
    BY <1>1, <1>3 DEF MachineInv
  <2> QED BY <1>1, <2>1 DEF ReplayInv
<1> QED BY <1>1, <1>2, <1>4, <1>5, <1>6 DEF ScanInv, RestoreInv, RegsInv, CsrsInv, ResumeInv

\* What a decoded write adds is part of memory.
LEMMA WrittenType ==
    ASSUME NEW entry \in Entries, NEW bytes, Partial(bytes),
           DecodeWrite(entry).kind = "write"
    PROVE  Partial(Stored(bytes, DecodeWrite(entry).span, DecodeWrite(entry).value))
<1>1. /\ DecodeWrite(entry).span = EntrySpan(entry) /\ DecodeWrite(entry).value \in Nat
      /\ entry.regs[entry.inst.rs1] \in Words /\ entry.inst.width \in Widths
  BY WriteDecoded, EntryFields
<1> QED BY <1>1, StoredType DEF EntrySpan

\* One instruction of the prefix: what it left in memory is what is replayed.
LEMMA ReplayStep ==
    ASSUME TypeInv, MachineInv, NEW k \in 1..(Len(trace) - 1), ~StaleAccess(k),
           DecodeWrite(trace[k]) # Unsupported, NEW bytes, Partial(bytes),
           \A a \in Addresses :
             unseen[k].mem[a] = IF a \in DOMAIN bytes THEN bytes[a] ELSE StartMem[a]
    PROVE  LET write == DecodeWrite(trace[k])
               after == IF write.kind = "write"
                        THEN Stored(bytes, write.span, write.value) ELSE bytes
           IN  \A a \in Addresses :
                 unseen[k + 1].mem[a] = IF a \in DOMAIN after THEN after[a] ELSE StartMem[a]
<1> DEFINE entry == trace[k]
           m == unseen[k].mem
<1>1. Len(trace) \in Nat /\ k \in 1..Len(trace)
  BY DEF TypeInv
<1>2. entry \in Entries /\ m \in Memories /\ unseen[k].success \in BOOLEAN
  BY <1>1, EntryAt DEF Ghosts
<1>3. unseen[k + 1].mem
        = Effect(entry.inst, entry.regs, m, entry.csr, unseen[k].success).mem
  BY DEF MachineInv, After
<1>4. ~Stale(entry)
  BY DEF StaleAccess, Stale
<1>5. entry.inst.op \in Ops
  BY <1>2, EntryFields
<1> HIDE DEF entry, m
<1>6. CASE DecodeWrite(entry).kind = "write"
  <2> DEFINE rhs   == entry.regs[entry.inst.rs2]
             twice == Truncate(Truncate(rhs, entry.inst.width), entry.inst.width)
             after == Stored(bytes, EntrySpan(entry), twice)
  <2>1. entry.inst.op \in {"store", "swap"}
    BY <1>2, <1>4, <1>6, FreshDecoded DEF entry
  <2>2. unseen[k + 1].mem = Stored(m, EntrySpan(entry), rhs)
    BY <1>2, <1>3, <1>5, <2>1, EffectIs DEF EntrySpan
  <2>3. ASSUME NEW a \in Addresses
        PROVE  unseen[k + 1].mem[a] = IF a \in DOMAIN after THEN after[a] ELSE StartMem[a]
    <3>1. m[a] = IF a \in DOMAIN bytes THEN bytes[a] ELSE StartMem[a]
      BY DEF m
    <3>2. StartMem \in Memories
      BY MemoryAssumption DEF Memories
    <3> QED BY <1>2, <2>2, <3>1, <3>2, ReplayedByte
  <2>4. DecodeWrite(entry).span = EntrySpan(entry) /\ DecodeWrite(entry).value = twice
    BY <1>2, <1>4, <1>6, FreshDecoded, WriteDecoded DEF entry
  <2> QED BY <1>6, <2>3, <2>4 DEF entry
<1>7. CASE DecodeWrite(entry).kind # "write"
  <2>1. entry.inst.op \notin {"store", "swap", "add", "sc"}
    BY <1>2, <1>4, <1>7, FreshDecoded DEF entry
  <2>2. unseen[k + 1].mem = m
    BY <1>2, <1>3, <1>5, <2>1, EffectIs DEF Ops, Trapping
  <2> QED BY <1>7, <2>2 DEF entry, m
<1> QED BY <1>6, <1>7

LEMMA ReplayKeeps == ASSUME IInv, Replay PROVE IInv'
<1> USE DEF IInv
<1>1. /\ pc = "replay" /\ pc' = IF DecodeWrite(trace[idx + 1]) = Unsupported THEN "none" ELSE pc
      /\ written' = IF DecodeWrite(trace[idx + 1]).kind = "write"
                    THEN Stored(written, DecodeWrite(trace[idx + 1]).span,
                                DecodeWrite(trace[idx + 1]).value)
                    ELSE written
      /\ idx < skipped /\ idx' = idx + 1
      /\ UNCHANGED <<start, regs, mem, csr, trace, unseen, skipped, needed>>
  BY DEF Replay
<1>2. /\ skipped \in Nat /\ skipped < Len(trace) /\ idx \in Nat /\ Len(trace) \in Nat
      /\ DOMAIN needed = {} /\ skipped >= 1
  BY <1>1 DEF PhaseInv, TypeInv
<1>3. PICK k \in 1..(Len(trace) - 1) : k = idx + 1
  BY <1>1, <1>2
<1>4. trace[k] \in Entries /\ k \in 1..Len(trace)
  BY <1>2, <1>3, EntryAt
<1>5. TypeInv'
  <2>1. Partial(written')
    BY <1>1, <1>3, <1>4, WrittenType DEF TypeInv
  <2> QED BY <1>1, <2>1 DEF TypeInv, Partial
<1>6. PhaseInv'
  BY <1>1, <1>2 DEF PhaseInv
<1>7. MachineInv'
  BY <1>1, MachineKept
<1>8. ReplayInv'
  <2>1. SUFFICES ASSUME pc' = "replay", Fresh(idx)'
                 PROVE  \A a \in Addresses :
                          unseen'[idx' + 1].mem[a]
                            = IF a \in DOMAIN written' THEN written'[a] ELSE StartMem[a]
    BY DEF ReplayInv
  <2>2. \A j \in 1..k : ~StaleAccess(j)
    BY <1>1, <1>3, <2>1 DEF Fresh, StaleAccess
  <2>3. Fresh(idx) /\ ~StaleAccess(k)
    BY <1>2, <1>3, <2>2 DEF Fresh
  <2>4. \A a \in Addresses :
          unseen[k].mem[a] = IF a \in DOMAIN written THEN written[a] ELSE StartMem[a]
    BY <1>1, <1>3, <2>3 DEF ReplayInv
  <2>5. DecodeWrite(trace[k]) # Unsupported /\ Partial(written)
    BY <1>1, <1>3, <2>1 DEF TypeInv
  <2>6. LET write == DecodeWrite(trace[k])
            after == IF write.kind = "write"
                     THEN Stored(written, write.span, write.value) ELSE written
        IN  \A a \in Addresses :
              unseen[k + 1].mem[a] = IF a \in DOMAIN after THEN after[a] ELSE StartMem[a]
    BY <2>3, <2>4, <2>5, ReplayStep
  <2> QED BY <1>1, <1>3, <2>6
<1> QED BY <1>1, <1>5, <1>6, <1>7, <1>8 DEF ScanInv, RestoreInv, RegsInv, CsrsInv, ResumeInv

LEMMA EndReplayKeeps == ASSUME IInv, EndReplay PROVE IInv'
<1> USE DEF IInv
<1>1. /\ pc = "replay" /\ idx = skipped
      /\ pc' = IF DOMAIN written = {} THEN "restore" ELSE "scan"
      /\ UNCHANGED <<start, regs, mem, csr, trace, unseen, skipped, idx, written, needed>>
  BY DEF EndReplay
<1>2. /\ skipped \in Nat /\ skipped < Len(trace) /\ idx \in Nat /\ Len(trace) \in Nat
      /\ DOMAIN needed = {} /\ skipped >= 1
  BY <1>1 DEF PhaseInv, TypeInv
<1>3. TypeInv' /\ PhaseInv' /\ MachineInv'
  <2>1. TypeInv'
    BY <1>1 DEF TypeInv, Partial
  <2>2. PhaseInv'
    BY <1>1, <1>2 DEF PhaseInv
  <2>3. pc' # "trace"
    BY <1>1
  <2> QED BY <1>1, <2>1, <2>2, <2>3, MachineKept
<1>4. First' = First /\ Fresh(skipped)' = Fresh(skipped)
  BY <1>1 DEF First, Fresh, StaleAccess
<1>5. Fresh(skipped) =>
        \A a \in Addresses :
          unseen[First].mem[a] = IF a \in DOMAIN written THEN written[a] ELSE StartMem[a]
  BY <1>1 DEF ReplayInv, First
<1>6. ScanInv'
  <2>1. \A k \in First..idx : FALSE
    BY <1>1, <1>2 DEF First
  <2>2. \A a \in DOMAIN written : \A k \in First'..idx' :
          a \notin ReadSet(k)' /\ a \notin WriteSet(k)'
    BY <1>1, <1>4, <2>1
  <2>3. DOMAIN needed' = {} /\ written' = written /\ unseen' = unseen
    BY <1>1, <1>2
  <2>4. Fresh(skipped)' =>
          /\ \A a \in DOMAIN written' : written'[a] = unseen'[First'].mem[a]
          /\ \A a \in Addresses \ (DOMAIN written' \cup DOMAIN needed') :
               unseen'[First'].mem[a] = StartMem[a]
    <3>1. DOMAIN written \subseteq Addresses
      BY DEF TypeInv, Partial
    <3> QED BY <1>4, <1>5, <2>3, <3>1
  <2> QED BY <2>2, <2>3, <2>4 DEF ScanInv
<1>7. RestoreInv'
  <2>1. pc' = "restore" => DOMAIN written = {} /\ Restoring' = StartMem
    BY <1>1 DEF Restoring
  <2>2. pc' \notin {"csrs", "store"}
    BY <1>1
  <2> QED BY <1>1, <1>2, <1>4, <1>5, <2>1, <2>2 DEF RestoreInv
<1> QED BY <1>1, <1>3, <1>6, <1>7 DEF ReplayInv, RegsInv, CsrsInv, ResumeInv

(***************************************************************************)
(* Looking for what the suffix reads                                       *)
(***************************************************************************)
LEMMA WithoutIs ==
    ASSUME NEW bytes, NEW addrs
    PROVE  /\ DOMAIN Without(bytes, addrs) = DOMAIN bytes \ addrs
           /\ \A a \in DOMAIN bytes \ addrs : Without(bytes, addrs)[a] = bytes[a]
BY DEF Without

\* A scanned instruction in terms of what it reads and writes.
LEMMA ScanIs ==
    ASSUME Scan, NEW k, k = idx + 1
    PROVE  /\ DOMAIN needed' = DOMAIN needed \cup (DOMAIN written \cap ReadSet(k))
           /\ \A a \in DOMAIN written \cap ReadSet(k) : needed'[a] = written[a]
           /\ \A a \in DOMAIN needed \ ReadSet(k) : needed'[a] = needed[a]
           /\ \A a \in DOMAIN needed \ DOMAIN written : needed'[a] = needed[a]
           /\ DOMAIN written' = DOMAIN written \ (ReadSet(k) \cup WriteSet(k))
           /\ \A a \in DOMAIN written' : written'[a] = written[a]
<1> DEFINE read  == DecodeRead(trace[k])
           write == DecodeWrite(trace[k])
           found == IF read.kind = "read" THEN DOMAIN written \cap SpanSet(read) ELSE {}
<1>1. /\ needed' = [a \in DOMAIN needed \cup found |->
                      IF a \in found THEN written[a] ELSE needed[a]]
      /\ written' = Overwritten(Without(written, found), write)
  BY DEF Scan
<1>2. found = DOMAIN written \cap ReadSet(k)
  BY DEF ReadSet
<1>3. Overwritten(Without(written, found), write)
        = IF write.kind = "write" THEN Without(Without(written, found), SpanSet(write))
          ELSE Without(written, found)
  BY DEF Overwritten
<1>4. write.kind = "write" => WriteSet(k) = SpanSet(write)
  BY DEF WriteSet
<1>5. write.kind # "write" => WriteSet(k) = {}
  BY DEF WriteSet
<1> HIDE DEF found, write
<1>6. /\ DOMAIN Without(written, found) = DOMAIN written \ found
      /\ \A a \in DOMAIN written \ found : Without(written, found)[a] = written[a]
  BY WithoutIs
<1>7. /\ DOMAIN written' = (DOMAIN written \ found) \ WriteSet(k)
      /\ \A a \in DOMAIN written' : written'[a] = written[a]
  <2>1. CASE write.kind = "write"
    <3> DEFINE left == Without(written, found)
    <3>1. written' = Without(left, WriteSet(k))
      BY <1>1, <1>3, <1>4, <2>1
    <3> HIDE DEF left
    <3>2. /\ DOMAIN Without(left, WriteSet(k)) = DOMAIN left \ WriteSet(k)
          /\ \A a \in DOMAIN left \ WriteSet(k) : Without(left, WriteSet(k))[a] = left[a]
      BY WithoutIs
    <3>3. DOMAIN left = DOMAIN written \ found /\ \A a \in DOMAIN left : left[a] = written[a]
      BY <1>6 DEF left
    <3> QED BY <3>1, <3>2, <3>3
  <2>2. CASE write.kind # "write"
    BY <1>1, <1>3, <1>5, <1>6, <2>2
  <2> QED BY <2>1, <2>2
<1> QED BY <1>1, <1>2, <1>7

LEMMA ScanKeeps == ASSUME IInv, Scan PROVE IInv'
<1> USE DEF IInv
<1>1. /\ pc = "scan" /\ pc' \in {"scan", "none"} /\ idx < Len(trace) /\ idx' = idx + 1
      /\ UNCHANGED <<start, regs, mem, csr, trace, unseen, skipped>>
  BY DEF Scan
<1>2. /\ skipped \in Nat /\ skipped < Len(trace) /\ idx \in Nat /\ Len(trace) \in Nat
      /\ skipped >= 1 /\ idx >= skipped
  BY <1>1 DEF PhaseInv, TypeInv
<1>3. PICK k \in 1..Len(trace) : k = idx + 1
  BY <1>1, <1>2
<1>4. /\ DOMAIN needed' = DOMAIN needed \cup (DOMAIN written \cap ReadSet(k))
      /\ \A a \in DOMAIN written \cap ReadSet(k) : needed'[a] = written[a]
      /\ \A a \in DOMAIN needed \ ReadSet(k) : needed'[a] = needed[a]
      /\ \A a \in DOMAIN needed \ DOMAIN written : needed'[a] = needed[a]
      /\ DOMAIN written' = DOMAIN written \ (ReadSet(k) \cup WriteSet(k))
      /\ \A a \in DOMAIN written' : written'[a] = written[a]
  BY <1>3, ScanIs
<1>5. TypeInv'
  <2>1. Partial(written) /\ Partial(needed)
    BY DEF TypeInv
  <2>2. Partial(written')
    BY <1>4, <2>1 DEF Partial
  <2>3. Partial(needed')
    <3>1. \A a \in DOMAIN needed' : \/ a \in DOMAIN written \cap ReadSet(k)
                                    \/ a \in DOMAIN needed \ ReadSet(k)
                                    \/ a \in DOMAIN needed \ DOMAIN written
      BY <1>4
    <3> QED BY <1>4, <2>1, <3>1 DEF Partial
  <2> QED BY <1>1, <2>2, <2>3 DEF TypeInv, Partial
<1>6. PhaseInv'
  BY <1>1, <1>2 DEF PhaseInv
<1>7. MachineInv'
  BY <1>1, MachineKept
<1>8. /\ First' = First /\ First \in Nat /\ First <= k
      /\ Fresh(skipped)' = Fresh(skipped)
      /\ \A j : ReadSet(j)' = ReadSet(j) /\ WriteSet(j)' = WriteSet(j)
      /\ \A a, j : Dead(a, j)' = Dead(a, j)
  BY <1>1, <1>2, <1>3, SamePlan DEF First, Fresh, StaleAccess
<1>9. \A a \in DOMAIN written : \A j \in First..(k - 1) :
        a \notin ReadSet(j) /\ a \notin WriteSet(j)
  BY <1>1, <1>2, <1>3 DEF ScanInv
\* What is found is alive, and what is overwritten unread is dead.
<1>10. ASSUME NEW a \in DOMAIN written, a \in ReadSet(k) PROVE ~Dead(a, First)
  <2>1. k \in First..Len(trace)
    BY <1>2, <1>3, <1>8
  <2> QED BY <1>9, <1>10, <2>1 DEF Dead
<1>11. ASSUME NEW a \in DOMAIN written, a \notin ReadSet(k), a \in WriteSet(k)
       PROVE  Dead(a, First)
  <2> SUFFICES ASSUME NEW j \in First..Len(trace), a \in ReadSet(j)
               PROVE  \E l \in First..(j - 1) : a \in WriteSet(l)
    BY DEF Dead
  <2>1. ~(j \in First..(k - 1)) /\ j # k
    BY <1>9, <1>11
  <2>2. k \in First..(j - 1)
    BY <1>2, <1>3, <1>8, <2>1
  <2> QED BY <1>11, <2>2
<1>12. ScanInv'
  <2>1. \A a \in DOMAIN written' : \A j \in First'..idx' :
          a \notin ReadSet(j)' /\ a \notin WriteSet(j)'
    <3> SUFFICES ASSUME NEW a \in DOMAIN written', NEW j \in First'..idx'
                 PROVE  a \notin ReadSet(j) /\ a \notin WriteSet(j)
      BY <1>8
    <3>1. j \in First..(k - 1) \/ j = k
      BY <1>1, <1>2, <1>3, <1>8
    <3>2. a \in DOMAIN written /\ a \notin ReadSet(k) /\ a \notin WriteSet(k)
      BY <1>4
    <3> QED BY <1>9, <3>1, <3>2
  <2>2. \A a \in DOMAIN needed' : ~Dead(a, First)'
    <3>1. \A a \in DOMAIN needed : ~Dead(a, First)
      BY <1>1 DEF ScanInv
    <3>2. \A a \in DOMAIN needed' : ~Dead(a, First)
      BY <1>4, <1>10, <3>1
    <3> QED BY <1>8, <3>2
  <2>3. ASSUME Fresh(skipped)
        PROVE  /\ \A a \in DOMAIN written' : written'[a] = unseen[First].mem[a]
               /\ \A a \in DOMAIN needed' : needed'[a] = unseen[First].mem[a]
               /\ \A a \in Addresses \ (DOMAIN written' \cup DOMAIN needed') :
                    unseen[First].mem[a] = StartMem[a] \/ Dead(a, First)
    <3>1. /\ \A a \in DOMAIN written : written[a] = unseen[First].mem[a]
          /\ \A a \in DOMAIN needed : needed[a] = unseen[First].mem[a]
          /\ \A a \in Addresses \ (DOMAIN written \cup DOMAIN needed) :
               unseen[First].mem[a] = StartMem[a] \/ Dead(a, First)
      BY <1>1, <2>3 DEF ScanInv
    <3>2. \A a \in DOMAIN needed' : needed'[a] = unseen[First].mem[a]
      <4>1. \A a \in DOMAIN needed' : \/ a \in DOMAIN written \cap ReadSet(k)
                                      \/ a \in DOMAIN needed \ ReadSet(k)
                                      \/ a \in DOMAIN needed \ DOMAIN written
        BY <1>4
      <4> QED BY <1>4, <3>1, <4>1
    <3>3. ASSUME NEW a \in Addresses \ (DOMAIN written' \cup DOMAIN needed')
          PROVE  unseen[First].mem[a] = StartMem[a] \/ Dead(a, First)
      <4>1. CASE a \in DOMAIN written
        <5>1. a \notin ReadSet(k) /\ a \in WriteSet(k)
          BY <1>4, <3>3, <4>1
        <5> QED BY <1>11, <4>1, <5>1
      <4>2. CASE a \notin DOMAIN written
        BY <1>4, <3>1, <3>3, <4>2
      <4> QED BY <4>1, <4>2
    <3> QED BY <1>4, <3>1, <3>2, <3>3
  <2>4. unseen' = unseen /\ First' = First
    BY <1>1, <1>8
  <2>5. Fresh(skipped)' =>
          /\ \A a \in DOMAIN written' : written'[a] = unseen'[First'].mem[a]
          /\ \A a \in DOMAIN needed' : needed'[a] = unseen'[First'].mem[a]
          /\ \A a \in Addresses \ (DOMAIN written' \cup DOMAIN needed') :
               unseen'[First'].mem[a] = StartMem[a] \/ Dead(a, First)'
    BY <1>8, <2>3, <2>4
  <2> QED BY <2>1, <2>2, <2>5 DEF ScanInv
<1> QED BY <1>1, <1>5, <1>6, <1>7, <1>12 DEF ReplayInv, RestoreInv, RegsInv, CsrsInv,
       ResumeInv

LEMMA EndScanKeeps == ASSUME IInv, EndScan PROVE IInv'
<1> USE DEF IInv
<1>1. /\ pc = "scan" /\ pc' = "restore" /\ idx = Len(trace)
      /\ UNCHANGED <<start, regs, mem, csr, trace, unseen, skipped, idx, written, needed>>
  BY DEF EndScan
<1>2. TypeInv' /\ PhaseInv' /\ MachineInv'
  <2>1. TypeInv'
    BY <1>1 DEF TypeInv, Partial
  <2>2. PhaseInv'
    BY <1>1 DEF PhaseInv
  <2> QED BY <1>1, <2>1, <2>2, MachineKept
<1>3. /\ First' = First /\ Fresh(skipped)' = Fresh(skipped) /\ Restoring' = StartMem
      /\ \A a, j : Dead(a, j)' = Dead(a, j)
  BY <1>1, SamePlan DEF First, Fresh, StaleAccess, Restoring
\* The suffix does not read what is left.
<1>4. \A a \in DOMAIN written : Dead(a, First)
  BY <1>1 DEF ScanInv, Dead
<1>5. RestoreInv'
  <2>1. \A a \in DOMAIN needed' : ~Dead(a, First)'
    BY <1>1, <1>3 DEF ScanInv
  <2>2. \A a \in Addresses : Restoring'[a] # StartMem[a] => ~Dead(a, First)'
    BY <1>3
  <2>3. Fresh(skipped)' =>
          /\ \A a \in DOMAIN needed' : needed'[a] = unseen'[First'].mem[a]
          /\ \A a \in Addresses \ DOMAIN needed' :
               Restoring'[a] = unseen'[First'].mem[a] \/ Dead(a, First)'
    BY <1>1, <1>3, <1>4 DEF ScanInv
  <2> QED BY <2>1, <2>2, <2>3 DEF RestoreInv
<1> QED BY <1>1, <1>2, <1>5 DEF ReplayInv, ScanInv, RegsInv, CsrsInv, ResumeInv

(***************************************************************************)
(* Restoring                                                               *)
(***************************************************************************)
LEMMA MinIn == ASSUME NEW S \in SUBSET Nat, S # {} PROVE Min(S) \in S
<1>1. \E x \in S : \A y \in S : x <= y
  BY LeastNatural
<1> QED BY <1>1 DEF Min

LEMMA RegPut ==
    ASSUME NEW r \in RegFiles, NEW k \in Registers \ {0}, NEW v \in Words
    PROVE  /\ [r EXCEPT ![k] = v] \in RegFiles
           /\ \A j \in Registers \ {k} : [r EXCEPT ![k] = v][j] = r[j]
<1>1. 0 \in Registers
  BY RegisterAssumption DEF Registers
<1> QED BY <1>1 DEF RegFiles

LEMMA ScratchesAre ==
    /\ Changed \subseteq Registers \ {0}
    /\ Scratches[1] \in Registers \ {0} /\ Scratches[2] \in Registers \ {0}
<1> DEFINE first  == IF Changed # {} THEN Min(Changed) ELSE 1
           others == Changed \ {first}
           second == IF others # {} THEN Min(others) ELSE IF first = 1 THEN 2 ELSE 1
<1>1. 1 \in Registers \ {0} /\ 2 \in Registers \ {0} /\ Registers \ {0} \subseteq Nat
  BY RegisterAssumption DEF Registers
<1>2. Changed \subseteq Registers \ {0}
  BY DEF Changed
<1>3. Scratches = <<first, second>>
  BY DEF Scratches
<1>4. Changed # {} => Min(Changed) \in Changed
  BY <1>1, <1>2, MinIn
<1>5. others \in SUBSET Nat /\ others \subseteq Changed
  BY <1>1, <1>2
<1> HIDE DEF others
<1>6. others # {} => Min(others) \in others
  BY <1>5, MinIn
<1>7. first \in Registers \ {0}
  BY <1>1, <1>2, <1>4
<1> HIDE DEF first
<1>8. second \in Registers \ {0}
  BY <1>1, <1>2, <1>5, <1>6
<1> HIDE DEF second
<1> QED BY <1>2, <1>3, <1>7, <1>8

\* The target of the restoring code is an entry of the trace, as is its start.
LEMMA TargetFields ==
    ASSUME IInv, pc # "trace"
    PROVE  /\ skipped \in Nat /\ Len(trace) \in Nat /\ First \in 1..Len(trace)
           /\ trace[First].regs \in RegFiles
           /\ Target = trace[First].csr /\ Target \in CsrStates
           /\ start.csr.priv = 3 => MppClear(Target)
           /\ trace[1].regs = start.regs /\ trace[1].csr = start.csr
           /\ start.csr \in CsrStates /\ start.csr.priv \in Modes /\ start.regs \in RegFiles
<1>1. /\ skipped \in Nat /\ Len(trace) \in Nat /\ First \in 1..Len(trace)
      /\ First = skipped + 1 /\ Len(trace) > 0
  BY DEF IInv, PhaseInv, TypeInv, First
<1>2. trace[First] \in Entries
  BY <1>1, EntryAt DEF IInv
<1>3. trace[First].regs \in RegFiles /\ trace[First].csr \in CsrStates
  BY <1>2, EntryFields
<1>4. start.csr.priv = 3 => MppClear(trace[First].csr)
  BY <1>1 DEF IInv, MachineInv
<1>5. Target = trace[First].csr
  BY <1>1 DEF Target
<1>6. trace[1].regs = start.regs /\ trace[1].csr = start.csr
  BY <1>1 DEF IInv, MachineInv
<1> QED BY <1>1, <1>3, <1>4, <1>5, <1>6, StartFields DEF IInv

\* What is not in the plan is at the target as it was at the start.
LEMMA UnchangedReg ==
    ASSUME IInv, pc # "trace", NEW r \in Registers, r \notin Changed
    PROVE  trace[First].regs[r] = start.regs[r]
<1>1. skipped \in Nat /\ First = skipped + 1
  BY TargetFields DEF First
<1>2. CASE r = 0
  BY <1>2, TargetFields, RegFields
<1>3. CASE r # 0
  <2> DEFINE f == [k \in 1..First |-> trace[k].regs[r]]
  <2>1. \A k \in 1..skipped : trace[k].regs[r] = trace[k + 1].regs[r]
    BY <1>3 DEF Changed
  <2>2. \A k \in 1..skipped : f[k] = f[k + 1]
    BY <1>1, <2>1
  <2>3. f[1] = trace[1].regs[r] /\ f[skipped + 1] = trace[First].regs[r]
    BY <1>1
  <2> HIDE DEF f
  <2>4. f[1] = f[skipped + 1]
    BY <1>1, <2>2, Unchanging
  <2> QED BY <2>3, <2>4, TargetFields
<1> QED BY <1>2, <1>3

LEMMA UnchangedCsr ==
    ASSUME IInv, pc # "trace", NEW n \in 1..4, CsrOrder[n] \notin ChangedCsrs
    PROVE  Target[CsrOrder[n]] = start.csr[CsrOrder[n]]
<1> DEFINE c == CsrOrder[n]
           f == [k \in 1..First |-> trace[k].csr[c]]
<1>1. skipped \in Nat /\ First = skipped + 1
  BY TargetFields DEF First
<1>2. \A k \in 1..skipped : trace[k].csr[c] = trace[k + 1].csr[c]
  BY CsrNames DEF ChangedCsrs
<1> HIDE DEF c
<1>3. \A k \in 1..skipped : f[k] = f[k + 1]
  BY <1>1, <1>2
<1>4. f[1] = trace[1].csr[c] /\ f[skipped + 1] = trace[First].csr[c]
  BY <1>1
<1> HIDE DEF f
<1>5. f[1] = f[skipped + 1]
  BY <1>1, <1>3, Unchanging
<1>6. Target[c] = start.csr[c]
  BY <1>4, <1>5, TargetFields
<1> QED BY <1>6 DEF c

LEMMA RestartKeeps ==
    ASSUME IInv, NEW junk \in Junk \cup {start.regs[Scratches[1]]}, Restart(junk)
    PROVE  IInv'
<1> USE DEF IInv
<1>1. /\ pc = "restore" /\ pc' = "csrs" /\ idx' = 1
      /\ regs' = [start.regs EXCEPT ![Scratches[1]] = junk]
      /\ mem' = StartMem /\ csr' = start.csr
      /\ UNCHANGED <<start, trace, unseen, skipped, written, needed>>
  BY DEF Restart
<1>2. /\ start.regs \in RegFiles /\ start.csr \in CsrStates
      /\ Scratches[1] \in Registers \ {0}
  BY StartFields, ScratchesAre
<1>3. junk \in Words
  BY <1>2, RegFields, TraceAssumption
<1>4. TypeInv'
  <2>1. regs' \in RegFiles
    BY <1>1, <1>2, <1>3, RegPut
  <2>2. mem' \in Memories
    BY <1>1, MemoryAssumption DEF Memories
  <2> QED BY <1>1, <1>2, <2>1, <2>2 DEF TypeInv, Partial
<1>5. PhaseInv'
  BY <1>1 DEF PhaseInv
<1>6. MachineInv'
  BY <1>1, MachineKept
<1>7. /\ First' = First /\ Fresh(skipped)' = Fresh(skipped)
      /\ \A a, j : Dead(a, j)' = Dead(a, j)
      /\ Scratches' = Scratches /\ UseMret' = UseMret
      /\ Restoring' = StartMem /\ Restoring = StartMem
  BY <1>1, SamePlan DEF First, Fresh, StaleAccess, Restoring
<1>8. RestoreInv'
  BY <1>1, <1>7 DEF RestoreInv
<1>9. RegsInv'
  BY <1>1, <1>2, <1>7, RegFields DEF RegsInv
<1>10. CsrsInv'
  <2>1. \A k \in 1..4 : ~(k < 1)
    OBVIOUS
  <2> QED BY <1>1, <1>2, <1>7, <2>1 DEF CsrsInv
<1> QED BY <1>1, <1>4, <1>5, <1>6, <1>8, <1>9, <1>10 DEF ReplayInv, ScanInv, ResumeInv

\* A step that leaves the memory and the plan alone.
LEMMA RestoreKept ==
    ASSUME RestoreInv, pc \in {"csrs", "store"}, pc' \in {"csrs", "store"},
           trace' = trace, unseen' = unseen, skipped' = skipped, start' = start,
           mem' = mem, needed' = needed
    PROVE  RestoreInv'
<1>1. /\ First' = First /\ Fresh(skipped)' = Fresh(skipped)
      /\ \A a, j : Dead(a, j)' = Dead(a, j)
      /\ Restoring' = mem /\ Restoring = mem
  BY SamePlan DEF First, Fresh, StaleAccess, Restoring
<1> QED BY <1>1 DEF RestoreInv

LEMMA WriteCsrKeeps == ASSUME IInv, WriteCsr PROVE IInv'
<1> USE DEF IInv
<1> DEFINE c    == CsrOrder[idx]
           puts == Puts(c)
<1>1. /\ pc = "csrs" /\ pc' = pc /\ idx' = idx + 1
      /\ puts => /\ csr' = WriteCsrValue(csr, c, Target[c])
                 /\ regs' = [regs EXCEPT ![Scratches[1]] = Target[c]]
      /\ ~puts => csr' = csr /\ regs' = regs
      /\ UNCHANGED <<start, mem, trace, unseen, skipped, written, needed>>
  BY DEF WriteCsr
<1>2. idx \in 1..4
  BY <1>1, CsrNames DEF WriteCsr, PhaseInv
<1>3. Target \in CsrStates /\ csr \in CsrStates /\ regs \in RegFiles
  BY <1>1, TargetFields DEF TypeInv
<1>4. Target[c] \in Words /\ (c = "mstatus" => WrittenStatus(csr.mstatus, Target[c]) = Target[c])
  <2>1. ASSUME NEW n \in Statuses
        PROVE  n \in Words /\ WrittenStatus(csr.mstatus, n) = n
    BY DEF Words, Statuses, WrittenStatus
  <2>2. /\ Target["mstatus"] \in Statuses
        /\ Target["mepc"] \in Words /\ Target["mscratch"] \in Words
        /\ Target["sscratch"] \in Words
    BY <1>3, CsrFields
  <2>3. c \in {"mstatus", "mepc", "mscratch", "sscratch"}
    BY <1>2, CsrNames
  <2> HIDE DEF c
  <2> QED BY <2>1, <2>2, <2>3
<1>5. puts => /\ csr' \in CsrStates /\ csr'.priv = csr.priv
              /\ csr'.mstatus = IF c = "mstatus" THEN WrittenStatus(csr.mstatus, Target[c])
                            ELSE csr.mstatus
              /\ csr'.mepc = IF c = "mepc" THEN Target[c] ELSE csr.mepc
              /\ csr'.mscratch = IF c = "mscratch" THEN Target[c] ELSE csr.mscratch
              /\ csr'.sscratch = IF c = "sscratch" THEN Target[c] ELSE csr.sscratch
  <2>1. idx \in DOMAIN CsrOrder
    BY <1>2, CsrNames
  <2> QED BY <1>1, <1>3, <1>4, <2>1, WriteCsrType
<1> HIDE DEF puts
<1>6. TypeInv'
  <2>1. regs' \in RegFiles
    BY <1>1, <1>3, <1>4, ScratchesAre, RegPut
  <2>2. csr' \in CsrStates
    BY <1>1, <1>3, <1>5
  <2> QED BY <1>1, <2>1, <2>2 DEF TypeInv, Partial
<1>7. PhaseInv'
  BY <1>1, <1>2 DEF PhaseInv
<1>8. MachineInv'
  BY <1>1, MachineKept
<1>9. RestoreInv'
  BY <1>1, RestoreKept
<1>10. Scratches' = Scratches /\ UseMret' = UseMret /\ Target' = Target /\ MretKeeps' = MretKeeps
  BY <1>1, SamePlan
<1>11. RegsInv'
  <2>1. \A r \in Registers \ {Scratches[1], Scratches[2]} : regs'[r] = regs[r]
    BY <1>1, <1>3, RegFields
  <2> QED BY <1>1, <1>10, <2>1 DEF RegsInv
<1>12. CsrsInv'
  <2> DEFINE want(k, n) ==
        IF k < n /\ ~(UseMret /\ CsrOrder[k] \in {"mstatus", "mepc"})
        THEN Target[CsrOrder[k]] ELSE start.csr[CsrOrder[k]]
  <2>1. csr.priv = start.csr.priv /\ \A k \in 1..4 : csr[CsrOrder[k]] = want(k, idx)
    BY <1>1 DEF CsrsInv
  <2>2. ASSUME NEW k \in 1..4 PROVE csr'[CsrOrder[k]] = want(k, idx + 1)
    <3>1. CASE k # idx
      <4>1. csr'[CsrOrder[k]] = csr[CsrOrder[k]]
        <5>1. CASE ~puts
          BY <1>1, <5>1
        <5>2. CASE puts
          <6>1. CsrOrder[k] # c /\ CsrOrder[k] \in {"mstatus", "mepc", "mscratch", "sscratch"}
            BY <1>2, <3>1, CsrNames
          <6> HIDE DEF c
          <6> QED BY <1>5, <5>2, <6>1
        <5> QED BY <5>1, <5>2
      <4>2. k < idx + 1 <=> k < idx
        BY <1>2, <3>1
      <4> QED BY <2>1, <4>1, <4>2
    <3>2. CASE k = idx
      <4>1. k < idx + 1 /\ ~(k < idx)
        BY <1>2, <3>2
      <4>2. CASE puts
        <5>1. csr'[c] = Target[c]
          <6>1. c \in {"mstatus", "mepc", "mscratch", "sscratch"}
            BY <1>2, CsrNames
          <6> HIDE DEF c
          <6> QED BY <1>4, <1>5, <4>2, <6>1
        <5> QED BY <3>2, <4>1, <4>2, <5>1 DEF puts, Puts
      <4>3. CASE ~puts
        <5>1. csr'[c] = start.csr[c]
          BY <1>1, <2>1, <3>2, <4>1, <4>3
        <5>2. CASE c \notin ChangedCsrs
          <6>1. Target[c] = start.csr[c]
            BY <1>1, <1>2, <5>2, UnchangedCsr
          <6> QED BY <3>2, <5>1, <6>1
        <5>3. CASE c \in ChangedCsrs
          <6>1. UseMret /\ c \in {"mstatus", "mepc"}
            BY <4>3, <5>3 DEF puts, Puts
          <6> QED BY <3>2, <5>1, <6>1
        <5> QED BY <5>2, <5>3
      <4> QED BY <4>2, <4>3
    <3> QED BY <3>1, <3>2
  <2>3. csr'.priv = start.csr.priv
    BY <1>1, <1>5, <2>1
  <2>4. start' = start
    BY <1>1
  <2> QED BY <1>1, <1>10, <2>2, <2>3, <2>4 DEF CsrsInv
<1> QED BY <1>1, <1>6, <1>7, <1>8, <1>9, <1>11, <1>12 DEF ReplayInv, ScanInv, ResumeInv

LEMMA ReturnDownKeeps ==
    ASSUME IInv, NEW continuation \in Junk, ReturnDown(continuation)
    PROVE  IInv'
<1> USE DEF IInv
<1> DEFINE ready == [csr EXCEPT !.mstatus = WithMpp(Target.mstatus, Target.priv),
                                !.mepc = continuation]
<1>1. /\ pc = "csrs" /\ pc' = "store" /\ idx > Len(CsrOrder)
      /\ UseMret => /\ csr.priv = 3 /\ csr' = Mret(ready)
                    /\ regs' = [regs EXCEPT ![Scratches[1]] = continuation]
      /\ ~UseMret => csr' = csr /\ regs' = regs
      /\ UNCHANGED <<start, mem, trace, unseen, skipped, idx, written, needed>>
  BY DEF ReturnDown
<1>2. idx = 5
  BY <1>1, CsrNames DEF PhaseInv
<1>3. /\ Target \in CsrStates /\ csr \in CsrStates /\ regs \in RegFiles
      /\ (start.csr.priv = 3 => MppClear(Target)) /\ trace[1].csr = start.csr
  BY <1>1, TargetFields DEF TypeInv
<1>4. Target.priv \in Modes /\ Target.mstatus \in 0..15
  BY <1>3, CsrFields
<1>5. continuation \in Words
  BY TraceAssumption
<1>6. /\ ready \in CsrStates
      /\ ready.mscratch = csr.mscratch /\ ready.sscratch = csr.sscratch
      /\ ready.mstatus = (Target.mstatus \div 4) * 4 + Target.priv
  <2>1. WithMpp(Target.mstatus, Target.priv) = (Target.mstatus \div 4) * 4 + Target.priv
    BY DEF WithMpp
  <2>2. WithMpp(Target.mstatus, Target.priv) \in Statuses
    BY <1>4, <2>1, StatusNumbers
  <2> QED BY <1>3, <1>5, <2>1, <2>2 DEF CsrStates
<1> HIDE DEF ready
<1>7. TypeInv'
  <2>1. regs' \in RegFiles
    BY <1>1, <1>3, <1>5, ScratchesAre, RegPut
  <2>2. csr' \in CsrStates
    BY <1>1, <1>3, <1>6, MretType
  <2> QED BY <1>1, <2>1, <2>2 DEF TypeInv, Partial
<1>8. PhaseInv'
  BY <1>1 DEF PhaseInv
<1>9. MachineInv'
  BY <1>1, MachineKept
<1>10. RestoreInv'
  BY <1>1, RestoreKept
<1>11. /\ Scratches' = Scratches /\ Target' = Target
       /\ MretKeeps' = MretKeeps /\ ModeInReach' = ModeInReach
  BY <1>1, SamePlan
<1>12. RegsInv'
  <2>1. \A r \in Registers \ {Scratches[1], Scratches[2]} : regs'[r] = regs[r]
    <3>1. /\ [regs EXCEPT ![Scratches[1]] = continuation] \in RegFiles
          /\ \A r \in Registers \ {Scratches[1]} :
               [regs EXCEPT ![Scratches[1]] = continuation][r] = regs[r]
      BY <1>3, <1>5, ScratchesAre, RegPut
    <3> QED BY <1>1, <3>1
  <2> QED BY <1>1, <1>11, <2>1 DEF RegsInv
<1>13. MretKeeps /\ ModeInReach => SameTo(csr', Target)
  <2>1. /\ csr.priv = start.csr.priv
        /\ \A k \in 1..4 : csr[CsrOrder[k]] =
             IF ~(UseMret /\ CsrOrder[k] \in {"mstatus", "mepc"})
             THEN Target[CsrOrder[k]] ELSE start.csr[CsrOrder[k]]
    <3>1. \A k \in 1..4 : k < idx
      BY <1>2
    <3> QED BY <1>1, <3>1 DEF CsrsInv
  <2>2. csr.mscratch = Target.mscratch /\ csr.sscratch = Target.sscratch
    BY <2>1, CsrNames
  <2>3. CASE UseMret
    <3>1. Target.priv \in {0, 1} /\ start.csr.priv = 3
      BY <1>1, <1>4, <2>1, <2>3 DEF UseMret, Modes
    <3>2. SUFFICES ASSUME MretKeeps PROVE SameTo(csr', Target)
      OBVIOUS
    <3>3. Target.mstatus = 12
      <4>1. Target.mstatus \div 4 = 3 /\ Target.mstatus % 4 = 0
        BY <1>3, <2>3, <3>1, <3>2 DEF MretKeeps, MppClear
      <4> QED BY <1>4, <4>1
    <3>4. ready.mstatus = 12 + Target.priv
      BY <1>6, <3>1, <3>3
    <3>5. /\ csr'.priv = Target.priv /\ csr'.mstatus = 12
          /\ csr'.mscratch = csr.mscratch /\ csr'.sscratch = csr.sscratch
      <4>1. \A p \in {0, 1} : (12 + p) % 4 = p /\ 8 + 4 * ((12 + p) \div 8) = 12
        OBVIOUS
      <4>2. ready.mstatus % 4 = Target.priv /\ 8 + 4 * (ready.mstatus \div 8) = 12
        BY <3>1, <3>4, <4>1
      <4> QED BY <1>1, <1>6, <2>3, <4>2, MretType
    <3> QED BY <2>2, <3>1, <3>3, <3>5 DEF SameTo
  <2>4. CASE ~UseMret
    <3>1. ModeInReach => start.csr.priv = Target.priv
      BY <1>3, <1>4, <2>4 DEF UseMret, ModeInReach
    <3>2. csr.mstatus = Target.mstatus /\ csr.mepc = Target.mepc
      BY <2>1, <2>4, CsrNames
    <3> QED BY <1>1, <2>1, <2>2, <2>4, <3>1, <3>2 DEF SameTo
  <2> QED BY <2>3, <2>4
<1>14. CsrsInv'
  BY <1>1, <1>11, <1>13 DEF CsrsInv
<1> QED BY <1>1, <1>7, <1>8, <1>9, <1>10, <1>12, <1>14 DEF ReplayInv, ScanInv, ResumeInv

\* A store of the restoring code covers bytes that are needed, and no others.
LEMMA ChunkIs ==
    ASSUME NEW left \in SUBSET Addresses, NEW addr \in left
    PROVE  /\ ChunkWidth(addr, left) \in Widths
           /\ Covered(Span(addr, ChunkWidth(addr, left))) \subseteq left
<1> DEFINE w == ChunkWidth(addr, left)
<1>1. w \in Widths
  BY DEF ChunkWidth, Widths
<1>2. \A k \in 1..w : addr + k - 1 \in left
  <2>1. CASE w = 4 \/ w = 2
    BY <2>1 DEF ChunkWidth, Joinable
  <2>2. CASE w = 1
    <3>1. \A k \in 1..1 : addr + k - 1 = addr
      BY DEF Addresses
    <3> QED BY <2>2, <3>1
  <2> QED BY <1>1, <2>1, <2>2 DEF Widths
<1> HIDE DEF w
<1>3. \A n \in 0..15 : n % 16 = n
  OBVIOUS
<1>4. \A k \in 1..w : Span(addr, w)[k] \in left
  BY <1>2, <1>3 DEF Span, Addresses
<1>5. DOMAIN Span(addr, w) = 1..w
  BY DEF Span
<1>6. Covered(Span(addr, w)) \subseteq left
  BY <1>4, <1>5 DEF Covered
<1> QED BY <1>1, <1>6 DEF w

LEMMA StoreKeeps == ASSUME IInv, StoreNeeded PROVE IInv'
<1> USE DEF IInv
<1> DEFINE addr  == Min(DOMAIN needed)
           width == ChunkWidth(addr, DOMAIN needed)
           span  == Span(addr, width)
           value == ByteValue(needed, span)
<1>1. /\ pc = "store" /\ pc' = pc /\ DOMAIN needed # {}
      /\ mem' = Stored(mem, span, value)
      /\ regs' = [regs EXCEPT ![Scratches[1]] = addr, ![Scratches[2]] = value]
      /\ needed' = Without(needed, Covered(span))
      /\ UNCHANGED <<start, csr, trace, unseen, skipped, idx, written>>
  BY DEF StoreNeeded, Covered
<1>2. /\ Partial(needed) /\ DOMAIN needed \in SUBSET Addresses
      /\ regs \in RegFiles /\ mem \in Memories
  BY DEF TypeInv, Partial
<1>3. addr \in DOMAIN needed
  <2>1. DOMAIN needed \in SUBSET Nat
    BY <1>2 DEF Addresses
  <2> QED BY <1>1, <2>1, MinIn
<1> HIDE DEF addr
<1>4. width \in Widths /\ Covered(span) \subseteq DOMAIN needed
  BY <1>2, <1>3, ChunkIs
<1> HIDE DEF width
<1>5. addr \in Words /\ addr \in Addresses
  BY <1>2, <1>3 DEF Words, Addresses
<1>6. DOMAIN span = 1..width
  BY <1>4, <1>5, SpanType
<1>7. /\ value \in Words /\ value \in Nat
      /\ \A k \in 1..width : Byte(value, k) = needed[span[k]]
  <2>1. \A k \in 1..width : span[k] \in DOMAIN needed
    BY <1>4, <1>6 DEF Covered
  <2>2. \A k \in 1..width : needed[span[k]] \in Bytes
    BY <1>2, <2>1 DEF Partial
  <2>3. value \in Words /\ \A k \in 1..width : Byte(value, k) = needed[span[k]]
    BY <1>4, <1>5, <2>2, ByteValueIs
  <2> QED BY <2>3 DEF Words
<1>8. mem' \in Memories
  BY <1>1, <1>2, <1>4, <1>5, <1>7, MemoryStored
<1> HIDE DEF span
<1>9. \A k \in DOMAIN span : Byte(value, k) = needed[span[k]]
  BY <1>6, <1>7
<1> HIDE DEF value
<1>10. /\ DOMAIN mem' = DOMAIN mem \cup Covered(span)
       /\ \A a \in Covered(span) : mem'[a] = Byte(value, Place(span, a))
       /\ \A a \in DOMAIN mem \ Covered(span) : mem'[a] = mem[a]
  <2>1. /\ DOMAIN Stored(mem, span, value) = DOMAIN mem \cup Covered(span)
        /\ \A a \in Covered(span) :
             Stored(mem, span, value)[a] = Byte(value, Place(span, a))
        /\ \A a \in DOMAIN mem \ Covered(span) : Stored(mem, span, value)[a] = mem[a]
    BY <1>7, StoredIs
  <2> QED BY <1>1, <2>1
<1>11. \A a \in Covered(span) : mem'[a] = needed[a]
  BY <1>9, <1>10, PlaceIn
<1>12. /\ DOMAIN needed' = DOMAIN needed \ Covered(span)
       /\ \A a \in DOMAIN needed' : needed'[a] = needed[a]
  <2>1. /\ DOMAIN Without(needed, Covered(span)) = DOMAIN needed \ Covered(span)
        /\ \A a \in DOMAIN needed \ Covered(span) :
             Without(needed, Covered(span))[a] = needed[a]
    BY WithoutIs
  <2> QED BY <1>1, <2>1
<1>13. /\ regs' \in RegFiles
       /\ \A r \in Registers \ {Scratches[1], Scratches[2]} : regs'[r] = regs[r]
  <2> DEFINE once == [regs EXCEPT ![Scratches[1]] = addr]
  <2>1. once \in RegFiles /\ \A r \in Registers \ {Scratches[1]} : once[r] = regs[r]
    BY <1>2, <1>5, ScratchesAre, RegPut
  <2>2. regs' = [once EXCEPT ![Scratches[2]] = value]
    BY <1>1
  <2> HIDE DEF once
  <2>3. /\ [once EXCEPT ![Scratches[2]] = value] \in RegFiles
        /\ \A r \in Registers \ {Scratches[2]} :
             [once EXCEPT ![Scratches[2]] = value][r] = once[r]
    BY <1>7, <2>1, ScratchesAre, RegPut
  <2> QED BY <2>1, <2>2, <2>3
<1>14. TypeInv'
  <2>1. Partial(needed')
    BY <1>2, <1>12 DEF Partial
  <2> QED BY <1>1, <1>8, <1>13, <2>1 DEF TypeInv, Partial
<1>15. PhaseInv'
  BY <1>1 DEF PhaseInv
<1>16. MachineInv'
  BY <1>1, MachineKept
<1>17. /\ First' = First /\ Fresh(skipped)' = Fresh(skipped)
       /\ \A a, j : Dead(a, j)' = Dead(a, j)
       /\ Scratches' = Scratches /\ UseMret' = UseMret /\ Target' = Target
       /\ MretKeeps' = MretKeeps /\ ModeInReach' = ModeInReach
       /\ Restoring = mem /\ Restoring' = mem'
  BY <1>1, SamePlan DEF First, Fresh, StaleAccess, Restoring
<1>18. RestoreInv'
  <2>1. DOMAIN mem = Addresses
    BY <1>2 DEF Memories
  <2>2. \A a \in DOMAIN needed : ~Dead(a, First)
    BY <1>1 DEF RestoreInv
  <2>3. \A a \in Addresses : mem'[a] # StartMem[a] => ~Dead(a, First)
    <3>1. \A a \in Addresses : mem[a] # StartMem[a] => ~Dead(a, First)
      BY <1>1, <1>17 DEF RestoreInv
    <3> QED BY <1>4, <1>10, <2>1, <2>2, <3>1
  <2>4. ASSUME Fresh(skipped)
        PROVE  /\ \A a \in DOMAIN needed' : needed'[a] = unseen[First].mem[a]
               /\ \A a \in Addresses \ DOMAIN needed' :
                    mem'[a] = unseen[First].mem[a] \/ Dead(a, First)
    <3>1. /\ \A a \in DOMAIN needed : needed[a] = unseen[First].mem[a]
          /\ \A a \in Addresses \ DOMAIN needed :
               mem[a] = unseen[First].mem[a] \/ Dead(a, First)
      BY <1>1, <1>17, <2>4 DEF RestoreInv
    <3>2. ASSUME NEW a \in Addresses \ DOMAIN needed'
          PROVE  mem'[a] = unseen[First].mem[a] \/ Dead(a, First)
      <4>1. CASE a \in Covered(span)
        BY <1>4, <1>11, <3>1, <4>1
      <4>2. CASE a \notin Covered(span)
        BY <1>10, <1>12, <2>1, <3>1, <3>2, <4>2
      <4> QED BY <4>1, <4>2
    <3> QED BY <1>12, <3>1, <3>2
  <2>5. unseen' = unseen
    BY <1>1
  <2> QED BY <1>12, <1>17, <2>2, <2>3, <2>4, <2>5 DEF RestoreInv
<1>19. RegsInv'
  BY <1>1, <1>13, <1>17 DEF RegsInv
<1>20. CsrsInv'
  BY <1>1, <1>17 DEF CsrsInv
<1> QED BY <1>1, <1>14, <1>15, <1>16, <1>18, <1>19, <1>20 DEF ReplayInv, ScanInv, ResumeInv

LEMMA LoadKeeps == ASSUME IInv, LoadRegisters PROVE IInv'
<1> USE DEF IInv
<1>1. /\ pc = "store" /\ pc' = "resume" /\ idx' = skipped /\ DOMAIN needed = {}
      /\ regs' = [r \in Registers |->
                    IF r \in Loaded THEN trace[First].regs[r] ELSE regs[r]]
      /\ UNCHANGED <<start, mem, csr, trace, unseen, skipped, written, needed>>
  BY DEF LoadRegisters, First
<1>2. /\ trace[First].regs \in RegFiles /\ regs \in RegFiles
      /\ skipped \in Nat /\ First \in 1..Len(trace) /\ Target = trace[First].csr
  BY <1>1, TargetFields DEF TypeInv
<1>3. regs' = trace[First].regs
  <2>1. ASSUME NEW r \in Registers
        PROVE  (IF r \in Loaded THEN trace[First].regs[r] ELSE regs[r])
                 = trace[First].regs[r]
    <3>1. CASE r \notin Loaded
      <4>1. r \notin Changed /\ r \in Registers \ {Scratches[1], Scratches[2]}
        BY <3>1 DEF Loaded
      <4>2. regs[r] = start.regs[r]
        BY <1>1, <4>1 DEF RegsInv
      <4> QED BY <1>1, <3>1, <4>1, <4>2, UnchangedReg
    <3> QED BY <3>1
  <2>2. trace[First].regs = [r \in Registers |-> trace[First].regs[r]]
    BY <1>2 DEF RegFiles
  <2> QED BY <1>1, <2>1, <2>2
<1>4. TypeInv'
  BY <1>1, <1>2, <1>3 DEF TypeInv, Partial
<1>5. PhaseInv'
  BY <1>1 DEF PhaseInv
<1>6. MachineInv'
  BY <1>1, MachineKept
<1>7. /\ First' = First /\ MretKeeps' = MretKeeps /\ ModeInReach' = ModeInReach
      /\ Restoring = mem
      /\ \A a, j : Dead(a, j)' = Dead(a, j)
  BY <1>1, SamePlan DEF Restoring
<1>8. idx' + 1 = First
  BY <1>1 DEF First
<1>9. ResumeInv'
  <2>1. \A a \in Addresses : mem'[a] # StartMem[a] => ~Dead(a, First)'
    BY <1>1, <1>7 DEF RestoreInv
  <2>2. ASSUME Fresh(Len(trace))', MretKeeps', ModeInReach'
        PROVE  /\ regs' = trace'[First].regs
               /\ SameTo(csr', trace'[First].csr)
               /\ \A a \in Addresses :
                    mem'[a] = unseen'[First].mem[a] \/ Dead(a, First)'
    <3>1. \A k \in 1..Len(trace) : ~StaleAccess(k)
      BY <1>1, <2>2 DEF Fresh, StaleAccess
    <3>2. Fresh(skipped)
      BY <1>2, <3>1 DEF Fresh, First
    <3>3. SameTo(csr, Target)
      BY <1>1, <1>7, <2>2 DEF CsrsInv
    <3>4. \A a \in Addresses : mem[a] = unseen[First].mem[a] \/ Dead(a, First)
      BY <1>1, <1>7, <3>2 DEF RestoreInv
    <3> QED BY <1>1, <1>2, <1>3, <1>7, <3>3, <3>4
  <2> QED BY <1>1, <1>7, <1>8, <2>1, <2>2 DEF ResumeInv
<1> QED BY <1>1, <1>4, <1>5, <1>6, <1>9 DEF ReplayInv, ScanInv, RestoreInv, RegsInv, CsrsInv

LEMMA ResumeKeeps == ASSUME IInv, Resume PROVE IInv'
<1> USE DEF IInv
<1>1. /\ pc = "resume" /\ pc' = pc /\ idx < Len(trace) /\ idx' = idx + 1
      /\ LET e == Effect(trace[idx + 1].inst, regs, mem, csr, unseen[idx + 1].success)
         IN  regs' = e.regs /\ mem' = e.mem /\ csr' = e.csr
      /\ UNCHANGED <<start, trace, unseen, skipped, written, needed>>
  BY DEF Resume
<1>2. /\ skipped \in Nat /\ skipped < Len(trace) /\ idx \in Nat /\ Len(trace) \in Nat
      /\ idx >= skipped
  BY <1>1 DEF PhaseInv, TypeInv
<1>3. PICK k \in 1..Len(trace) : k = idx + 1
  BY <1>1, <1>2
<1> DEFINE i == trace[k].inst
           s == unseen[k].success
           m == unseen[k].mem
           e == Effect(i, regs, mem, csr, s)
           f == Effect(i, regs, m, trace[k].csr, s)
<1>4. regs' = e.regs /\ mem' = e.mem /\ csr' = e.csr
  BY <1>1, <1>3
<1>5. /\ trace[k] \in Entries /\ m \in Memories /\ s \in BOOLEAN
      /\ regs \in RegFiles /\ mem \in Memories /\ csr \in CsrStates
  BY EntryAt DEF TypeInv, Ghosts
<1>6. i \in Known /\ trace[k].csr \in CsrStates
  BY <1>5, EntryFields
<1>7. e \in Ends
  BY <1>5, <1>6, EffectType
<1>8. TypeInv'
  <2>1. regs' \in RegFiles /\ mem' \in Memories /\ csr' \in CsrStates
    BY <1>4, <1>7 DEF Ends
  <2> QED BY <1>1, <2>1 DEF TypeInv, Partial
<1>9. PhaseInv'
  BY <1>1, <1>2 DEF PhaseInv
<1>10. MachineInv'
  BY <1>1, MachineKept
<1>11. /\ First' = First
       /\ MretKeeps' = MretKeeps /\ ModeInReach' = ModeInReach
       /\ \A a, j : Dead(a, j)' = Dead(a, j)
  BY <1>1, SamePlan
<1>12. ASSUME Fresh(Len(trace)), MretKeeps, ModeInReach, k < Len(trace)
       PROVE  /\ regs' = trace[k + 1].regs
              /\ SameTo(csr', trace[k + 1].csr)
              /\ \A a \in Addresses : mem'[a] = unseen[k + 1].mem[a] \/ Dead(a, k + 1)
  <2>1. /\ regs = trace[k].regs /\ SameTo(csr, trace[k].csr)
        /\ \A a \in Addresses : mem[a] = m[a] \/ Dead(a, k)
    BY <1>1, <1>3, <1>12 DEF ResumeInv
  <2>2. Allowed(i, trace[k].csr.priv)
    BY DEF MachineInv
  <2>3. Covered(EntrySpan(trace[k])) = Covered(Span(regs[i.rs1], i.width))
    BY <2>1 DEF EntrySpan
\* What the instruction reads is alive, and so it is as it was.
  <2>4. i.op \in {"load", "swap", "add", "lr"} =>
          \A a \in Covered(Span(regs[i.rs1], i.width)) : mem[a] = m[a]
    <3> SUFFICES ASSUME i.op \in {"load", "swap", "add", "lr"},
                        NEW a \in Covered(Span(regs[i.rs1], i.width))
                 PROVE  mem[a] = m[a]
      OBVIOUS
    <3>1. a \in ReadSet(k)
      <4>1. DecodeRead(trace[k]).kind = "read"
            /\ DecodeRead(trace[k]).span = EntrySpan(trace[k])
        BY ReadDecoded
      <4> QED BY <2>3, <4>1 DEF ReadSet, SpanSet, Covered
    <3>2. ~Dead(a, k)
      <4>1. k \in k..Len(trace) /\ \A l \in k..(k - 1) : FALSE
        BY <1>2
      <4> QED BY <3>1, <4>1 DEF Dead
    <3>3. a \in Addresses
      BY <1>5, <2>1, EntryFields, SpanType
    <3> QED BY <2>1, <3>2, <3>3
  <2>5. /\ e.regs = f.regs /\ SameTo(e.csr, f.csr)
        /\ \A a \in Addresses : mem[a] = m[a] => e.mem[a] = f.mem[a]
        /\ i.op \in {"store", "swap"} =>
             \A a \in Covered(Span(regs[i.rs1], i.width)) : e.mem[a] = f.mem[a]
    <3> HIDE DEF i, m, s
    <3> QED BY <1>5, <1>6, <2>1, <2>2, <2>4, EffectRepeats DEF i
  <2>6. /\ f.regs = trace[k + 1].regs /\ f.mem = unseen[k + 1].mem
        /\ f.csr = trace[k + 1].csr
    <3>1. k \in 1..(Len(trace) - 1)
      BY <1>2, <1>12
    <3>2. After(k) = f
      BY <2>1 DEF After
    <3> QED BY <3>1, <3>2 DEF MachineInv
  <2>7. ASSUME NEW a \in Addresses
        PROVE  mem'[a] = unseen[k + 1].mem[a] \/ Dead(a, k + 1)
    <3>1. CASE mem[a] = m[a]
      BY <1>4, <2>5, <2>6, <3>1
    <3>2. CASE Dead(a, k) /\ a \in WriteSet(k)
      <4>1. DecodeWrite(trace[k]).kind = "write" /\ a \in SpanSet(DecodeWrite(trace[k]))
        BY <3>2 DEF WriteSet
      <4>2. ~Stale(trace[k]) /\ DecodeWrite(trace[k]) # Unsupported
        BY <1>12, <4>1, OtherKinds DEF Fresh, StaleAccess, Stale
      <4>3. i.op \in {"store", "swap"}
        BY <1>5, <4>1, <4>2, FreshDecoded
      <4>4. a \in Covered(Span(regs[i.rs1], i.width))
        <5>1. DecodeWrite(trace[k]).span = EntrySpan(trace[k])
          BY <1>5, <4>1, WriteDecoded
        <5> QED BY <2>3, <4>1, <5>1 DEF SpanSet, Covered
      <4> QED BY <1>4, <2>5, <2>6, <4>3, <4>4
    <3>3. CASE Dead(a, k) /\ a \notin WriteSet(k)
      <4> SUFFICES ASSUME NEW j \in (k + 1)..Len(trace), a \in ReadSet(j)
                   PROVE  \E l \in (k + 1)..(j - 1) : a \in WriteSet(l)
        BY DEF Dead
      <4>1. j \in k..Len(trace)
        BY <1>2
      <4>2. PICK l \in k..(j - 1) : a \in WriteSet(l)
        BY <3>3, <4>1 DEF Dead
      <4>3. l # k
        BY <3>3, <4>2
      <4>4. l \in (k + 1)..(j - 1)
        BY <4>2, <4>3
      <4> QED BY <4>2, <4>4
    <3> QED BY <2>1, <3>1, <3>2, <3>3
  <2> QED BY <1>4, <2>5, <2>6, <2>7
<1>13. ResumeInv'
  <2>1. idx' # skipped' /\ idx' = k
    BY <1>1, <1>2, <1>3
  <2>2. ASSUME Fresh(Len(trace))', MretKeeps', ModeInReach', idx' < Len(trace')
        PROVE  /\ regs' = trace'[idx' + 1].regs
               /\ SameTo(csr', trace'[idx' + 1].csr)
               /\ \A a \in Addresses :
                    mem'[a] = unseen'[idx' + 1].mem[a] \/ Dead(a, k + 1)'
    <3>1. Fresh(Len(trace))
      BY <1>1, <2>2 DEF Fresh, StaleAccess
    <3>2. MretKeeps /\ ModeInReach /\ k < Len(trace)
      BY <1>1, <1>3, <1>11, <2>2
    <3> QED BY <1>1, <1>11, <1>12, <2>1, <3>1, <3>2
  <2> QED BY <1>1, <2>1, <2>2 DEF ResumeInv, Dead
<1> QED BY <1>1, <1>8, <1>9, <1>10, <1>13 DEF ReplayInv, ScanInv, RestoreInv, RegsInv, CsrsInv

\* A candidate for which no restoring code can be built.
LEMMA NotBuiltKeeps == ASSUME IInv, NotBuilt PROVE IInv'
<1> USE DEF IInv
<1>1. /\ pc = "restore" /\ pc' = "none"
      /\ UNCHANGED <<start, regs, mem, csr, trace, unseen, skipped, idx, written, needed>>
  BY DEF NotBuilt
<1>2. TypeInv'
  BY <1>1 DEF TypeInv, Partial
<1>3. PhaseInv'
  BY <1>1 DEF PhaseInv
<1>4. MachineInv'
  BY <1>1, MachineKept
<1> QED BY <1>1, <1>2, <1>3, <1>4 DEF ReplayInv, ScanInv, RestoreInv, RegsInv, CsrsInv,
       ResumeInv

\* The restoring code of a program entered in machine mode may do all it does,
\* and its suffix what it did.
LEMMA LostKeeps == ASSUME IInv, Lost PROVE IInv'
<1> USE DEF IInv
<1>1. /\ pc \in {"csrs", "resume"} /\ pc' = "lost"
      /\ UNCHANGED <<start, regs, mem, csr, trace, unseen, skipped, idx, written, needed>>
  BY DEF Lost
<1>2. TypeInv'
  BY <1>1 DEF TypeInv, Partial
<1>3. PhaseInv'
  BY <1>1 DEF PhaseInv
<1>4. MachineInv'
  BY <1>1, MachineKept
<1>5. ASSUME pc = "csrs" PROVE ResumeInv'
  <2>1. csr.priv = start.csr.priv
    BY <1>5 DEF CsrsInv
  <2>2. csr.priv < CsrMode(CsrOrder[idx]) \/ csr.priv < 3
    BY <1>5 DEF Lost
  <2>3. CsrMode(CsrOrder[idx]) \in {1, 3}
    BY DEF CsrMode
  <2>4. start.csr.priv # 3
    BY <2>1, <2>2, <2>3
  <2> QED BY <1>1, <2>4 DEF ResumeInv
<1>6. ASSUME pc = "resume" PROVE ResumeInv'
  <2>1. idx < Len(trace) /\ ~Allowed(trace[idx + 1].inst, csr.priv)
    BY <1>6, LegalIs DEF Lost
  <2>2. idx + 1 \in 1..Len(trace)
    BY <1>6, <2>1 DEF PhaseInv, TypeInv
  <2>3. ASSUME Fresh(Len(trace)), MretKeeps, ModeInReach
        PROVE  FALSE
    <3>1. csr.priv = trace[idx + 1].csr.priv
      BY <1>6, <2>1, <2>3 DEF ResumeInv, SameTo
    <3>2. Allowed(trace[idx + 1].inst, trace[idx + 1].csr.priv)
      BY <2>2 DEF MachineInv
    <3> QED BY <2>1, <3>1, <3>2
  <2>4. /\ MretKeeps' = MretKeeps /\ ModeInReach' = ModeInReach
        /\ Fresh(Len(trace))' = Fresh(Len(trace))
    <3>1. Fresh(Len(trace))' = Fresh(Len(trace))
      BY <1>1 DEF Fresh, StaleAccess
    <3> QED BY <1>1, <3>1, SamePlan
  <2> QED BY <1>1, <2>3, <2>4 DEF ResumeInv
<1>7. ResumeInv'
  BY <1>1, <1>5, <1>6
<1> QED BY <1>1, <1>2, <1>3, <1>4, <1>7 DEF ReplayInv, ScanInv, RestoreInv, RegsInv, CsrsInv

LEMMA StutterKeeps == ASSUME IInv, UNCHANGED vars PROVE IInv'
<1>1. UNCHANGED <<pc, start, regs, mem, csr, trace, unseen, skipped, idx, written, needed>>
  BY DEF vars
<1>2. /\ First' = First /\ Target' = Target /\ Scratches' = Scratches
      /\ UseMret' = UseMret /\ MretKeeps' = MretKeeps /\ Restoring' = Restoring
      /\ ModeInReach' = ModeInReach
      /\ \A n : Fresh(n)' = Fresh(n)
      /\ \A k : ReadSet(k)' = ReadSet(k) /\ WriteSet(k)' = WriteSet(k)
      /\ \A a, j : Dead(a, j)' = Dead(a, j)
      /\ \A k : After(k)' = After(k)
  BY <1>1, SamePlan DEF Restoring
<1>3. TypeInv' /\ PhaseInv' /\ MachineInv'
  BY <1>1, <1>2 DEF IInv, TypeInv, PhaseInv, MachineInv, Partial
<1>4. ReplayInv' /\ ScanInv' /\ RestoreInv'
  BY <1>1, <1>2 DEF IInv, ReplayInv, ScanInv, RestoreInv
<1>5. RegsInv' /\ CsrsInv' /\ ResumeInv'
  BY <1>1, <1>2 DEF IInv, RegsInv, CsrsInv, ResumeInv
<1> QED BY <1>3, <1>4, <1>5 DEF IInv

LEMMA NextKeeps == IInv /\ [Next]_vars => IInv'
<1> SUFFICES ASSUME IInv, [Next]_vars PROVE IInv'
  OBVIOUS
<1>1. CASE Finished \/ UNCHANGED vars
  BY <1>1, StutterKeeps DEF Finished
<1>2. ASSUME NEW i \in start.program, Execute(i) PROVE IInv'
  BY <1>2, ExecuteKeeps
<1>3. ASSUME NEW n \in 1..MaxTrace - 1, Skip(n) PROVE IInv'
  BY <1>3, SkipKeeps
<1>4. CASE Replay \/ EndReplay \/ Scan \/ EndScan
  BY <1>4, ReplayKeeps, EndReplayKeeps, ScanKeeps, EndScanKeeps
<1>5. ASSUME NEW junk \in Junk \cup {start.regs[Scratches[1]]}, Restart(junk) PROVE IInv'
  BY <1>5, RestartKeeps
<1>6. CASE WriteCsr \/ StoreNeeded \/ LoadRegisters \/ Resume
  BY <1>6, WriteCsrKeeps, StoreKeeps, LoadKeeps, ResumeKeeps
<1>8. CASE NotBuilt \/ Lost
  BY <1>8, NotBuiltKeeps, LostKeeps
<1>7. ASSUME NEW continuation \in Junk, ReturnDown(continuation) PROVE IInv'
  BY <1>7, ReturnDownKeeps
<1> QED BY <1>1, <1>2, <1>3, <1>4, <1>5, <1>6, <1>7, <1>8 DEF Next

\* The inductive invariant: the trace is a run of the machine, and what each
\* phase of the reducer has done so far agrees with it.
THEOREM RestoreInvariant == Spec => []IInv
BY InitInv, NextKeeps, PTL DEF Spec

(***************************************************************************)
(* What the context restore promises                                       *)
(***************************************************************************)
\* The stores of the prefix that collect_memory_bytes replays from the trace
\* give the memory of the traced run, instruction for instruction.
THEOREM MemoryReconstructed == Spec => []ReplayedIsTraced
<1>1. IInv => ReplayedIsTraced
  BY DEF IInv, ReplayInv, ReplayedIsTraced, Fresh
<1> QED BY <1>1, RestoreInvariant, PTL

LEMMA RepeatableMeans ==
    ASSUME IInv, Repeatable
    PROVE  /\ Comparable => /\ regs = trace[idx + 1].regs
                            /\ SameTo(csr, trace[idx + 1].csr)
           /\ pc = "lost" => start.csr.priv < 3
<1>1. Fresh(Len(trace)) /\ MretKeeps /\ ModeInReach
  BY DEF Repeatable, Fresh, IInv, TypeInv
<1>2. start.csr.priv \in Modes
  BY StartFields DEF IInv
<1> QED BY <1>1, <1>2 DEF Comparable, IInv, ResumeInv, Modes

\* Every instruction of the suffix finds in every register what it found in
\* the traced run, whatever registers the restoring code has used and however
\* little of the memory it has restored.
THEOREM SuffixFindsRegisters == Spec => []SuffixRepeats
<1>1. IInv => SuffixRepeats
  BY RepeatableMeans DEF SuffixRepeats, Comparable
<1> QED BY <1>1, RestoreInvariant, PTL

\* It runs in the mode it was traced in and with the CSRs that mode can tell,
\* also if the restoring code has left machine mode by mret, and a program
\* entered in machine mode never meets an instruction its mode must not run.
THEOREM SuffixFindsPrivilege == Spec => []PrivilegeRepeats
<1>1. IInv => PrivilegeRepeats
  BY RepeatableMeans DEF PrivilegeRepeats, Comparable, SameTo
<1> QED BY <1>1, RestoreInvariant, PTL

\* A byte that differs from the initial memory when the suffix begins is read
\* by it before it is overwritten: nothing is restored in vain.
THEOREM OnlyReadBytesRestored == Spec => []RestoredIsRead
<1>1. ASSUME IInv, pc = "resume", idx = skipped, NEW a \in Addresses,
             mem[a] # StartMem[a]
      PROVE  \E k \in skipped + 1..Len(trace) :
               /\ DecodeRead(trace[k]).kind = "read"
               /\ a \in SpanSet(DecodeRead(trace[k]))
               /\ \A l \in skipped + 1..k - 1 :
                     DecodeWrite(trace[l]).kind = "write" =>
                         a \notin SpanSet(DecodeWrite(trace[l]))
  <2>1. ~Dead(a, skipped + 1)
    BY <1>1 DEF IInv, ResumeInv, First
  <2>2. PICK k \in (skipped + 1)..Len(trace) :
          a \in ReadSet(k) /\ \A l \in (skipped + 1)..(k - 1) : a \notin WriteSet(l)
    BY <2>1 DEF Dead
  <2>3. /\ DecodeRead(trace[k]).kind = "read"
        /\ a \in SpanSet(DecodeRead(trace[k]))
    BY <2>2 DEF ReadSet
  <2>4. \A l \in (skipped + 1)..(k - 1) :
          DecodeWrite(trace[l]).kind = "write" => a \notin SpanSet(DecodeWrite(trace[l]))
    BY <2>2 DEF WriteSet
  <2> QED BY <2>2, <2>3, <2>4
<1>2. IInv => RestoredIsRead
  BY <1>1 DEF RestoredIsRead
<1> QED BY <1>2, RestoreInvariant, PTL
=============================================================================
