----------------------------- MODULE CodeSegment -----------------------------
(***************************************************************************)
(* Placing the context-restore code of a prefix-reduced ELF:               *)
(* ELFParser::find_insert_vaddr and insert_code_segment (src/elf.rs),      *)
(* called by try_strip_prefix_at (src/reduce/strip_prefix.rs), which       *)
(* reassembles the code until its size and its address agree.              *)
(*                                                                         *)
(* Addresses are numbers up to Top, where checked_add of the code's u64    *)
(* fails.                                                                  *)
(***************************************************************************)
EXTENDS Integers, FiniteSets, Sequences

CONSTANTS
    Top,         \* the largest address, u64::MAX
    Align,       \* CODE_SEGMENT_ALIGN
    Page,        \* the page size LIEF reports
    Layouts,     \* the LOAD segments of the ELFs considered, sorted by address
    Relocations, \* LOAD segments that relocating the header table may add
    Estimates,   \* candidate_pc.abs_diff(entry_pc)
    CodeSizes,   \* address -> bytes of context-restore code assembled for it
    MaxRounds    \* attempts to make address and size agree

Addresses == 0..Top
Segments  == [start : Addresses, size : Nat]

End(s) == s.start + s.size

Sorted(layout) ==
    \A i, j \in DOMAIN layout : i < j => layout[i].start <= layout[j].start

ASSUME AddressAssumption == Top \in Nat
ASSUME AlignAssumption == Align \in Nat \ {0} /\ Page \in Nat \ {0}
ASSUME LayoutAssumption ==
    /\ Layouts \subseteq Seq(Segments)
    /\ \A layout \in Layouts : Sorted(layout)
ASSUME RelocationAssumption == Relocations \subseteq Segments
ASSUME SizeAssumption ==
    /\ Estimates \subseteq Nat
    /\ CodeSizes \subseteq [Addresses -> Nat \ {0}]
ASSUME RoundAssumption == MaxRounds \in Nat

VARIABLES
    pc,         \* where try_strip_prefix_at stands
    segs,       \* the LOAD segments of the working ELF
    codeSize,   \* what the assembler would produce for each address
    wanted,     \* the size the current search has to place
    scanned,    \* segments the search has left behind
    cursor,     \* the end of what they occupy
    contextPc,  \* the address the code is assembled for
    assembled,  \* address and bytes of the code assembled last
    rounds,     \* attempts made
    inserted    \* the segment added to the ELF

vars == <<pc, segs, codeSize, wanted, scanned, cursor, contextPc, assembled,
          rounds, inserted>>

Nowhere == [start |-> 0, size |-> 0]

\* align_up, without its overflow check.
AlignUp(value, align) ==
    IF value % align = 0 THEN value ELSE value + (align - (value % align))

Init ==
    /\ pc = "estimate"
    /\ segs \in Layouts
    /\ codeSize \in CodeSizes
    /\ wanted = 0
    /\ scanned = 0
    /\ cursor = 0
    /\ contextPc = 0
    /\ assembled = Nowhere
    /\ rounds = 0
    /\ inserted = Nowhere

(***************************************************************************)
(* find_insert_vaddr                                                       *)
(***************************************************************************)
\* Start a search for size bytes, rounded up to whole pages.  An empty
\* request, an overflow, and a first segment that ends beyond Top are errors;
\* without any LOAD segment the answer is address 0.
StartSearch(size) ==
    /\ wanted' = AlignUp(size, Page)
    /\ scanned' = IF segs = <<>> THEN 0 ELSE 1
    /\ cursor' = IF segs = <<>> THEN 0 ELSE End(segs[1])
    /\ pc' = IF \/ size = 0
                \/ AlignUp(size, Page) > Top
                \/ segs # <<>> /\ End(segs[1]) > Top
             THEN "none" ELSE "search"

\* Faulty: only the last segment scanned counts as occupied.
CursorAfterLast(s) == End(s)

\* Segments may overlap: the cursor never moves back.
CursorAfter(s) == IF cursor < End(s) THEN End(s) ELSE cursor

Candidate == AlignUp(cursor, Align)

\* Faulty: a gap of exactly the right size is passed over.
FitsLoosely(s) == Candidate + wanted < s.start

FitsBefore(s) == Candidate + wanted <= s.start

\* The next segment leaves no room before it.
SkipSegment ==
    /\ pc = "search"
    /\ scanned < Len(segs)
    /\ LET s == segs[scanned + 1]
       IN  /\ ~FitsBefore(s)
           /\ cursor' = CursorAfter(s)
           /\ pc' = IF End(s) > Top \/ Candidate + wanted > Top THEN "none" ELSE "search"
    /\ scanned' = scanned + 1
    /\ UNCHANGED <<segs, codeSize, wanted, contextPc, assembled, rounds, inserted>>

\* The gap before the next segment, or the space after all of them.  The
\* space at the end is not checked against Top here.
FoundGap ==
    IF scanned = Len(segs) THEN Candidate <= Top
    ELSE /\ FitsBefore(segs[scanned + 1])
         /\ End(segs[scanned + 1]) <= Top

FoundNone == scanned = Len(segs) /\ Candidate > Top

\* The segment after the gap runs past Top, which is noticed first.
FoundBroken ==
    /\ scanned < Len(segs)
    /\ FitsBefore(segs[scanned + 1])
    /\ End(segs[scanned + 1]) > Top

(***************************************************************************)
(* try_strip_prefix_at                                                     *)
(***************************************************************************)
\* The first placement is for an estimate of the code's size.
Estimate(size) ==
    /\ pc = "estimate"
    /\ StartSearch(size)
    /\ UNCHANGED <<segs, codeSize, contextPc, assembled, rounds, inserted>>

\* Faulty: any answer ends the loop, the code is not assembled again.
AgreesAlways == rounds > 0

\* The code assembled for contextPc is placed at contextPc again.
Agrees == rounds > 0 /\ Candidate = contextPc

RoundsUsedUp == rounds = MaxRounds

Place ==
    /\ pc = "search"
    /\ FoundGap
    /\ contextPc' = Candidate
    /\ pc' = IF Agrees THEN "insert"
             ELSE IF RoundsUsedUp THEN "none" ELSE "assemble"
    /\ UNCHANGED <<segs, codeSize, wanted, scanned, cursor, assembled, rounds,
                   inserted>>

NoPlace ==
    /\ pc = "search"
    /\ FoundNone \/ FoundBroken
    /\ pc' = "none"
    /\ UNCHANGED <<segs, codeSize, wanted, scanned, cursor, contextPc,
                   assembled, rounds, inserted>>

Assemble ==
    /\ pc = "assemble"
    /\ assembled' = [start |-> contextPc, size |-> codeSize[contextPc]]
    /\ rounds' = rounds + 1
    /\ StartSearch(codeSize[contextPc])
    /\ UNCHANGED <<segs, codeSize, contextPc, inserted>>

\* The entry jump cannot be encoded or patched, or the code cannot be
\* assembled for this address.
GiveUp ==
    /\ pc \in {"assemble", "insert"}
    /\ pc' = "none"
    /\ UNCHANGED <<segs, codeSize, wanted, scanned, cursor, contextPc,
                   assembled, rounds, inserted>>

(***************************************************************************)
(* insert_code_segment                                                     *)
(***************************************************************************)
\* vaddr_range_overlaps_load_segment
Overlaps(s, t) == s.start < End(t) /\ t.start < End(s)

\* The header table is relocated once more, which may add a LOAD segment,
\* before the range is checked against all segments.
Insert(moved) ==
    LET mapped == [start |-> contextPc, size |-> AlignUp(assembled.size, Page)]
        loaded == segs \o moved
    IN  /\ pc = "insert"
        /\ IF \/ contextPc % Align # 0
              \/ End(mapped) > Top
              \/ \E i \in DOMAIN loaded :
                    End(loaded[i]) > Top \/ Overlaps(mapped, loaded[i])
           THEN pc' = "none" /\ UNCHANGED <<segs, inserted>>
           ELSE pc' = "inserted" /\ segs' = loaded /\ inserted' = mapped
        /\ UNCHANGED <<codeSize, wanted, scanned, cursor, contextPc, assembled,
                       rounds>>

Finished == pc \in {"inserted", "none"} /\ UNCHANGED vars

Next ==
    \/ \E size \in Estimates : Estimate(size)
    \/ SkipSegment
    \/ Place
    \/ NoPlace
    \/ Assemble
    \/ GiveUp
    \/ Insert(<<>>)
    \/ \E s \in Relocations : Insert(<<s>>)
    \/ Finished

Spec == Init /\ [][Next]_vars

(***************************************************************************)
(* Properties                                                              *)
(***************************************************************************)
\* Every variable keeps its shape; a search never scans beyond the segments.
TypeOK ==
    /\ pc \in {"estimate", "search", "assemble", "insert", "inserted", "none"}
    /\ segs \in Seq(Segments)
    /\ codeSize \in CodeSizes
    /\ wanted \in Nat
    /\ scanned \in 0..Len(segs)
    /\ cursor \in Nat
    /\ contextPc \in Addresses
    /\ assembled \in Segments
    /\ rounds \in 0..MaxRounds
    /\ inserted \in Segments

\* No LOAD segment reaches into size bytes from address a.
Free(a, size) ==
    \A i \in DOMAIN segs : End(segs[i]) <= a \/ a + size <= segs[i].start

\* The address that find_insert_vaddr answers with is aligned and leaves
\* every LOAD segment alone, in whatever way those overlap one another.
PlaceIsFree ==
    (pc = "search" /\ FoundGap) => Free(Candidate, wanted) /\ Candidate % Align = 0

\* It is the first such address after the first segment.
PlaceIsFirst ==
    (pc = "search" /\ FoundGap /\ segs # <<>>) =>
        \A a \in Addresses :
            (a % Align = 0 /\ End(segs[1]) <= a /\ Free(a, wanted)) => Candidate <= a

\* Code that gets inserted was assembled for the very address it is inserted
\* at, its pages hold all of it, and they reach into no other LOAD segment.
InsertedInPlace ==
    pc = "inserted" =>
        /\ inserted.start = assembled.start
        /\ assembled.size = codeSize[inserted.start]
        /\ assembled.size <= inserted.size
        /\ Free(inserted.start, inserted.size)
=============================================================================
