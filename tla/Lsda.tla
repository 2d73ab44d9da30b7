-------------------------------- MODULE Lsda --------------------------------
(***************************************************************************)
(* How the personality routine reads a function's language specific data   *)
(* area (lrt-unwind.c, handleLsda): a header, then a table of call sites,  *)
(* each with the range of code it is about, its landing pad and the first  *)
(* of its actions.  The area is a sequence of bytes and a pointer into it  *)
(* an index; reading at p gives the value and the pointer behind it.       *)
(*                                                                         *)
(* The second half is the assembler's side: the bytes that LLVM writes for *)
(* a list of call sites.                                                   *)
(***************************************************************************)
EXTENDS Integers, SequencesExt

DW_EH_PE_absptr  == 0
DW_EH_PE_uleb128 == 1
DW_EH_PE_sleb128 == 9
DW_EH_PE_omit    == 255

\* The bytes of the formats of fixed width.  A signed format differs from the
\* unsigned one in negative numbers only, and an offset into a function is not
\* negative.
Width(format) ==
    CASE format \in {0, 4, 12} -> 8
      [] format \in {3, 11}    -> 4
      [] format \in {2, 10}    -> 2

\* Encodings of a number that is not relative to anything and does not make
\* readEncodedPointer call abort().
Supported == {0, 1, 2, 3, 4, 9, 10, 11, 12}

-----------------------------------------------------------------------------
(* Reading *)

\* The number with the digits d[p], d[p + 1], ..., the lowest first.
Number(d, base, p, end) ==
    LET from[k \in p..end] == IF k = end THEN 0 ELSE d[k] + base * from[k + 1]
    IN  from[p]

\* Mutant: every byte is put at the same place.
readULEB128_NoShift(b, p) ==
    LET last == CHOOSE k \in p..Len(b) : b[k] < 128 /\ \A j \in p..(k-1) : b[j] >= 128
    IN  [value |-> b[p] % 128, next |-> last + 1]

\* Seven bits a byte, the lowest first, up to a byte below 0x80.
readULEB128(b, p) ==
    LET last == CHOOSE k \in p..Len(b) : b[k] < 128 /\ \A j \in p..(k-1) : b[j] >= 128
        bits == [k \in p..last |-> b[k] % 128]
    IN  [value |-> Number(bits, 128, p, last + 1), next |-> last + 1]

readSLEB128(b, p) ==
    LET signed(u) == IF b[u.next - 1] < 64 THEN u
                     ELSE [u EXCEPT !.value = @ - 128 ^ (u.next - p)]
    IN  signed(readULEB128(b, p))

\* Mutant: only the first byte of a number of fixed width counts.
readEncodedPointer_FirstByte(b, p, encoding) ==
    LET format == encoding % 16
    IN  IF encoding = DW_EH_PE_omit THEN [value |-> 0, next |-> p]
        ELSE IF format = DW_EH_PE_uleb128 THEN readULEB128(b, p)
        ELSE IF format = DW_EH_PE_sleb128 THEN readSLEB128(b, p)
        ELSE [value |-> b[p], next |-> p + Width(format)]

readEncodedPointer(b, p, encoding) ==
    LET format == encoding % 16
        end    == p + Width(format)
        fixed  == [value |-> Number(b, 256, p, end), next |-> end]
    IN  IF encoding = DW_EH_PE_omit THEN [value |-> 0, next |-> p]
        ELSE IF format = DW_EH_PE_uleb128 THEN readULEB128(b, p)
        ELSE IF format = DW_EH_PE_sleb128 THEN readSLEB128(b, p)
        ELSE fixed

\* The landing pads' base and the type table are passed over.
Header(b) ==
    LET afterBase     == IF b[1] = DW_EH_PE_omit THEN 2
                         ELSE readEncodedPointer(b, 2, b[1]).next
        afterTypes(p) == IF b[p] = DW_EH_PE_omit THEN p + 1
                         ELSE readULEB128(b, p + 1).next
        sites(p, length) == [encoding |-> b[p], start |-> length.next,
                             end |-> length.next + length.value]
        table(p)      == sites(p, readULEB128(b, p + 1))
    IN  table(afterTypes(afterBase))

\* Four numbers in a row; what the actions are is not looked at.
CallSite(b, p, encoding) ==
    LET start  == readEncodedPointer(b, p, encoding)
        length == readEncodedPointer(b, start.next, encoding)
        pad    == readEncodedPointer(b, length.next, encoding)
        action == readULEB128(b, pad.next)
    IN  [start |-> start.value, length |-> length.value, landingPad |-> pad.value,
         next |-> action.next]

\* Mutant: the last byte of a call site is not in its range.
Covers_ShortRange(s, pcOffset) ==
    s.landingPad # 0 /\ s.start <= pcOffset /\ pcOffset < s.start + s.length - 1

\* Entries without a landing pad are passed over.
Covers(s, pcOffset) ==
    s.landingPad # 0 /\ s.start <= pcOffset /\ pcOffset < s.start + s.length

\* One turn of the walk over the call sites, which ends at the first one that
\* has a landing pad and covers the offset, or behind the table.
Turn(b, header, pcOffset, r) ==
    LET entered(s) == [next |-> s.next,
                       pad |-> IF Covers(s, pcOffset) THEN s.landingPad ELSE 0]
    IN  IF r.next >= header.end \/ r.pad # 0 THEN r
        ELSE entered(CallSite(b, r.next, header.encoding))

\* The landing pad it ends with, or 0.  A call site takes four bytes or
\* more, which bounds the number of turns.
LandingPad(b, pcOffset) ==
    LET walk(header) ==
            LET turns == Len(b) \div 4
                after[k \in 0..turns] ==
                    IF k = 0 THEN [next |-> header.start, pad |-> 0]
                    ELSE Turn(b, header, pcOffset, after[k - 1])
            IN  after[turns].pad
    IN  walk(Header(b))

-----------------------------------------------------------------------------
(* Writing: what LLVM emits *)

\* A number and what is left of it after each division by the base.
Quotients(v, base) ==
    LET rest[k \in 1..8] == IF k = 1 THEN v ELSE rest[k - 1] \div base
    IN  rest

\* Seven bits a byte, the lowest first, until what is left is below the limit.
LEB128(v, limit) ==
    LET rest  == Quotients(v, 128)
        bytes == CHOOSE n \in 1..5 : rest[n] < limit /\ \A k \in 1..(n - 1) : rest[k] >= limit
    IN  [k \in 1..bytes |-> (rest[k] % 128) + (IF k < bytes THEN 128 ELSE 0)]

\* The last byte of a signed number must not look negative.
ULEB128(v) == LEB128(v, 128)
SLEB128(v) == LEB128(v, 64)

Encoded(v, encoding) ==
    LET rest == Quotients(v, 256)
    IN  IF encoding = DW_EH_PE_uleb128 THEN ULEB128(v)
        ELSE IF encoding = DW_EH_PE_sleb128 THEN SLEB128(v)
        ELSE [k \in 1..Width(encoding) |-> rest[k] % 256]

\* The largest number written: what a signed or a short format holds, and for
\* the others what readULEB128, which shifts an int, does not cut off.
INT_MAX == 2147483647
Largest(encoding) ==
    IF encoding = 2 THEN 65535 ELSE IF encoding = 10 THEN 32767 ELSE INT_MAX

\* An entry with a landing pad names the first action; one without has none.
EncodedSite(s, encoding) ==
    Encoded(s.start, encoding) \o Encoded(s.length, encoding)
      \o Encoded(s.pad, encoding) \o ULEB128(IF s.pad = 0 THEN 0 ELSE 1)

CallSiteTable(sites, encoding) ==
    FlattenSeq([k \in DOMAIN sites |-> EncodedSite(sites[k], encoding)])

\* A function without a landing pad has no data area.
Emit(sites, encoding) ==
    LET table == CallSiteTable(sites, encoding)
        rest  == <<encoding>> \o ULEB128(Len(table)) \o table \o <<1, 0>>
    IN  IF sites = <<>> THEN <<>>
        ELSE <<DW_EH_PE_omit, DW_EH_PE_absptr>> \o ULEB128(Len(rest)) \o rest
=============================================================================
