------------------------------- MODULE MsgPack -------------------------------
(***************************************************************************)
(* The MessagePack header msgpuck.h of the C clients (OpenSIPS and         *)
(* RTPEngine have the same file).  A buffer is a sequence of cells: a      *)
(* [byte], or a [text, len] that stands for the len bytes of a string.  A  *)
(* number is the sequence of its bytes, most significant first and without *)
(* leading zeros, so that 64 bits fit; sizes are naturals.                 *)
(*                                                                         *)
(* A decoder takes a buffer and returns the value and the rest of the      *)
(* buffer, as the C functions move their pointer.                          *)
(***************************************************************************)
EXTENDS Integers, Sequences, FiniteSetsExt

\* The tags of each type by the width in bytes of what follows, and the tags
\* from first to last that hold the value themselves.  The form of twice the
\* width has the next tag; arrays and maps have none of one byte.
Power(w) == CASE w = 1 -> 0 [] w = 2 -> 1 [] w = 4 -> 2 [] w = 8 -> 3
Wides(tag, widths) == [w \in widths |-> tag + Power(w)]
UintTags == [first |-> 0, last |-> 127, wide |-> Wides(204, {1, 2, 4, 8})]
StrTags == [first |-> 160, last |-> 191, wide |-> Wides(217, {1, 2, 4})]
ArrayTags == [first |-> 144, last |-> 159, wide |-> Wides(219, {2, 4})]
MapTags == [first |-> 128, last |-> 143, wide |-> Wides(221, {2, 4})]
BinTags == [first |-> 0, last |-> -1, wide |-> Wides(196, {1, 2, 4})]
IntTags == [first |-> 224, last |-> 255, wide |-> Wides(208, {1, 2, 4, 8})]

\* Numbers; sizes are below 2^24.
Bytes(n) ==
    IF n = 0 THEN <<>> ELSE IF n < 256 THEN <<n>>
    ELSE IF n < 65536 THEN <<n \div 256, n % 256>>
    ELSE <<n \div 65536, (n \div 256) % 256, n % 256>>
Pad(d, w) == [i \in 1..w |-> IF i + Len(d) > w THEN d[i + Len(d) - w] ELSE 0]
Strip(d) ==
    LET nonzero == {i \in DOMAIN d : d[i] # 0}
    IN  IF nonzero = {} THEN <<>> ELSE SubSeq(d, Min(nonzero), Len(d))
Place(d, k) == IF k < Len(d) THEN d[Len(d) - k] ELSE 0
Size(d) == 65536 * Place(d, 2) + 256 * Place(d, 1) + Place(d, 0)

\* Cells: what follows the first n, and the i-th byte.  One that is looked for
\* in a text, or behind what can be read, is some letter.
Raw(bytes) == [i \in DOMAIN bytes |-> [byte |-> bytes[i]]]
IsByte(cell) == "byte" \in DOMAIN cell
After(n, s) == SubSeq(s, n + 1, Len(s))
Byte(s, i) == IF i <= Len(s) /\ IsByte(s[i]) THEN s[i].byte ELSE 120

\* A loop: n times the step op, from state st.
Times(op(_), st, n) ==
    LET after[i \in 0..n] == IF i = 0 THEN st ELSE op(after[i - 1])
    IN  after[n]
-----------------------------------------------------------------------------
(***************************************************************************)
(* Encoding: the tag that holds the value, or the smallest wide form.      *)
(***************************************************************************)
FitsTag_OffByOne(tags, d) == d = <<>> \/ (Len(d) = 1 /\ d[1] <= tags.last - tags.first + 1)
FitsTag(tags, d) == d = <<>> \/ (Len(d) = 1 /\ d[1] <= tags.last - tags.first)
Encode(tags, d) ==
    LET w == Min({v \in DOMAIN tags.wide : v >= Len(d)})
    IN  IF FitsTag(tags, d) THEN Raw(<<tags.first + Size(d)>>)
        ELSE Raw(<<tags.wide[w]>> \o Pad(d, w))

mp_encode_uint(d) == Encode(UintTags, d)
mp_encode_array(n) == Encode(ArrayTags, Bytes(n))
mp_encode_map(n) == Encode(MapTags, Bytes(n))
mp_encode_str(t) == Encode(StrTags, Bytes(t.len)) \o IF t.len = 0 THEN <<>> ELSE <<t>>
-----------------------------------------------------------------------------
(***************************************************************************)
(* Decoding                                                                *)
(***************************************************************************)

\* A tag and the bytes after it; another type's tag gives 0.
Is(tags, s) == Byte(s, 1) \in tags.first..tags.last \cup {tags.wide[w] : w \in DOMAIN tags.wide}
Width(tags, c) == Max({0} \cup {w \in DOMAIN tags.wide : tags.wide[w] = c})
Unpack(tags, c, w, s) ==
    [val |-> IF c \in tags.first..tags.last THEN Bytes(c - tags.first)
             ELSE Strip([i \in 1..w |-> Byte(s, i + 1)]),
     rest |-> After(w + 1, s)]
Decode(tags, s) == Unpack(tags, Byte(s, 1), Width(tags, Byte(s, 1)), s)
Sized(h) == [val |-> Size(h.val), rest |-> h.rest]

\* The text of as many bytes as were announced, and what follows them.  With
\* the wrong number neither can be read.
NoText == [text |-> "", len |-> 0]
Ends(n, s) == s # <<>> /\ ~IsByte(s[1]) /\ s[1].len = n
TextOf(n, s) == IF n = 0 THEN NoText ELSE IF Ends(n, s) THEN s[1] ELSE [text |-> "cut", len |-> n]
Skip(n, s) == IF n = 0 THEN s ELSE IF Ends(n, s) THEN Tail(s) ELSE <<>>
Content(h) == [val |-> TextOf(h.val, h.rest), rest |-> Skip(h.val, h.rest)]

mp_decode_uint(s) == Decode(UintTags, s)
mp_decode_array(s) == Sized(Decode(ArrayTags, s))
mp_decode_map(s) == Sized(Decode(MapTags, s))
mp_decode_str(s) == Content(Sized(Decode(StrTags, s)))

\* mp_next.  The elements of an array or a map are further objects, so many as
\* its head says; of a type that mp_next does not know only the tag is skipped.
\* A round skips a tag at least, so that there are never more rounds than cells.
Elements(s) ==
    CASE Is(ArrayTags, s) -> mp_decode_array(s)
      [] Is(MapTags, s) -> [mp_decode_map(s) EXCEPT !.val = 2 * @]
      [] Is(StrTags, s) -> [mp_decode_str(s) EXCEPT !.val = 0]
      [] Is(BinTags, s) -> [Content(Sized(Decode(BinTags, s))) EXCEPT !.val = 0]
      [] Is(IntTags, s) -> [Decode(IntTags, s) EXCEPT !.val = 0]
      [] OTHER -> [mp_decode_uint(s) EXCEPT !.val = 0]
NextStep(st) ==
    LET h == Elements(st.rest)
    IN  IF st.todo = 0 \/ st.rest = <<>> THEN st
        ELSE [todo |-> st.todo - 1 + h.val, rest |-> h.rest]
mp_next(s) == Times(NextStep, [todo |-> 1, rest |-> s], Len(s)).rest
=============================================================================
