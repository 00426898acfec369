-------------------------------- MODULE Wire --------------------------------
(***************************************************************************)
(* The parts of the protocol buffer code that every message shares: the    *)
(* varint writer and reader, the size of a varint, the skipping of a field *)
(* the reader does not know, and the vocabulary in which the tables of     *)
(* RaftpbMessages and EtcdserverpbMessages state what the MarshalTo, Size  *)
(* and Unmarshal methods of one message do.  The generator writes a copy   *)
(* of these functions into each package.  The copies differ in one thing:  *)
(* an older generator wrote raft.pb.go, which adds a length to a position  *)
(* without a check that the sum is not negative.  The parameter guarded    *)
(* says whether a copy has those checks.                                   *)
(*                                                                         *)
(* A byte is a number in 0..255 and a varint carries 7 bits per byte, as   *)
(* in the code.  The word is WordBits wide: 64 in the code.  Any value     *)
(* that leaves one bit for the last byte of a full word (64 = 9 * 7 + 1)   *)
(* has the same edges.  Positions count from 0, as in the code.            *)
(***************************************************************************)
EXTENDS Integers, Sequences

CONSTANTS
  WordBits,  \* width of uint64, int64 and int
  EnumBits   \* width of int32

ASSUME WidthAssumption == /\ WordBits \in Nat /\ EnumBits \in Nat
                          /\ 7 < EnumBits /\ EnumBits < WordBits

Word == 2 ^ WordBits

\* Go's conversions between the integer types.
uint64(v) == v % Word
int64(v) == IF v >= Word \div 2 THEN v - Word ELSE v
int32(v) == LET low == v % (2 ^ EnumBits)
            IN  IF low >= 2 ^ (EnumBits - 1) THEN low - 2 ^ EnumBits ELSE low

\* Go's addition of two ints that are not negative: it wraps.
Plus(i, n) == int64(uint64(i + n))
-----------------------------------------------------------------------------
RECURSIVE encodeVarint(_)
encodeVarint(v) ==
  IF v >= 128 THEN <<128 + (v % 128)>> \o encodeVarint(v \div 128) ELSE <<v>>

\* Mistake: 128 is taken for a value of one byte.
RECURSIVE sovShort(_)
sovShort(x) == IF x <= 128 THEN 1 ELSE 1 + sovShort(x \div 128)

RECURSIVE sov(_)
sov(x) == IF x \div 128 = 0 THEN 1 ELSE 1 + sov(x \div 128)

Read(v, i) == [v |-> v, i |-> i, err |-> "nil"]
Fail(e) == [v |-> 0, i |-> 0, err |-> e]

\* The inlined loop that reads a varint at position i of dAtA: its value, the
\* position after it, or the error.  MaxBytes is the number of bytes after
\* which shift has reached the width of the word.
MaxBytes == (WordBits + 6) \div 7

ReadVarint(dAtA, i) ==
  LET last == {n \in 0..(MaxBytes - 1) : i + n < Len(dAtA) /\ dAtA[i + n + 1] < 128}
      end == CHOOSE n \in last : \A k \in last : n <= k
      value[n \in 0..(MaxBytes - 1)] ==
        ((dAtA[i + n + 1] % 128) * 2 ^ (7 * n) + (IF n = 0 THEN 0 ELSE value[n - 1])) % Word
  IN  CASE last # {} -> Read(value[end], i + end + 1)
        [] last = {} /\ i + MaxBytes <= Len(dAtA) -> Fail("ErrIntOverflow")
        [] OTHER -> Fail("ErrUnexpectedEOF")

\* Mistake: a length that reaches past the end is cut to what is there.
ReadLengthClamped(dAtA, i, guarded) ==
  LET r == ReadVarint(dAtA, i)
      post == r.i + int64(r.v)
  IN  IF r.err # "nil" THEN r
      ELSE Read(IF post > Len(dAtA) THEN Len(dAtA) ELSE post, r.i)

\* A length and the bytes it announces, as for Data or an embedded message:
\* v is postIndex, the position after the last of them.
ReadLength(dAtA, i, guarded) ==
  LET r == ReadVarint(dAtA, i)
      post == Plus(r.i, int64(r.v))
  IN  IF r.err # "nil" THEN r
      ELSE IF int64(r.v) < 0 \/ (guarded /\ post < 0) THEN Fail("ErrInvalidLength")
      ELSE IF post > Len(dAtA) THEN Fail("ErrUnexpectedEOF")
      ELSE Read(post, r.i)

Slice(dAtA, i, j) == SubSeq(dAtA, i + 1, j)
-----------------------------------------------------------------------------
\* skipRaft and its copies: the position after the field whose tag is the first
\* of dAtA.  A group (wire types 3 and 4) is skipped field by field, up to and
\* including the tag that ends it.
RECURSIVE SkipFrom(_, _)
RECURSIVE SkipGroup(_, _, _)

SkipFrom(dAtA, guarded) ==
  LET tag == ReadVarint(dAtA, 0)
      body == ReadVarint(dAtA, tag.i)
      end == Plus(body.i, int64(body.v))
      wireType == tag.v % 8
  IN  IF tag.err # "nil" THEN tag
      ELSE CASE wireType = 0 -> body
             [] wireType = 1 -> Read(0, tag.i + 8)
             [] wireType = 2 ->
                  IF body.err # "nil" THEN body
                  ELSE IF int64(body.v) < 0 \/ (guarded /\ end < 0) THEN Fail("ErrInvalidLength")
                  ELSE Read(0, end)
             [] wireType = 3 -> SkipGroup(dAtA, tag.i, guarded)
             [] wireType = 4 -> Read(0, tag.i)
             [] wireType = 5 -> Read(0, tag.i + 4)
             [] OTHER -> Fail("ErrWireType")

\* Without the checks the next field may begin at a negative index, which panics.
SkipGroup(dAtA, start, guarded) ==
  LET inner == IF start < 0 THEN Fail("panic") ELSE ReadVarint(dAtA, start)
      next == SkipFrom(Slice(dAtA, start, Len(dAtA)), guarded)
      iNdEx == Plus(start, next.i)
  IN  IF inner.err # "nil" THEN inner
      ELSE IF inner.v % 8 = 4 THEN Read(0, inner.i)
      ELSE IF next.err # "nil" THEN next
      ELSE IF guarded /\ iNdEx < 0 THEN Fail("ErrInvalidLength")
      ELSE SkipGroup(dAtA, iNdEx, guarded)
-----------------------------------------------------------------------------
\* The Go types of message fields.
Kind(go, of) == [go |-> go, of |-> of]
Uint64 == Kind("uint64", "")
Int64 == Kind("int64", "")
Enum == Kind("enum", "")
Bool == Kind("bool", "")
BoolPtr == Kind("*bool", "")
Bytes == Kind("bytes", "")
String == Kind("string", "")
Uint64s == Kind("[]uint64", "")
Embedded(msg) == Kind("embedded", msg)
Pointer(msg) == Kind("pointer", msg)
Repeated(msg) == Kind("repeated", msg)

\* One statement of MarshalTo or Size: when it is executed, on which field,
\* the tag (its bytes in MarshalTo, their number in Size) and the way the
\* value is written: "varint", "bool", "bytes", or the name of a message.
Put(when, f, tag, as) == [when |-> when, f |-> f, tag |-> tag, as |-> as]
Always(f, tag, as) == Put("always", f, tag, as)
NonNil(f, tag, as) == Put("nonnil", f, tag, as)
NonZero(f, tag, as) == Put("nonzero", f, tag, as)
IfTrue(f, tag, as) == Put("true", f, tag, as)
NonEmpty(f, tag, as) == Put("nonempty", f, tag, as)
Each(f, tag, as) == Put("each", f, tag, as)

\* One case of Unmarshal's switch: field number, wire type, field, its type.
Case(num, wireType, f, kind) ==
  [num |-> num, wireType |-> wireType, f |-> f, kind |-> kind]
=============================================================================
