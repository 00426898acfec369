------------------------------- MODULE Codec --------------------------------
(***************************************************************************)
(* The generated Marshal and Unmarshal of the messages that a set of       *)
(* tables describes.  One message is marshalled; what another program      *)
(* reads is that encoding, or a version of it that an older or newer       *)
(* writer or a lost tail would give; Unmarshal reads it, one iteration of  *)
(* its loop per step, with a stack of frames for embedded messages.        *)
(***************************************************************************)
EXTENDS Wire

CONSTANTS
  Nil,         \* the nil slice or pointer
  Structs,     \* per message: its fields and their types
  MarshalToOf, \* per message: the statements of MarshalTo
  SizeOf,      \* per message: the statements of Size
  CasesOf,     \* per message: the cases of Unmarshal's switch
  Proto3,      \* the messages whose fields are tagged proto3
  Guarded,     \* those whose package checks that no sum is negative
  Types        \* the messages that are read at the top level

Seqs == INSTANCE SequencesExt

VARIABLES
  pc,      \* "marshal", "encoded", "unmarshal", "done" or "panic"
  t, src,  \* the message that is sent and its type
  dAtA,    \* the bytes
  how,     \* what happened to the bytes on the way
  target,  \* the message Unmarshal is called on
  extra,   \* the bytes of a field the reader does not know
  stack,   \* the calls of Unmarshal in progress
  err,
  rounds   \* history: the steps Unmarshal has taken

vars == <<pc, t, src, dAtA, how, target, extra, stack, err, rounds>>

Unrecognized == "XXX_unrecognized"

\* The zero value of a Go struct.
RECURSIVE Zero(_)
ZeroOf(kind) ==
  CASE kind.go \in {"uint64", "int64", "enum"} -> 0
    [] kind.go = "bool" -> FALSE
    [] kind.go \in {"string", "[]uint64", "repeated"} -> <<>>
    [] kind.go \in {"bytes", "*bool", "pointer"} -> Nil
    [] kind.go = "embedded" -> Zero(kind.of)
Zero(msg) == [f \in DOMAIN Structs[msg] \cup {Unrecognized} |->
                IF f = Unrecognized THEN <<>> ELSE ZeroOf(Structs[msg][f])]
-----------------------------------------------------------------------------
\* Mistake: a negative number is taken for an unset one.
PresentPositive(when, x) ==
  CASE when = "always" -> TRUE
    [] when = "nonnil" -> x # Nil
    [] when = "nonzero" -> x > 0
    [] when = "true" -> x
    [] when = "nonempty" -> x # Nil /\ x # <<>>

\* The condition under which MarshalTo and Size handle a field of value x.
Present(when, x) ==
  CASE when = "always" -> TRUE
    [] when = "nonnil" -> x # Nil
    [] when = "nonzero" -> x # 0
    [] when = "true" -> x
    [] when = "nonempty" -> x # Nil /\ x # <<>>

\* The values of a field that a statement handles, in order.
Handled(s, m) == IF s.when = "each" THEN m[s.f]
                 ELSE IF Present(s.when, m[s.f]) THEN <<m[s.f]>> ELSE <<>>

RECURSIVE Size(_, _)
SizeOfValue(as, x) ==
  CASE as = "varint" -> sov(uint64(x))
    [] as = "bool" -> 1
    [] as = "bytes" -> Len(x) + sov(Len(x))
    [] OTHER -> Size(as, x) + sov(Size(as, x))
SizeOfField(s, m) ==
  Seqs!FoldLeft(LAMBDA n, x : n + s.tag + SizeOfValue(s.as, x), 0, Handled(s, m))
Size(msg, m) ==
  Seqs!FoldLeft(LAMBDA n, s : n + SizeOfField(s, m), 0, SizeOf[msg])
    + Len(m[Unrecognized])

\* What MarshalTo writes, one element per field or element of a field.  The
\* length in front of an embedded message is what its Size says.
RECURSIVE Pieces(_, _)
BytesOfValue(as, x) ==
  CASE as = "varint" -> encodeVarint(uint64(x))
    [] as = "bool" -> IF x THEN <<1>> ELSE <<0>>
    [] as = "bytes" -> encodeVarint(Len(x)) \o x
    [] OTHER -> encodeVarint(Size(as, x)) \o Seqs!FlattenSeq(Pieces(as, x))
PiecesOfField(s, m) ==
  LET xs == Handled(s, m)
  IN  [n \in 1..Len(xs) |-> s.tag \o BytesOfValue(s.as, xs[n])]
Pieces(msg, m) ==
  Seqs!FoldLeft(LAMBDA ps, s : ps \o PiecesOfField(s, m), <<>>, MarshalToOf[msg])
    \o <<m[Unrecognized]>>
MarshalTo(msg, m) == Seqs!FlattenSeq(Pieces(msg, m))
-----------------------------------------------------------------------------
\* Messages to try: the zero message and one with every field set, each with
\* one field changed.  Long needs a length of two bytes.
Long == [n \in 1..128 |-> n % 2]

RECURSIVE Full(_)
FullOf(kind) ==
  CASE kind.go = "uint64" -> 300
    [] kind.go = "int64" -> -1
    [] kind.go = "enum" -> 1
    [] kind.go \in {"bool", "*bool"} -> TRUE
    [] kind.go \in {"string", "bytes"} -> <<7, 8>>
    [] kind.go = "[]uint64" -> <<1, 300>>
    [] kind.go \in {"embedded", "pointer"} -> Full(kind.of)
    [] kind.go = "repeated" -> <<Full(kind.of), Zero(kind.of)>>
Full(msg) == [f \in DOMAIN Zero(msg) |->
                IF f = Unrecognized THEN <<>> ELSE FullOf(Structs[msg][f])]

Longer(msg) == [f \in DOMAIN Zero(msg) |->
                  IF f # Unrecognized /\ Structs[msg][f] = Bytes THEN Long ELSE Zero(msg)[f]]

Values(kind) ==
  CASE kind.go = "uint64" -> {0, 1, 128, Word - 1}
    [] kind.go = "int64" -> {0, 1, -1}
    [] kind.go = "enum" -> {0, 1, 2}
    [] kind.go = "bool" -> BOOLEAN
    [] kind.go = "*bool" -> {Nil} \cup BOOLEAN
    [] kind.go = "string" -> {<<>>, <<7>>}
    [] kind.go = "bytes" -> {Nil, <<>>, <<7>>, Long}
    [] kind.go = "[]uint64" -> {<<>>, <<128>>, <<0, 1, 0>>}
    [] kind.go = "embedded" -> {Zero(kind.of), Full(kind.of), Longer(kind.of)}
    [] kind.go = "pointer" -> {Nil, Zero(kind.of), Full(kind.of), Longer(kind.of)}
    [] kind.go = "repeated" -> {<<>>, <<Longer(kind.of)>>, <<Full(kind.of), Zero(kind.of)>>}

Samples(msg) ==
  UNION {{[base EXCEPT ![f] = x] : x \in Values(Structs[msg][f])} :
           base \in {Zero(msg), Full(msg)}, f \in DOMAIN Structs[msg]}
-----------------------------------------------------------------------------
Init ==
  /\ pc = "marshal" /\ t \in Types /\ src \in Samples(t)
  /\ dAtA = <<>> /\ how = "" /\ target = Zero(t) /\ extra = <<>>
  /\ stack = <<>> /\ err = "nil" /\ rounds = 0

\* Marshal allocates Size() bytes, lets MarshalTo fill them from the front and
\* returns the part that was filled.
Marshal ==
  /\ pc = "marshal"
  /\ IF Len(MarshalTo(t, src)) > Size(t, src)
     THEN pc' = "panic" /\ UNCHANGED dAtA
     ELSE pc' = "encoded" /\ dAtA' = MarshalTo(t, src)
  /\ UNCHANGED <<t, src, how, target, extra, stack, err, rounds>>

\* A call of Unmarshal on message m; its caller stores m in field f.
Frame(msg, bytes, m, f) == [t |-> msg, d |-> bytes, i |-> 0, m |-> m, f |-> f]

Deliver(bytes, way, m, u) ==
  /\ pc = "encoded" /\ pc' = "unmarshal"
  /\ how' = way /\ dAtA' = bytes /\ target' = m /\ extra' = u
  /\ stack' = <<Frame(t, bytes, m, "")>>
  /\ UNCHANGED <<t, src, err, rounds>>

\* The reader has all bytes and a fresh message.
DeliverWhole == Deliver(dAtA, "whole", Zero(t), <<>>)

\* Unmarshal does not reset its receiver: the message was read into before.
DeliverReused == Deliver(dAtA, "reused", Full(t), <<>>)

\* The tail is lost.
DeliverCut ==
  /\ src \in {Zero(t), Full(t)}
  /\ \E n \in 0..(Len(dAtA) - 1) : Deliver(SubSeq(dAtA, 1, n), "cut", Zero(t), <<>>)

\* A newer writer sets a field, of any wire type, that this reader's message
\* does not have.  The field numbers in use are below NewField or above it.
NewField == 90
NewTag(wireType) == encodeVarint(NewField * 8 + wireType)
NewFields ==
  {NewTag(0) \o <<128, 1>>, NewTag(1) \o <<1, 2, 3, 4, 5, 6, 7, 8>>,
   NewTag(2) \o <<2, 9, 9>>, NewTag(5) \o <<1, 2, 3, 4>>,
   NewTag(3) \o <<8, 1, 19, 8, 5, 20>> \o NewTag(4)}
DeliverNewer ==
  /\ src \in {Zero(t), Full(t)}
  /\ \E u \in NewFields, n \in 0..Len(Pieces(t, src)) :
       LET ps == Pieces(t, src)
       IN  Deliver(Seqs!FlattenSeq(SubSeq(ps, 1, n)) \o u
                     \o Seqs!FlattenSeq(SubSeq(ps, n + 1, Len(ps))),
                   "newer", Zero(t), u)

\* Another writer packs the repeated numbers of a field into one piece.
Numbers == {s \in Seqs!ToSet(MarshalToOf[t]) : s.when = "each" /\ s.as = "varint"}
Packed(s) ==
  LET body == Seqs!FlattenSeq([n \in DOMAIN src[s.f] |-> encodeVarint(src[s.f][n])])
  IN  <<s.tag[1] + 2>> \o encodeVarint(Len(body)) \o body
DeliverPacked ==
  \E s \in Numbers :
    LET rest == MarshalTo(t, [src EXCEPT ![s.f] = <<>>])
    IN  Deliver(Packed(s) \o rest, "packed", Zero(t), <<>>)
-----------------------------------------------------------------------------
Top == stack[Len(stack)]

\* The head of the loop: the tag at iNdEx.
Tag == ReadVarint(Top.d, Top.i)
FieldNum == int32(Tag.v \div 8)
WireType == Tag.v % 8
Known == {c \in CasesOf[Top.t] : c.num = FieldNum}
Field == CHOOSE c \in Known : TRUE

\* Mistake: the position stays where it is.
SkippedNothing == Read(0, 0)

\* The field at iNdEx: Skipped.i is skippy, the number of its bytes.
Skipped == SkipFrom(Slice(Top.d, Top.i, Len(Top.d)), Top.t \in Guarded)

\* The default case: the error of skipRaft or its copy, or that of a sum that is
\* too large; without the check for a negative one the slice panics.
SkipErr ==
  LET end == Plus(Top.i, Skipped.i)
  IN  IF Skipped.err # "nil" THEN Skipped.err
      ELSE IF Skipped.i < 0 \/ (Top.t \in Guarded /\ end < 0) THEN "ErrInvalidLength"
      ELSE IF end > Len(Top.d) THEN "ErrUnexpectedEOF"
      ELSE IF end < 0 THEN "panic" ELSE "nil"

\* The length at Tag.i.
Length == ReadLength(Top.d, Tag.i, Top.t \in Guarded)

\* The numbers of a packed field, from position i up to post.
RECURSIVE Unpack(_, _, _, _)
Unpack(d, i, post, xs) ==
  LET r == ReadVarint(d, i)
  IN  IF i >= post THEN Read(xs, i)
      ELSE IF r.err # "nil" THEN r
      ELSE Unpack(d, r.i, post, Append(xs, r.v))

\* The error or the panic that ends the loop at this tag, or "nil": a slice up to a
\* negative postIndex panics, the loop of a packed field is not entered.
FieldErr ==
  LET packed == WireType = 2 /\ Field.kind = Uint64s
  IN  CASE Tag.err # "nil" -> Tag.err
        [] Tag.err = "nil" /\ WireType = 4 -> "ErrEndGroup"
        [] Tag.err = "nil" /\ WireType # 4 /\ FieldNum <= 0 -> "ErrIllegalTag"
        [] OTHER ->
             IF Known = {} THEN SkipErr
             ELSE IF WireType # Field.wireType /\ ~packed THEN "ErrWireType"
             ELSE IF WireType = 0 THEN ReadVarint(Top.d, Tag.i).err
             ELSE IF Length.err # "nil" THEN Length.err
             ELSE IF packed THEN Unpack(Top.d, Length.i, Length.v, <<>>).err
             ELSE IF Length.v < 0 THEN "panic" ELSE "nil"

InLoop == pc = "unmarshal" /\ Top.i < Len(Top.d)
InCase(gos) == InLoop /\ FieldErr = "nil" /\ Known # {} /\ Field.kind.go \in gos

\* The loop goes on at position i with x in field f.
Continue(i, f, x) ==
  /\ stack' = [stack EXCEPT ![Len(stack)] = [@ EXCEPT !.i = i, !.m[f] = x]]
  /\ UNCHANGED <<pc, t, src, dAtA, how, target, extra, err>>

Converted(kind, v) ==
  CASE kind.go = "uint64" -> v
    [] kind.go = "int64" -> int64(v)
    [] kind.go = "enum" -> int32(v)
    [] kind.go \in {"bool", "*bool"} -> v # 0

\* A number or a bool overwrites the field.
SetVarint ==
  /\ InCase({"uint64", "int64", "enum", "bool", "*bool"})
  /\ LET r == ReadVarint(Top.d, Tag.i)
     IN  Continue(r.i, Field.f, Converted(Field.kind, r.v))

\* Bytes or a string overwrite the field; empty bytes leave it non-nil.
SetBytes ==
  /\ InCase({"bytes", "string"})
  /\ Continue(Length.v, Field.f, Slice(Top.d, Length.i, Length.v))

\* Repeated numbers are appended, one or a packed run of them.
AppendNumbers ==
  /\ InCase({"[]uint64"})
  /\ LET one == ReadVarint(Top.d, Tag.i)
         run == Unpack(Top.d, Length.i, Length.v, Top.m[Field.f])
     IN  IF WireType = 0 THEN Continue(one.i, Field.f, Append(Top.m[Field.f], one.v))
                         ELSE Continue(run.i, Field.f, run.v)

\* The message Unmarshal is called on for an embedded field: the one that is
\* there, or a new one for a nil pointer or an appended element.
Callee(kind, old) ==
  IF kind.go = "repeated" \/ old = Nil THEN Zero(kind.of) ELSE old

CallUnmarshal ==
  /\ InCase({"embedded", "pointer", "repeated"})
  /\ LET caller == [Top EXCEPT !.i = Length.v]
         callee == Frame(Field.kind.of, Slice(Top.d, Length.i, Length.v),
                         Callee(Field.kind, Top.m[Field.f]), Field.f)
     IN  stack' = Append([stack EXCEPT ![Len(stack)] = caller], callee)
  /\ UNCHANGED <<pc, t, src, dAtA, how, target, extra, err>>

\* The default case: the bytes of the field are kept as they are.
KeepUnrecognized ==
  /\ InLoop /\ FieldErr = "nil" /\ Known = {}
  /\ LET end == Top.i + Skipped.i
     IN  Continue(end, Unrecognized, Top.m[Unrecognized] \o Slice(Top.d, Top.i, end))

ReturnErr ==
  /\ InLoop /\ FieldErr # "nil"
  /\ err' = FieldErr /\ pc' = "done"
  /\ UNCHANGED <<t, src, dAtA, how, target, extra, stack>>

\* The loop has ended: back to the caller, which holds the message in place.
Stored(caller, f, m) ==
  IF Structs[caller.t][f].go = "repeated"
  THEN [caller EXCEPT !.m[f] = Append(@, m)] ELSE [caller EXCEPT !.m[f] = m]

ReturnNil ==
  /\ pc = "unmarshal" /\ Top.i >= Len(Top.d)
  /\ IF Len(stack) = 1 THEN pc' = "done" /\ UNCHANGED stack
     ELSE LET n == Len(stack) - 1
          IN  /\ stack' = [SubSeq(stack, 1, n) EXCEPT ![n] = Stored(@, Top.f, Top.m)]
              /\ UNCHANGED pc
  /\ UNCHANGED <<t, src, dAtA, how, target, extra, err>>

Unmarshal == /\ rounds' = rounds + 1
             /\ \/ SetVarint \/ SetBytes \/ AppendNumbers \/ CallUnmarshal
                \/ KeepUnrecognized \/ ReturnErr \/ ReturnNil

\* The caller has its message or its error.
Ended == pc = "done" /\ UNCHANGED vars

Next == \/ Marshal
        \/ DeliverWhole \/ DeliverReused \/ DeliverCut \/ DeliverNewer \/ DeliverPacked
        \/ Unmarshal
        \/ Ended

Spec == Init /\ [][Next]_vars
-----------------------------------------------------------------------------
\* What reading an encoding of new into old means, stated on the messages.
RECURSIVE Merged(_, _, _)
MergedField(kind, proto3, old, new) ==
  CASE kind.go \in {"uint64", "int64", "enum", "bool", "string"} ->
         IF proto3 /\ new = ZeroOf(kind) THEN old ELSE new
    [] kind.go \in {"bytes", "*bool"} ->
         IF new = Nil \/ (proto3 /\ new = <<>>) THEN old ELSE new
    [] kind.go = "[]uint64" -> old \o new
    [] kind.go = "repeated" ->
         old \o [n \in DOMAIN new |-> Merged(kind.of, Zero(kind.of), new[n])]
    [] kind.go = "embedded" -> Merged(kind.of, old, new)
    [] kind.go = "pointer" ->
         IF new = Nil THEN old
         ELSE Merged(kind.of, IF old = Nil THEN Zero(kind.of) ELSE old, new)
Merged(msg, old, new) ==
  [f \in DOMAIN old |->
     IF f = Unrecognized THEN old[f] \o new[f]
     ELSE MergedField(Structs[msg][f], msg \in Proto3, old[f], new[f])]

Result == stack[1].m
Finished(way) == pc = "done" /\ how = way

\* The buffer that Marshal allocates by Size is filled to its last byte and
\* MarshalTo never writes past it, for every message, embedded ones included.
SizeIsExact ==
  /\ pc # "panic"
  /\ pc = "encoded" => Len(dAtA) = Size(t, src)

\* Unmarshal merges what went into Marshal into the message it is called on,
\* whether the writer packs repeated numbers or not: into a new message it comes
\* back as it was (a nil and an empty slice are told apart by a proto2 message
\* only); in one that has content, numbers and bytes that were sent replace,
\* repeated fields grow, embedded messages merge in turn, and what was not sent
\* stays.  A field of a newer version, of any wire type and at any place, changes
\* no other field, and its bytes are kept for the next Marshal.
RoundTrip ==
  \A way \in {"whole", "packed", "reused", "newer"} : Finished(way) =>
    /\ err = "nil"
    /\ Result = [Merged(t, target, src) EXCEPT ![Unrecognized] = @ \o extra]

\* The bytes of the first n pieces.
Whole(n) == Seqs!FlattenSeq(SubSeq(Pieces(t, src), 1, n))

\* Where a lost tail ends inside a field Unmarshal says so.  Where it ends
\* between two fields it cannot, and each field is as it was sent, whole, or as
\* if it had not been sent; of a repeated field the first elements are there.
CutNoticed ==
  Finished("cut") =>
    IF \E n \in 0..Len(Pieces(t, src)) : Whole(n) = dAtA
    THEN /\ err = "nil"
         /\ \A f \in DOMAIN Structs[t] :
              \/ Result[f] \in {Zero(t)[f], Merged(t, Zero(t), src)[f]}
              \/ /\ Structs[t][f].go \in {"[]uint64", "repeated"}
                 /\ Seqs!IsPrefix(Result[f], Merged(t, Zero(t), src)[f])
    ELSE err = "ErrUnexpectedEOF"

\* The bytes that the calls in progress have not read, and the calls.
Remaining == Seqs!FoldLeft(LAMBDA n, fr : n + Len(fr.d) - fr.i + 1, 0, stack)

\* Unmarshal ends: every step, also one that skips an unknown field or calls
\* Unmarshal for an embedded message, leaves less to do than there was, so
\* that it takes no more steps than there are bytes, and the last return.
UnmarshalEnds ==
  pc \in {"unmarshal", "done"} => rounds + Remaining <= Len(dAtA) + 2
=============================================================================
