------------------------- MODULE MemoryStorageProofs -------------------------
(***************************************************************************)
(* Proofs about MemoryStorage, for every value of the constants: what its  *)
(* operators return, and that the stored entries stay contiguous whatever  *)
(* sequence of Append, Compact, CreateSnapshot and ApplySnapshot calls is  *)
(* made, so that positions computed from ents[0].Index are right.          *)
(***************************************************************************)
EXTENDS MemoryStorage, SequenceTheorems, TLAPS

\* The leaves below may take longer than the default five seconds.
USE SMTT(60)

-----------------------------------------------------------------------------
\* Numbers and sequences.

\* max (util.go) is the larger one.
LEMMA Max2Props ==
  \A a, b \in Int : /\ Max2(a, b) \in Int /\ Max2(a, b) >= a /\ Max2(a, b) >= b
                    /\ Max2(a, b) = a \/ Max2(a, b) = b
  BY DEF Max2

\* min (util.go) is the smaller one.
LEMMA Min2Props ==
  \A a, b \in Int : /\ Min2(a, b) \in Int /\ Min2(a, b) <= a /\ Min2(a, b) <= b
                    /\ Min2(a, b) = a \/ Min2(a, b) = b
  BY DEF Min2

\* ents[0].Index is a number as long as there is a dummy entry.
LEMMA EntryTypes ==
  ASSUME NEW es \in Seq(Entry), Len(es) >= 1
  PROVE  /\ Len(es) \in Nat /\ es[1] \in Entry
         /\ es[1].index \in Nat /\ Offset(es) \in Nat
<1>1. Len(es) \in Nat
  OBVIOUS
<1>2. es[1] \in Entry
  BY <1>1
<1> QED
  BY <1>1, <1>2 DEF Entry, Offset

\* The slice s[d:].
LEMMA Suffix ==
  ASSUME NEW S, NEW s \in Seq(S), NEW d \in 0..Len(s)
  PROVE  /\ SubSeq(s, d + 1, Len(s)) \in Seq(S)
         /\ Len(SubSeq(s, d + 1, Len(s))) = Len(s) - d
         /\ \A k \in 1..Len(s) - d : SubSeq(s, d + 1, Len(s))[k] = s[k + d]
  OBVIOUS

\* The slice s[:c].
LEMMA Prefix ==
  ASSUME NEW S, NEW s \in Seq(S), NEW c \in 0..Len(s)
  PROVE  /\ SubSeq(s, 1, c) \in Seq(S)
         /\ Len(SubSeq(s, 1, c)) = c
         /\ \A k \in 1..c : SubSeq(s, 1, c)[k] = s[k]
  OBVIOUS

\* append(s[:c], t...)
LEMMA Overlay ==
  ASSUME NEW S, NEW s \in Seq(S), NEW c \in 0..Len(s), NEW t \in Seq(S)
  PROVE  /\ SubSeq(s, 1, c) \o t \in Seq(S)
         /\ Len(SubSeq(s, 1, c) \o t) = c + Len(t)
         /\ \A k \in 1..c + Len(t) :
              (SubSeq(s, 1, c) \o t)[k] = IF k <= c THEN s[k] ELSE t[k - c]
<1> DEFINE p == SubSeq(s, 1, c)
<1>1. p \in Seq(S) /\ Len(p) = c /\ \A k \in 1..c : p[k] = s[k]
  BY Prefix
<1>2. c \in Nat /\ Len(t) \in Nat
  OBVIOUS
<1> HIDE DEF p
<1>3. /\ p \o t \in Seq(S) /\ Len(p \o t) = c + Len(t)
      /\ \A k \in 1..c + Len(t) : (p \o t)[k] = IF k <= c THEN p[k] ELSE t[k - c]
  BY <1>1, <1>2, ConcatProperties, Zenon
<1>4. \A k \in 1..c + Len(t) : (p \o t)[k] = IF k <= c THEN s[k] ELSE t[k - c]
  BY <1>1, <1>2, <1>3
<1> QED
  BY <1>3, <1>4 DEF p

\* The part of a slice above the dummy entry.
LEMMA UncompactedProps ==
  ASSUME NEW es \in Seq(Entry), Len(es) >= 1,
         NEW b \in Seq(Entry), Len(b) >= 1, ConsecutiveFrom(b, b[1].index),
         b[1].index + Len(b) - 1 > Offset(es)
  PROVE  /\ Uncompacted(es, b) \in Seq(Entry)
         /\ Len(Uncompacted(es, b)) = b[1].index + Len(b) - Max2(b[1].index, Offset(es) + 1)
         /\ Uncompacted(es, b)[1].index = Max2(b[1].index, Offset(es) + 1)
         /\ \A k \in 1..Len(Uncompacted(es, b)) :
              Uncompacted(es, b)[k] = b[k + (Max2(b[1].index, Offset(es) + 1) - b[1].index)]
<1> DEFINE o == Offset(es)
           f == b[1].index
           new == Uncompacted(es, b)
           m == Max2(f, o + 1)
           d == m - f
<1>1. o \in Nat /\ f \in Nat /\ Len(b) \in Nat
  BY EntryTypes
<1>2. f + Len(b) - 1 > o /\ ConsecutiveFrom(b, f) /\ FirstIndex(es) = o + 1
  BY DEF FirstIndex, Offset
<1>3. m \in Int /\ m >= f /\ m >= o + 1 /\ (m = f \/ m = o + 1)
  <2>1. f \in Int /\ o + 1 \in Int
    BY <1>1
  <2> QED
    BY <2>1, Max2Props, Zenon
<1>4. new = SubSeq(b, d + 1, Len(b))
  <2>1. CASE FirstIndex(es) > f
    <3>1. m = FirstIndex(es)
      BY <1>1, <1>2, <2>1 DEF Max2
    <3>2. new = SubSeq(b, FirstIndex(es) - f + 1, Len(b))
      BY <2>1, Zenon DEF Uncompacted
    <3> HIDE DEF new, m
    <3> QED
      BY <3>1, <3>2, Zenon
  <2>2. CASE ~(FirstIndex(es) > f)
    <3>1. m = f
      BY <1>1, <1>2, <2>2 DEF Max2
    <3>2. new = b
      BY <2>2, Zenon DEF Uncompacted
    <3>3. SubSeq(b, 1, Len(b)) = b
      OBVIOUS
    <3> HIDE DEF new, m, f
    <3>4. d + 1 = 1
      BY <1>1, <3>1
    <3> HIDE DEF d
    <3> QED
      BY <3>2, <3>3, <3>4
  <2> QED
    BY <2>1, <2>2, Zenon
<1> HIDE DEF o, f, new, m
<1>5. d \in 0..Len(b) /\ d + 1 \in 1..Len(b) /\ f + Len(b) - m = Len(b) - d
  BY <1>1, <1>2, <1>3
<1>6. m = f + (d + 1) - 1
  BY <1>1, <1>3
<1> HIDE DEF d
<1>7. b[d + 1].index = m
  BY <1>2, <1>5, <1>6 DEF ConsecutiveFrom
<1>8. /\ new \in Seq(Entry) /\ Len(new) = Len(b) - d
      /\ \A k \in 1..Len(b) - d : new[k] = b[k + d]
  BY <1>4, <1>5, Suffix
<1>9. new[1] = b[d + 1]
  <2>1. 1 \in 1..Len(b) - d /\ 1 + d = d + 1
    BY <1>1, <1>5
  <2> QED
    BY <1>8, <2>1
<1> QED
  BY <1>5, <1>7, <1>8, <1>9 DEF o, f, new, m, d

\* Append of a slice that ends above the dummy entry and leaves no gap: the
\* dummy entry stays, the slice is laid over the rest.
LEMMA AppendedProps ==
  ASSUME NEW es \in Seq(Entry), Len(es) >= 1, ConsecutiveFrom(es, Offset(es)),
         NEW b \in Seq(Entry), Len(b) >= 1, ConsecutiveFrom(b, b[1].index),
         b[1].index <= LastIndex(es) + 1, b[1].index + Len(b) - 1 > Offset(es)
  PROVE  /\ Appended(es, b) \in Seq(Entry)
         /\ Len(Appended(es, b)) = b[1].index + Len(b) - Offset(es)
         /\ Appended(es, b)[1] = es[1]
         /\ ConsecutiveFrom(Appended(es, b), Offset(es))
         /\ \A i \in Offset(es)..b[1].index + Len(b) - 1 :
              Appended(es, b)[i - Offset(es) + 1] =
                IF i > Offset(es) /\ i >= b[1].index
                THEN b[i - b[1].index + 1] ELSE es[i - Offset(es) + 1]
         /\ AppendOutcome(es, b) = "nil"
<1> DEFINE o == Offset(es)
           f == b[1].index
           r == Appended(es, b)
           new == Uncompacted(es, b)
           m == Max2(f, o + 1)
           c == m - o
<1>1. o \in Nat /\ f \in Nat /\ Len(b) \in Nat /\ Len(es) \in Nat
  BY EntryTypes
<1>2. /\ f + Len(b) - 1 > o /\ ConsecutiveFrom(b, f) /\ ConsecutiveFrom(es, o)
      /\ f <= o + Len(es) /\ LastIndex(es) = o + Len(es) - 1
  BY <1>1 DEF LastIndex, Offset
<1>3. m \in Int /\ m >= f /\ m >= o + 1 /\ (m = f \/ m = o + 1)
  <2>1. f \in Int /\ o + 1 \in Int
    BY <1>1
  <2> QED
    BY <2>1, Max2Props, Zenon
<1>4. new \in Seq(Entry) /\ new[1].index = m
  BY UncompactedProps
<1>40. Len(new) = f + Len(b) - m
  BY UncompactedProps
<1>5. \A k \in 1..Len(new) : new[k] = b[k + (m - f)]
  BY UncompactedProps
<1>6. r = SubSeq(es, 1, c) \o new
  <2>1. ~(b[1].index + Len(b) - 1 < FirstIndex(es))
    BY <1>1, <1>2 DEF FirstIndex, Offset
  <2> HIDE DEF m
  <2> QED
    BY <2>1, <1>4, Zenon DEF Appended
<1>7. AppendOutcome(es, b) = "nil"
  BY <1>1, <1>2 DEF AppendOutcome
<1> HIDE DEF o, f, r, new, m
<1>8. c \in 1..Len(es) /\ c \in 0..Len(es) /\ m = o + c /\ m < f + Len(b)
  <2>1. m = o + c
    BY <1>1, <1>3
  <2>2. m < f + Len(b)
    BY <1>1, <1>2, <1>3
  <2>3. c \in Int /\ c >= 1
    BY <1>1, <1>2, <1>3
  <2>4. c <= Len(es)
    BY <1>1, <1>2, <1>3
  <2> QED
    BY <1>1, <2>1, <2>2, <2>3, <2>4
<1>9. \A i \in Nat : (i > o /\ i >= f) <=> i - o + 1 > c
  BY <1>1, <1>3
<1> HIDE DEF c
<1>10. r \in Seq(Entry)
  BY <1>4, <1>6, <1>8, Overlay
<1>101. Len(r) = c + Len(new)
  BY <1>4, <1>6, <1>8, Overlay
<1>11. \A k \in 1..c + Len(new) : r[k] = IF k <= c THEN es[k] ELSE new[k - c]
  BY <1>4, <1>6, <1>8, Overlay
<1>12. Len(r) = f + Len(b) - o
  BY <1>1, <1>3, <1>40, <1>8, <1>101
<1>13. r[1] = es[1]
  <2>1. 1 \in 1..c + Len(new) /\ 1 <= c
    BY <1>1, <1>3, <1>40, <1>8
  <2> QED
    BY <1>11, <2>1
<1>14. \A i \in o..f + Len(b) - 1 :
         r[i - o + 1] = IF i > o /\ i >= f THEN b[i - f + 1] ELSE es[i - o + 1]
  <2> TAKE i \in o..f + Len(b) - 1
  <2> DEFINE k == i - o + 1
  <2>1. k \in 1..c + Len(new) /\ k \in Int /\ i \in Nat
    <3>1. i \in Nat /\ o <= i /\ i <= f + Len(b) - 1
      BY <1>1
    <3>2. c + Len(new) = f + Len(b) - o
      BY <1>1, <1>3, <1>40, <1>8
    <3> QED
      BY <1>1, <3>1, <3>2
  <2>2. (i > o /\ i >= f) <=> k > c
    BY <1>9, <2>1
  <2>3. k - c + (m - f) = i - f + 1
    BY <1>1, <1>3, <1>8, <2>1
  <2> HIDE DEF k
  <2>4. r[k] = IF k <= c THEN es[k] ELSE new[k - c]
    BY <1>11, <2>1
  <2>5. CASE k <= c
    <3>1. ~(i > o /\ i >= f)
      BY <1>8, <2>1, <2>2, <2>5
    <3> QED
      BY <2>4, <2>5, <3>1, Zenon DEF k
  <2>6. CASE k > c
    <3>1. (i > o /\ i >= f) /\ ~(k <= c)
      BY <1>8, <2>1, <2>2, <2>6
    <3>2. k - c \in 1..Len(new)
      BY <1>8, <1>1, <1>3, <1>40, <2>1, <2>6
    <3>3. new[k - c] = b[k - c + (m - f)]
      BY <1>5, <3>2, Zenon
    <3>4. r[k] = b[i - f + 1]
      BY <2>3, <2>4, <3>1, <3>3, Zenon
    <3> QED
      BY <3>1, <3>4, Zenon DEF k
  <2> QED
    BY <1>8, <2>1, <2>5, <2>6
<1>15. ConsecutiveFrom(r, o)
  <2> SUFFICES ASSUME NEW k \in 1..f + Len(b) - o
               PROVE  r[k].index = o + k - 1
    BY <1>12 DEF ConsecutiveFrom
  <2> DEFINE i == o + k - 1
  <2>1. i \in o..f + Len(b) - 1 /\ i - o + 1 = k
    BY <1>1
  <2>2. r[i - o + 1] = IF i > o /\ i >= f THEN b[i - f + 1] ELSE es[i - o + 1]
    BY <1>14, <2>1
  <2>3. CASE i > o /\ i >= f
    <3>1. i - f + 1 \in 1..Len(b) /\ f + (i - f + 1) - 1 = i
      BY <1>1, <2>1, <2>3
    <3>2. b[i - f + 1].index = f + (i - f + 1) - 1
      BY <1>2, <3>1 DEF ConsecutiveFrom
    <3> QED
      BY <2>1, <2>2, <2>3, <3>1, <3>2
  <2>4. CASE ~(i > o /\ i >= f)
    <3>1. k \in 1..Len(es)
      BY <1>1, <1>2, <2>1, <2>4
    <3>2. es[k].index = o + k - 1
      BY <1>2, <3>1 DEF ConsecutiveFrom
    <3> QED
      BY <2>1, <2>2, <2>4, <3>2
  <2> QED
    BY <2>3, <2>4
<1> QED
  BY <1>7, <1>10, <1>12, <1>13, <1>14, <1>15 DEF o, f, r

\* Compact keeps the entries from the compacted one on.
LEMMA CompactedProps ==
  ASSUME NEW es \in Seq(Entry), Len(es) >= 1, ConsecutiveFrom(es, Offset(es)),
         NEW c \in Nat, Offset(es) <= c, c <= LastIndex(es)
  PROVE  /\ Compacted(es, c) \in Seq(Entry)
         /\ Len(Compacted(es, c)) = LastIndex(es) - c + 1
         /\ Compacted(es, c)[1].index = c
         /\ ConsecutiveFrom(Compacted(es, c), c)
         /\ \A i \in c..LastIndex(es) :
              Compacted(es, c)[i - c + 1] = es[i - Offset(es) + 1]
<1> DEFINE o == Offset(es)
           r == Compacted(es, c)
           d == c - o
<1>1. /\ o \in Nat /\ Len(es) \in Nat /\ LastIndex(es) = o + Len(es) - 1
      /\ ConsecutiveFrom(es, o) /\ o <= c
  BY EntryTypes DEF LastIndex, Offset
<1>2. r = SubSeq(es, d + 1, Len(es))
  BY DEF Compacted
<1> HIDE DEF o, r
<1>3. d \in 0..Len(es) /\ c = o + d /\ d < Len(es)
  BY <1>1
<1> HIDE DEF d
<1>4. /\ r \in Seq(Entry) /\ Len(r) = Len(es) - d
      /\ \A k \in 1..Len(es) - d : r[k] = es[k + d]
  BY <1>2, <1>3, Suffix
<1>5. \A k \in 1..Len(r) : r[k].index = c + k - 1
  <2> SUFFICES ASSUME NEW k \in 1..Len(es) - d PROVE r[k].index = c + k - 1
    BY <1>4
  <2>1. k + d \in 1..Len(es) /\ o + (k + d) - 1 = c + k - 1
    BY <1>1, <1>3
  <2>2. es[k + d].index = o + (k + d) - 1
    BY <1>1, <2>1 DEF ConsecutiveFrom
  <2>3. r[k] = es[k + d]
    BY <1>4
  <2> QED
    BY <2>1, <2>2, <2>3
<1>6. r[1].index = c
  <2>1. 1 \in 1..Len(r) /\ c + 1 - 1 = c
    BY <1>1, <1>3, <1>4
  <2> QED
    BY <2>1, <1>5, Zenon
<1>7. \A i \in c..LastIndex(es) : r[i - c + 1] = es[i - o + 1]
  <2> TAKE i \in c..LastIndex(es)
  <2>1. i - c + 1 \in 1..Len(es) - d /\ i - c + 1 + d = i - o + 1
    BY <1>1, <1>3
  <2> QED
    BY <2>1, <1>4
<1>8. Len(r) = LastIndex(es) - c + 1
  BY <1>1, <1>3, <1>4
<1> QED
  BY <1>4, <1>5, <1>6, <1>7, <1>8 DEF o, r, ConsecutiveFrom

\* The slices append is called with are non-empty and consecutive.
LEMMA BatchProps ==
  ASSUME NEW b \in Batches
  PROVE  /\ b \in Seq(Entry) /\ Len(b) \in Nat /\ Len(b) >= 1 /\ b # <<>>
         /\ b[1].index \in Nat /\ b[1].index >= 1
         /\ ConsecutiveFrom(b, b[1].index)
<1>0. PICK i \in 1..MaxIndex, t \in TermSeqs : b = Batch(i, t)
  BY DEF Batches
<1>1. PICK n \in 1..MaxBatch : t \in [1..n -> 1..MaxTerm]
  BY DEF TermSeqs
<1>2. MaxIndex \in Nat /\ MaxTerm \in Nat /\ MaxBatch \in Nat
  BY StorageBounds
<1>3. n \in Nat /\ n >= 1 /\ i \in Nat /\ i >= 1
  BY <1>2
<1>4. t \in Seq(1..MaxTerm) /\ Len(t) = n
  BY <1>1, <1>3, <1>2
<1>5. b = [k \in 1..n |-> [index |-> i + k - 1, term |-> t[k]]]
  BY <1>0, <1>4 DEF Batch
<1>6. b \in [1..n -> Entry]
  BY <1>1, <1>5, <1>3, <1>2 DEF Entry
<1>7. b \in Seq(Entry) /\ Len(b) = n
  BY <1>6, <1>3
<1>8. b[1].index = i
  BY <1>5, <1>3
<1>9. ConsecutiveFrom(b, b[1].index)
  BY <1>5, <1>7, <1>8, <1>3 DEF ConsecutiveFrom
<1> QED
  BY <1>3, <1>7, <1>8, <1>9

-----------------------------------------------------------------------------
\* The same facts in terms of contiguous slices.

\* A contiguous slice spans Offset..LastIndex.
LEMMA ContiguousProps ==
  ASSUME NEW es, Contiguous(es)
  PROVE  /\ es \in Seq(Entry) /\ Len(es) \in Nat /\ Len(es) >= 1 /\ es # <<>>
         /\ Offset(es) \in Nat /\ LastIndex(es) \in Nat /\ Offset(es) <= LastIndex(es)
         /\ Len(es) = LastIndex(es) - Offset(es) + 1
         /\ es[1].index = Offset(es)
         /\ es[Len(es)].index = LastIndex(es)
         /\ es[Len(es)].term = TermAt(es, LastIndex(es))
<1>1. es \in Seq(Entry) /\ Len(es) >= 1 /\ ConsecutiveFrom(es, Offset(es))
  BY DEF Contiguous
<1>2. Len(es) \in Nat /\ Offset(es) \in Nat /\ es[1].index = Offset(es)
  BY <1>1, EntryTypes DEF Offset
<1>3. LastIndex(es) = Offset(es) + Len(es) - 1
  BY DEF LastIndex, Offset
<1>4. LastIndex(es) \in Nat /\ Offset(es) <= LastIndex(es)
  BY <1>1, <1>2, <1>3
<1>5. Len(es) = LastIndex(es) - Offset(es) + 1
  BY <1>2, <1>3
<1>6. es[Len(es)].index = LastIndex(es)
  <2>1. Len(es) \in 1..Len(es)
    BY <1>1, <1>2
  <2> QED
    BY <1>1, <1>3, <2>1 DEF ConsecutiveFrom
<1>7. es[Len(es)].term = TermAt(es, LastIndex(es))
  BY <1>5 DEF TermAt
<1>8. es # <<>>
  BY <1>1
<1> QED
  BY <1>1, <1>2, <1>4, <1>5, <1>6, <1>7, <1>8

\* The batches of the callers are contiguous and start at 1 or later.
LEMMA BatchContiguous ==
  ASSUME NEW b \in Batches
  PROVE  Contiguous(b) /\ Offset(b) \in Nat /\ Offset(b) >= 1
  BY BatchProps DEF Contiguous, Offset

\* Append keeps ents contiguous; its terms are those of the batch where the
\* batch reaches above the dummy entry.
LEMMA AppendedContiguous ==
  ASSUME NEW es, Contiguous(es), NEW b, Contiguous(b),
         Offset(b) <= LastIndex(es) + 1, LastIndex(b) > Offset(es)
  PROVE  /\ Contiguous(Appended(es, b))
         /\ Offset(Appended(es, b)) = Offset(es)
         /\ LastIndex(Appended(es, b)) = LastIndex(b)
         /\ \A i \in Offset(es)..LastIndex(b) :
              TermAt(Appended(es, b), i) =
                IF i > Offset(es) /\ i >= Offset(b) THEN TermAt(b, i) ELSE TermAt(es, i)
         /\ AppendOutcome(es, b) = "nil"
<1> DEFINE r == Appended(es, b)
<1>1. /\ es \in Seq(Entry) /\ Len(es) >= 1 /\ ConsecutiveFrom(es, Offset(es))
      /\ b \in Seq(Entry) /\ Len(b) >= 1 /\ ConsecutiveFrom(b, b[1].index)
  BY DEF Contiguous, Offset
<1>2. /\ Offset(b) = b[1].index /\ LastIndex(b) = b[1].index + Len(b) - 1
      /\ Offset(r) = r[1].index /\ Offset(es) = es[1].index
      /\ LastIndex(r) = r[1].index + Len(r) - 1
  BY DEF Offset, LastIndex
<1>3. Offset(b) \in Nat /\ Len(b) \in Nat /\ Offset(es) \in Nat
  BY ContiguousProps
<1>4. b[1].index <= LastIndex(es) + 1 /\ b[1].index + Len(b) - 1 > Offset(es)
  BY <1>2
<1>5. /\ r \in Seq(Entry) /\ Len(r) = b[1].index + Len(b) - Offset(es)
      /\ r[1] = es[1] /\ ConsecutiveFrom(r, Offset(es)) /\ AppendOutcome(es, b) = "nil"
  BY <1>1, <1>4, AppendedProps
<1>6. \A i \in Offset(es)..b[1].index + Len(b) - 1 :
        r[i - Offset(es) + 1] = IF i > Offset(es) /\ i >= b[1].index
                                THEN b[i - b[1].index + 1] ELSE es[i - Offset(es) + 1]
  BY <1>1, <1>4, AppendedProps
<1> HIDE DEF r
<1>7. Offset(r) = Offset(es)
  BY <1>2, <1>5
<1>8. Len(r) = Offset(b) + Len(b) - Offset(es) /\ LastIndex(r) = Offset(es) + Len(r) - 1
  BY <1>2, <1>5, <1>7
<1>9. LastIndex(r) = LastIndex(b) /\ Len(r) >= 1
  <2>1. LastIndex(b) = Offset(b) + Len(b) - 1
    BY <1>2
  <2> QED
    BY <1>3, <1>8, <2>1
<1>10. \A i \in Offset(es)..LastIndex(b) :
         TermAt(r, i) = IF i > Offset(es) /\ i >= Offset(b)
                        THEN TermAt(b, i) ELSE TermAt(es, i)
  <2> TAKE i \in Offset(es)..LastIndex(b)
  <2>1. r[i - Offset(es) + 1] = IF i > Offset(es) /\ i >= Offset(b)
                                THEN b[i - Offset(b) + 1] ELSE es[i - Offset(es) + 1]
    <3>1. i \in Offset(es)..b[1].index + Len(b) - 1
      BY <1>2
    <3>2. r[i - Offset(es) + 1] = IF i > Offset(es) /\ i >= b[1].index
                                  THEN b[i - b[1].index + 1] ELSE es[i - Offset(es) + 1]
      BY <1>6, <3>1, Zenon
    <3>3. Offset(b) = b[1].index
      BY DEF Offset
    <3> QED
      BY <3>2, <3>3, Zenon
  <2> QED
    BY <1>7, <2>1, Zenon DEF TermAt
<1>11. Contiguous(r)
  BY <1>5, <1>7, <1>9 DEF Contiguous
<1> QED
  BY <1>5, <1>7, <1>9, <1>10, <1>11 DEF r

\* Compact keeps ents contiguous and the terms from the compacted entry on.
LEMMA CompactedContiguous ==
  ASSUME NEW es, Contiguous(es), NEW c \in Nat, Offset(es) <= c, c <= LastIndex(es)
  PROVE  /\ Contiguous(Compacted(es, c))
         /\ Offset(Compacted(es, c)) = c
         /\ LastIndex(Compacted(es, c)) = LastIndex(es)
         /\ \A i \in c..LastIndex(es) : TermAt(Compacted(es, c), i) = TermAt(es, i)
<1> DEFINE r == Compacted(es, c)
<1>1. es \in Seq(Entry) /\ Len(es) >= 1 /\ ConsecutiveFrom(es, Offset(es))
  BY DEF Contiguous
<1>2. /\ r \in Seq(Entry) /\ Len(r) = LastIndex(es) - c + 1
      /\ r[1].index = c /\ ConsecutiveFrom(r, c)
  BY <1>1, CompactedProps
<1>3. \A i \in c..LastIndex(es) : r[i - c + 1] = es[i - Offset(es) + 1]
  BY <1>1, CompactedProps
<1> HIDE DEF r
<1>4. LastIndex(es) \in Nat
  BY ContiguousProps
<1>5. Offset(r) = c
  BY <1>2 DEF Offset
<1>6. LastIndex(r) = c + Len(r) - 1 /\ Len(r) = LastIndex(es) - c + 1
  BY <1>2 DEF LastIndex
<1>7. LastIndex(r) = LastIndex(es) /\ Len(r) >= 1
  BY <1>4, <1>6
<1>8. Contiguous(r)
  BY <1>2, <1>5, <1>7 DEF Contiguous
<1>9. \A i \in c..LastIndex(es) : TermAt(r, i) = TermAt(es, i)
  BY <1>3, <1>5, Zenon DEF TermAt
<1> QED
  BY <1>5, <1>7, <1>8, <1>9 DEF r

\* An Append that ends at or below the dummy entry, or that fits, does not panic
\* and keeps ents contiguous.
LEMMA AppendKeepsContiguous ==
  ASSUME NEW es, Contiguous(es), NEW b, Contiguous(b), AppendOutcome(es, b) = "nil"
  PROVE  /\ Contiguous(Appended(es, b)) /\ Offset(Appended(es, b)) = Offset(es)
<1>1. /\ Offset(es) \in Nat /\ LastIndex(es) \in Nat
      /\ Offset(b) \in Nat /\ LastIndex(b) \in Nat
  BY ContiguousProps
<1>2. FirstIndex(es) = Offset(es) + 1 /\ b[1].index + Len(b) - 1 = LastIndex(b)
      /\ b[1].index = Offset(b)
  BY DEF FirstIndex, Offset, LastIndex
<1>3. CASE LastIndex(b) < FirstIndex(es)
  <2>1. Appended(es, b) = es
    BY <1>2, <1>3 DEF Appended
  <2> QED
    BY <2>1
<1>4. CASE ~(LastIndex(b) < FirstIndex(es))
  <2>1. LastIndex(b) >= FirstIndex(es)
    BY <1>1, <1>2, <1>4
  <2>2. ~(Offset(b) > LastIndex(es) + 1)
    <3> SUFFICES ASSUME Offset(b) > LastIndex(es) + 1 PROVE FALSE
      OBVIOUS
    <3>1. b[1].index + Len(b) - 1 >= FirstIndex(es) /\ b[1].index > LastIndex(es) + 1
      BY <1>2, <2>1
    <3>2. AppendOutcome(es, b) = "panic"
      BY <3>1, Zenon DEF AppendOutcome
    <3> QED
      BY <3>2
  <2>3. Offset(b) <= LastIndex(es) + 1 /\ LastIndex(b) > Offset(es)
    BY <1>1, <1>2, <2>1, <2>2
  <2> QED
    BY <2>3, AppendedContiguous
<1> QED
  BY <1>3, <1>4

-----------------------------------------------------------------------------
\* Theorems about the storage.

StorageInv == StorageTypeOK /\ Contiguous(ents)

\* Every method keeps ents contiguous and everything well typed, and none moves
\* the dummy entry back unless the client compacted past its snapshot.
LEMMA StorageStep ==
  ASSUME StorageInv, [StorageNext]_storageVars
  PROVE  StorageInv' /\ (Offset(ents) <= snapshot.index => Offset(ents') >= Offset(ents))
<1> USE DEF Errors
<1>1. /\ Contiguous(ents) /\ snapshot \in Entry /\ hardState \in HardStates
      /\ err \in Errors
  BY DEF StorageInv, StorageTypeOK
<1>2. Offset(ents) \in Nat /\ LastIndex(ents) \in Nat
  BY <1>1, ContiguousProps
<1>3. snapshot.index \in Nat
  BY <1>1 DEF Entry
<1>4. SUFFICES /\ Contiguous(ents') /\ snapshot' \in Entry /\ hardState' \in HardStates
               /\ err' \in Errors
               /\ (Offset(ents) <= snapshot.index => Offset(ents') >= Offset(ents))
  BY DEF StorageInv, StorageTypeOK, Contiguous
<1>5. ASSUME NEW h \in HardStates, SetHardState(h)
      PROVE  /\ Contiguous(ents') /\ snapshot' \in Entry /\ hardState' \in HardStates
             /\ err' \in Errors /\ Offset(ents') >= Offset(ents)
  <2>1. ents' = ents /\ snapshot' = snapshot /\ hardState' = h /\ err' = "nil"
    BY <1>5 DEF SetHardState
  <2> QED
    BY <1>1, <1>2, <2>1
<1>6. ASSUME NEW b \in Batches, StorageAppend(b)
      PROVE  /\ Contiguous(ents') /\ snapshot' \in Entry /\ hardState' \in HardStates
             /\ err' \in Errors /\ Offset(ents') >= Offset(ents)
  <2>1. /\ snapshot' = snapshot /\ hardState' = hardState /\ err' = AppendOutcome(ents, b)
        /\ ents' = IF err' = "nil" THEN Appended(ents, b) ELSE ents
    BY <1>6 DEF StorageAppend
  <2>2. err' \in Errors
    BY <2>1 DEF AppendOutcome
  <2>3. Contiguous(b)
    BY BatchContiguous
  <2>4. Contiguous(ents') /\ Offset(ents') = Offset(ents)
    BY <1>1, <2>1, <2>3, AppendKeepsContiguous
  <2> QED
    BY <1>1, <1>2, <2>1, <2>2, <2>4
<1>7. ASSUME NEW i \in Index, Compact(i)
      PROVE  /\ Contiguous(ents') /\ snapshot' \in Entry /\ hardState' \in HardStates
             /\ err' \in Errors /\ Offset(ents') >= Offset(ents)
  <2>1. /\ snapshot' = snapshot /\ hardState' = hardState /\ err' = CompactOutcome(ents, i)
        /\ ents' = IF err' = "nil" THEN Compacted(ents, i) ELSE ents
    BY <1>7 DEF Compact
  <2>2. err' \in Errors
    BY <2>1 DEF CompactOutcome
  <2>3. i \in Nat
    BY StorageBounds DEF Index
  <2>4. CASE err' = "nil"
    <3>1. Offset(ents) <= i /\ i <= LastIndex(ents)
      BY <1>2, <2>1, <2>3, <2>4 DEF CompactOutcome
    <3>2. Contiguous(ents') /\ Offset(ents') = i
      BY <1>1, <2>1, <2>3, <2>4, <3>1, CompactedContiguous
    <3> QED
      BY <1>1, <1>2, <2>1, <2>2, <2>3, <3>1, <3>2
  <2>5. CASE err' # "nil"
    BY <1>1, <1>2, <2>1, <2>2, <2>5
  <2> QED
    BY <2>4, <2>5
<1>8. ASSUME NEW i \in Index, CreateSnapshot(i)
      PROVE  /\ Contiguous(ents') /\ snapshot' \in Entry /\ hardState' \in HardStates
             /\ err' \in Errors /\ Offset(ents') >= Offset(ents)
  <2>1. /\ ents' = ents /\ hardState' = hardState
        /\ err' = CreateSnapshotOutcome(ents, snapshot, i)
        /\ snapshot' = IF err' = "nil"
                       THEN [index |-> i, term |-> ents[i - Offset(ents) + 1].term]
                       ELSE snapshot
    BY <1>8 DEF CreateSnapshot
  <2>2. err' \in Errors
    BY <2>1 DEF CreateSnapshotOutcome
  <2>3. i \in Nat
    BY StorageBounds DEF Index
  <2>4. CASE err' = "nil"
    <3>1. i <= LastIndex(ents) /\ Offset(ents) <= i
      BY <1>2, <1>3, <2>1, <2>3, <2>4 DEF CreateSnapshotOutcome
    <3>2. ents \in Seq(Entry) /\ Len(ents) = LastIndex(ents) - Offset(ents) + 1
      BY <1>1, ContiguousProps
    <3>3. i - Offset(ents) + 1 \in 1..Len(ents)
      BY <1>2, <2>3, <3>1, <3>2
    <3>4. ents[i - Offset(ents) + 1] \in Entry
      BY <3>2, <3>3
    <3>5. ents[i - Offset(ents) + 1].term \in Nat
      BY <3>4 DEF Entry
    <3>6. snapshot' \in Entry
      BY <2>1, <2>3, <2>4, <3>5 DEF Entry
    <3> QED
      BY <1>1, <1>2, <2>1, <2>2, <3>6
  <2>5. CASE err' # "nil"
    BY <1>1, <1>2, <2>1, <2>2, <2>5
  <2> QED
    BY <2>4, <2>5
<1>9. ASSUME NEW i \in Index, NEW t \in 1..MaxTerm, ApplySnapshot([index |-> i, term |-> t])
      PROVE  /\ Contiguous(ents') /\ snapshot' \in Entry /\ hardState' \in HardStates
             /\ err' \in Errors
             /\ (Offset(ents) <= snapshot.index => Offset(ents') >= Offset(ents))
  <2> DEFINE snap == [index |-> i, term |-> t]
  <2>1. i \in Nat /\ t \in Nat
    BY StorageBounds DEF Index
  <2>2. /\ hardState' = hardState /\ err' = ApplySnapshotOutcome(snapshot, snap)
        /\ IF err' = "nil" THEN snapshot' = snap /\ ents' = <<snap>>
           ELSE ents' = ents /\ snapshot' = snapshot
    BY <1>9 DEF ApplySnapshot
  <2>3. err' \in Errors
    BY <2>2 DEF ApplySnapshotOutcome
  <2>4. CASE err' = "nil"
    <3>1. snap \in Entry /\ snap.index = i
      BY <2>1 DEF Entry
    <3>2. ~(snapshot.index >= snap.index)
      BY <2>2, <2>4 DEF ApplySnapshotOutcome
    <3>3. i > snapshot.index
      BY <1>3, <2>1, <3>1, <3>2
    <3> HIDE DEF snap
    <3>4. ents' \in Seq(Entry) /\ Len(ents') = 1 /\ ents'[1] = snap
      BY <2>2, <2>4, <3>1
    <3>5. Offset(ents') = i
      BY <3>1, <3>4 DEF Offset
    <3>6. ConsecutiveFrom(ents', i)
      BY <2>1, <3>1, <3>4 DEF ConsecutiveFrom
    <3>7. Contiguous(ents')
      BY <3>4, <3>5, <3>6 DEF Contiguous
    <3> QED
      BY <1>1, <1>2, <1>3, <2>1, <2>2, <2>3, <2>4, <3>1, <3>3, <3>5, <3>7
  <2>5. CASE err' # "nil"
    BY <1>1, <1>2, <2>2, <2>3, <2>5
  <2> QED
    BY <2>4, <2>5
<1>10. CASE UNCHANGED storageVars
  BY <1>1, <1>2, <1>10 DEF storageVars
<1> QED
  BY <1>5, <1>6, <1>7, <1>8, <1>9, <1>10, Zenon DEF StorageNext

\* Type correctness of storage.go's fields, and contiguity of the stored entries.
THEOREM StorageInvariant == StorageSpec => []StorageInv
<1>1. NewMemoryStorage => StorageInv
  <2> SUFFICES ASSUME NewMemoryStorage PROVE StorageInv
    OBVIOUS
  <2>1. /\ ents \in Seq(Entry) /\ Len(ents) = 1 /\ ents[1] = [index |-> 0, term |-> 0]
        /\ snapshot \in Entry
    BY DEF NewMemoryStorage, Entry
  <2>2. Offset(ents) = 0
    BY <2>1 DEF Offset
  <2>3. ConsecutiveFrom(ents, 0)
    BY <2>1 DEF ConsecutiveFrom
  <2>4. hardState \in HardStates /\ err \in Errors
    BY StorageBounds DEF NewMemoryStorage, Errors
  <2> QED
    BY <2>1, <2>2, <2>3, <2>4 DEF StorageInv, StorageTypeOK, Contiguous
<1>2. StorageInv /\ [StorageNext]_storageVars => StorageInv'
  BY StorageStep
<1> QED
  BY <1>1, <1>2, PTL DEF StorageSpec

\* The type invariant of the storage, for every value of the constants.
THEOREM StorageTypeCorrect == StorageSpec => []StorageTypeOK
<1>1. StorageInv => StorageTypeOK
  BY DEF StorageInv
<1> QED
  BY <1>1, StorageInvariant, PTL

\* FirstIndex never moves back for a client that does not compact past its
\* snapshot, although Compact and ApplySnapshot both move it.
THEOREM FirstIndexNeverMovesBack == StorageSpec => FirstIndexMonotone
<1>1. StorageInv /\ [StorageNext]_storageVars =>
        [Offset(ents) <= snapshot.index => Offset(ents') >= Offset(ents)]_storageVars
  BY StorageStep
<1> QED
  BY <1>1, StorageInvariant, PTL DEF StorageSpec, FirstIndexMonotone

-----------------------------------------------------------------------------
\* What Entries returns.

\* limitSize: a non-empty prefix, and all of it if the limit allows.
LEMMA LimitSizeProps ==
  ASSUME NEW S, NEW s \in Seq(S), s # <<>>, NEW max \in Nat
  PROVE  /\ LimitSize(s, max) \in Seq(S)
         /\ Len(LimitSize(s, max)) \in 1..Len(s)
         /\ max >= Len(s) => Len(LimitSize(s, max)) = Len(s)
         /\ \A k \in 1..Len(LimitSize(s, max)) : LimitSize(s, max)[k] = s[k]
<1> DEFINE c == Max2(1, Min2(max, Len(s)))
<1>1. Len(s) \in Nat /\ Len(s) >= 1
  OBVIOUS
<1>2. c \in 1..Len(s) /\ (max >= Len(s) => c = Len(s))
  BY <1>1 DEF Max2, Min2
<1>3. LimitSize(s, max) = SubSeq(s, 1, c)
  BY Zenon DEF LimitSize
<1> HIDE DEF c
<1>4. /\ SubSeq(s, 1, c) \in Seq(S) /\ Len(SubSeq(s, 1, c)) = c
      /\ \A k \in 1..c : SubSeq(s, 1, c)[k] = s[k]
  BY <1>1, <1>2, Prefix
<1> QED
  BY <1>2, <1>3, <1>4

\* Entries of a contiguous slice: the range asked for, or a prefix of it.
LEMMA EntriesProps ==
  ASSUME NEW es, Contiguous(es), NEW lo \in Nat, NEW hi \in Nat, NEW max \in Nat,
         Offset(es) < lo, lo < hi, hi <= LastIndex(es) + 1
  PROVE  LET r == StorageEntries(es, lo, hi, max)
         IN  /\ r.err = "nil" /\ r.ents \in Seq(Entry)
             /\ Len(r.ents) \in 1..hi - lo
             /\ max >= hi - lo => Len(r.ents) = hi - lo
             /\ \A k \in 1..Len(r.ents) :
                  /\ r.ents[k].index = lo + k - 1
                  /\ r.ents[k].term = TermAt(es, lo + k - 1)
<1> DEFINE o == Offset(es)
           a == lo - o
           b == hi - o
           s == SubSeq(es, a + 1, b)
           e == LimitSize(s, max)
<1>1. /\ es \in Seq(Entry) /\ o \in Nat /\ Len(es) \in Nat /\ LastIndex(es) \in Nat
      /\ Len(es) = LastIndex(es) - o + 1
  BY ContiguousProps
<1>2. a \in Nat /\ b \in Nat /\ a < b /\ b <= Len(es) /\ Len(es) # 1
  BY <1>1
<1>3. StorageEntries(es, lo, hi, max) = [ents |-> e, err |-> "nil"]
  BY <1>1, <1>2 DEF StorageEntries
<1>4. b - a = hi - lo /\ a + o = lo
  BY <1>1
<1>5. \A j \in 1..Len(es) : es[j].index = o + j - 1
  BY DEF Contiguous, ConsecutiveFrom
<1> HIDE DEF o, a, b
<1>6. /\ s \in Seq(Entry) /\ s # <<>> /\ Len(s) = b - a
      /\ \A k \in 1..b - a : s[k] = es[k + a]
  <2>1. es \in Seq(Entry)
    BY <1>1
  <2>2. a \in Nat /\ b \in Nat /\ a < b /\ b <= Len(es)
    BY <1>2
  <2>3. Len(s) = b - a
    BY <2>1, <2>2
  <2>4. s \in Seq(Entry) /\ s # <<>>
    BY <2>1, <2>2, <2>3
  <2>5. \A k \in 1..b - a : s[k] = es[k + a]
    BY <2>1, <2>2, <2>3
  <2> QED
    BY <2>3, <2>4, <2>5
<1> HIDE DEF s
<1>7. /\ e \in Seq(Entry) /\ Len(e) \in 1..hi - lo /\ (max >= hi - lo => Len(e) = hi - lo)
      /\ \A k \in 1..Len(e) : e[k] = s[k]
  BY <1>4, <1>6, LimitSizeProps
<1> HIDE DEF e
<1>8. ASSUME NEW k \in 1..Len(e)
      PROVE  e[k].index = lo + k - 1 /\ e[k].term = TermAt(es, lo + k - 1)
  <2>1. k \in 1..b - a /\ e[k] = s[k]
    BY <1>4, <1>7
  <2>2. e[k] = es[k + a]
    BY <2>1, <1>6
  <2>3. k \in Nat /\ 1 <= k /\ k <= b - a
    BY <2>1, <1>2
  <2>4. k + a \in 1..Len(es)
    BY <2>3, <1>1, <1>2
  <2>5. es[k + a].index = o + (k + a) - 1
    BY <2>4, <1>5
  <2>6. o \in Nat /\ a \in Nat
    BY <1>1, <1>2
  <2>7. o + (k + a) - 1 = lo + k - 1 /\ k + a = (lo + k - 1) - o + 1
    BY <2>3, <2>6, <1>4
  <2> QED
    BY <2>2, <2>5, <2>7 DEF TermAt, o
<1> QED
  BY <1>3, <1>7, <1>8

\* Entries answers every legal range with the right entries, for every value of
\* the constants.
THEOREM EntriesAlwaysServed == StorageSpec => []EntriesServed
<1>1. StorageInv => EntriesServed
  <2> SUFFICES ASSUME StorageInv,
                      NEW lo \in FirstIndex(ents)..LastIndex(ents) + 1,
                      NEW hi \in FirstIndex(ents)..LastIndex(ents) + 1,
                      NEW max \in Index, lo < hi
               PROVE  LET r == StorageEntries(ents, lo, hi, max)
                      IN  /\ r.err = "nil"
                          /\ Len(r.ents) \in 1..hi - lo
                          /\ max >= hi - lo => Len(r.ents) = hi - lo
                          /\ \A k \in 1..Len(r.ents) :
                               /\ r.ents[k].index = lo + k - 1
                               /\ r.ents[k].term = StorageTerm(ents, lo + k - 1).term
    BY DEF EntriesServed
  <2> DEFINE r == StorageEntries(ents, lo, hi, max)
  <2>1. Contiguous(ents)
    BY DEF StorageInv
  <2>2. /\ Offset(ents) \in Nat /\ LastIndex(ents) \in Nat /\ Len(ents) \in Nat
        /\ Len(ents) = LastIndex(ents) - Offset(ents) + 1
    BY <2>1, ContiguousProps
  <2>3. max \in Nat /\ lo \in Nat /\ hi \in Nat /\ Offset(ents) < lo /\ hi <= LastIndex(ents) + 1
    <3>1. FirstIndex(ents) = Offset(ents) + 1
      BY DEF FirstIndex, Offset
    <3>2. max \in Nat
      BY StorageBounds DEF Index
    <3> QED
      BY <2>2, <3>1, <3>2
  <2>4. /\ r.err = "nil" /\ Len(r.ents) \in 1..hi - lo /\ (max >= hi - lo => Len(r.ents) = hi - lo)
        /\ \A k \in 1..Len(r.ents) : r.ents[k].index = lo + k - 1 /\ r.ents[k].term = TermAt(ents, lo + k - 1)
    BY <2>1, <2>3, EntriesProps
  <2>5. ASSUME NEW i \in Nat, Offset(ents) <= i, i <= LastIndex(ents)
        PROVE  StorageTerm(ents, i).term = TermAt(ents, i)
    BY <2>2, <2>5 DEF StorageTerm, TermAt
  <2> HIDE DEF r
  <2>6. \A k \in 1..Len(r.ents) : r.ents[k].term = StorageTerm(ents, lo + k - 1).term
    <3> SUFFICES ASSUME NEW k \in 1..Len(r.ents)
                 PROVE  r.ents[k].term = StorageTerm(ents, lo + k - 1).term
      OBVIOUS
    <3>1. k \in 1..hi - lo
      BY <2>3, <2>4
    <3>2. lo + k - 1 \in Nat /\ Offset(ents) <= lo + k - 1 /\ lo + k - 1 <= LastIndex(ents)
      BY <3>1, <2>2, <2>3
    <3> QED
      BY <3>2, <2>4, <2>5
  <2> QED
    BY <2>4, <2>6 DEF r
<1> QED
  BY <1>1, StorageInvariant, PTL

-----------------------------------------------------------------------------
\* What Append leaves behind.

\* Term of an index the slice holds.
LEMMA TermProps ==
  ASSUME NEW es, Contiguous(es), NEW i \in Offset(es)..LastIndex(es)
  PROVE  StorageTerm(es, i) = [term |-> TermAt(es, i), err |-> "nil"]
<1>1. /\ Offset(es) \in Nat /\ LastIndex(es) \in Nat /\ Len(es) \in Nat
      /\ Len(es) = LastIndex(es) - Offset(es) + 1
  BY ContiguousProps
<1>2. ~(i < Offset(es)) /\ ~(i - Offset(es) >= Len(es))
  BY <1>1
<1> QED
  BY <1>2 DEF StorageTerm, TermAt

\* Append: a step that takes the entries is the overlay the specification asks for.
LEMMA AppendStepOverlays ==
  ASSUME StorageInv, NEW b \in Batches, StorageAppend(b), err' = "nil"
  PROVE  LET last == b[1].index + Len(b) - 1
         IN  /\ Offset(ents') = Offset(ents)
             /\ LastIndex(ents') = IF last <= Offset(ents) THEN LastIndex(ents) ELSE last
             /\ \A i \in Offset(ents)..LastIndex(ents') :
                  StorageTerm(ents', i) =
                    IF i > Offset(ents) /\ i \in b[1].index..last
                    THEN [term |-> b[i - b[1].index + 1].term, err |-> "nil"]
                    ELSE StorageTerm(ents, i)
<1> DEFINE first == b[1].index
           last == b[1].index + Len(b) - 1
<1>1. Contiguous(ents) /\ Contiguous(b) /\ AppendOutcome(ents, b) = "nil" /\ ents' = Appended(ents, b)
  BY BatchContiguous DEF StorageInv, StorageAppend
<1>2. /\ Offset(ents) \in Nat /\ LastIndex(ents) \in Nat /\ Offset(b) \in Nat /\ LastIndex(b) \in Nat
      /\ Offset(ents) <= LastIndex(ents)
  BY <1>1, ContiguousProps
<1>3. FirstIndex(ents) = Offset(ents) + 1 /\ last = LastIndex(b) /\ first = Offset(b)
  BY DEF FirstIndex, Offset, LastIndex
<1>4. \A i : b[i - first + 1].term = TermAt(b, i)
  BY DEF TermAt, Offset
<1> HIDE DEF first, last
<1>5. CASE last <= Offset(ents)
  <2>1. Appended(ents, b) = ents
    <3>1. last < FirstIndex(ents)
      BY <1>2, <1>3, <1>5
    <3> QED
      BY <3>1 DEF Appended, last
  <2>2. \A i : ~(i > Offset(ents) /\ i \in first..last)
    BY <1>2, <1>3, <1>5
  <2> QED
    BY <1>1, <1>5, <2>1, <2>2 DEF first, last
<1>6. CASE ~(last <= Offset(ents))
  <2>1. LastIndex(b) > Offset(ents)
    BY <1>2, <1>3, <1>6
  <2>2. Offset(b) <= LastIndex(ents) + 1
    <3> SUFFICES ASSUME ~(Offset(b) <= LastIndex(ents) + 1) PROVE FALSE
      OBVIOUS
    <3>1. last >= FirstIndex(ents) /\ first > LastIndex(ents) + 1
      BY <1>2, <1>3, <2>1
    <3>2. AppendOutcome(ents, b) = "panic"
      BY <3>1, Zenon DEF AppendOutcome, first, last
    <3> QED
      BY <1>1, <3>2
  <2>3. /\ Contiguous(ents') /\ Offset(ents') = Offset(ents) /\ LastIndex(ents') = last
        /\ \A i \in Offset(ents)..last :
             TermAt(ents', i) = IF i > Offset(ents) /\ i >= first THEN TermAt(b, i) ELSE TermAt(ents, i)
    BY <1>1, <1>3, <2>1, <2>2, AppendedContiguous
  <2>4. ASSUME NEW i \in Offset(ents)..last
        PROVE  StorageTerm(ents', i) =
                 IF i > Offset(ents) /\ i \in first..last
                 THEN [term |-> b[i - first + 1].term, err |-> "nil"]
                 ELSE StorageTerm(ents, i)
    <3>1. StorageTerm(ents', i) = [term |-> TermAt(ents', i), err |-> "nil"]
      BY <2>3, TermProps
    <3>2. i \in Nat /\ i <= last /\ Offset(ents) <= i
      BY <1>2, <1>3
    <3>3. CASE i > Offset(ents) /\ i >= first
      <4>1. i \in first..last
        BY <1>2, <1>3, <3>2, <3>3
      <4> QED
        BY <1>4, <2>3, <3>1, <3>3, <4>1
    <3>4. CASE ~(i > Offset(ents) /\ i >= first)
      <4>1. ~(i > Offset(ents) /\ i \in first..last)
        BY <1>2, <1>3, <3>2, <3>4
      <4>2. i \in Offset(ents)..LastIndex(ents)
        BY <1>2, <1>3, <2>2, <3>2, <3>4
      <4>3. StorageTerm(ents, i) = [term |-> TermAt(ents, i), err |-> "nil"]
        BY <1>1, <4>2, TermProps
      <4> QED
        BY <2>3, <3>1, <3>4, <4>1, <4>3
    <3> QED
      BY <3>3, <3>4
  <2> QED
    BY <1>6, <2>3, <2>4 DEF first, last
<1> QED
  BY <1>5, <1>6

\* Append overlays the log with the batch and changes nothing else.
THEOREM AppendAlwaysOverlays == StorageSpec => AppendOverlays
<1> DEFINE Overlaid(b) ==
      LET last == b[1].index + Len(b) - 1
      IN  /\ Offset(ents') = Offset(ents)
          /\ LastIndex(ents') = IF last <= Offset(ents) THEN LastIndex(ents) ELSE last
          /\ \A i \in Offset(ents)..LastIndex(ents') :
               StorageTerm(ents', i) =
                 IF i > Offset(ents) /\ i \in b[1].index..last
                 THEN [term |-> b[i - b[1].index + 1].term, err |-> "nil"]
                 ELSE StorageTerm(ents, i)
<1>1. StorageInv => [\A batch \in Batches : StorageAppend(batch) /\ err' = "nil" => Overlaid(batch)]_storageVars
  BY AppendStepOverlays
<1> QED
  BY <1>1, StorageInvariant, PTL DEF AppendOverlays

=============================================================================
