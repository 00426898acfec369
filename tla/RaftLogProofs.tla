---------------------------- MODULE RaftLogProofs ----------------------------
(***************************************************************************)
(* Proofs about RaftLog, for every value of the constants: IndInv is an    *)
(* inductive invariant; type correctness, the absence of gaps, the         *)
(* immutability of committed entries, the absence of storage panics and    *)
(* what slice returns follow from it, and the log implements AbstractLog.  *)
(***************************************************************************)
EXTENDS RaftLog, MemoryStorageProofs

\* The leaves below may take longer than the default five seconds.
USE SMTT(60)

-----------------------------------------------------------------------------
\* Lemmas about states that satisfy IndInv.

\* Offsets and ends of the storage and of unstable.
LEMMA LogFacts ==
  ASSUME IndInv
  PROVE  /\ Contiguous(ents) /\ Offset(ents) \in Nat /\ LastIndex(ents) \in Nat
         /\ Offset(ents) <= LastIndex(ents)
         /\ First = Offset(ents) + 1
         /\ offset \in Nat /\ committed \in Nat /\ applied \in Nat
         /\ snapshot.index \in Nat /\ snapshot \in Entry /\ Last \in Nat
         /\ entries \in Seq(Entry) /\ Len(entries) \in Nat
         /\ entries = <<>> => Last = LastIndex(ents) /\ offset = LastIndex(ents) + 1
         /\ entries # <<>> => /\ Contiguous(entries) /\ Offset(entries) = offset
                              /\ Last = LastIndex(entries) /\ offset <= Last
                              /\ offset + Len(entries) - 1 = Last
<1>1. Contiguous(ents)
  BY DEF IndInv, Windows
<1>2. Offset(ents) \in Nat /\ LastIndex(ents) \in Nat /\ Offset(ents) <= LastIndex(ents)
  BY <1>1, ContiguousProps
<1>3. First = Offset(ents) + 1
  BY DEF First, FirstIndex, Offset
<1>4. /\ offset \in Nat /\ committed \in Nat /\ applied \in Nat
      /\ snapshot \in Entry /\ entries \in Seq(Entry)
  BY DEF IndInv, TypeOK, StorageTypeOK
<1>5. snapshot.index \in Nat
  BY <1>4 DEF Entry
<1>6. Len(entries) \in Nat
  BY <1>4
<1>7. CASE entries = <<>>
  <2>1. Last = LastIndex(ents)
    BY <1>7 DEF Last
  <2>2. offset = LastIndex(ents) + 1
    BY <1>7 DEF IndInv, Windows
  <2> QED
    BY <1>1, <1>2, <1>3, <1>4, <1>5, <1>6, <1>7, <2>1, <2>2
<1>8. CASE entries # <<>>
  <2>1. Contiguous(entries) /\ Offset(entries) = offset
    BY <1>8 DEF IndInv, Windows
  <2>2. Last = offset + Len(entries) - 1
    BY <1>8 DEF Last, UnstableLast
  <2>3. LastIndex(entries) = Offset(entries) + Len(entries) - 1
    BY DEF LastIndex, Offset
  <2>4. LastIndex(entries) \in Nat /\ Offset(entries) <= LastIndex(entries)
    BY <2>1, ContiguousProps
  <2> QED
    BY <1>1, <1>2, <1>3, <1>4, <1>5, <1>6, <1>8, <2>1, <2>2, <2>3, <2>4
<1> QED
  BY <1>7, <1>8

\* The order of the indices.
LEMMA OrderFacts ==
  ASSUME IndInv
  PROVE  /\ Offset(ents) <= snapshot.index /\ snapshot.index <= LastIndex(ents)
         /\ snapshot.index <= committed /\ applied <= committed /\ committed <= Last
         /\ 1 <= offset /\ offset <= LastIndex(ents) + 1
  BY DEF IndInv, Windows

\* What the application holds.
LEMMA HandedFacts ==
  ASSUME IndInv, held # "none"
  PROVE  /\ Contiguous(handed) /\ Offset(handed) \in Nat /\ LastIndex(handed) \in Nat
         /\ Offset(handed) <= LastIndex(handed) /\ entries # <<>>
         /\ offset <= Offset(handed) /\ committed <= LastIndex(handed)
         /\ handed[Len(handed)].index = LastIndex(handed)
         /\ handed[Len(handed)].term = TermAt(handed, LastIndex(handed))
         /\ Last = committed => handed = entries
         /\ held = "handed" => /\ Offset(handed) <= LastIndex(ents) + 1
                               /\ LastIndex(handed) > snapshot.index
         /\ held = "saved" => /\ LastIndex(ents) = LastIndex(handed)
                              /\ TermAt(ents, LastIndex(ents)) = TermAt(handed, LastIndex(ents))
<1>1. /\ Contiguous(handed) /\ entries # <<>>
      /\ offset <= Offset(handed) /\ committed <= LastIndex(handed)
      /\ Last = committed => handed = entries
      /\ held = "handed" => /\ Offset(handed) <= LastIndex(ents) + 1
                            /\ LastIndex(handed) > committed \/ LastIndex(ents) < committed
      /\ held = "saved" => /\ LastIndex(ents) = LastIndex(handed)
                           /\ TermAt(ents, LastIndex(ents)) = TermAt(handed, LastIndex(ents))
  BY DEF IndInv, HandedWindow
<1>2. /\ Offset(handed) \in Nat /\ LastIndex(handed) \in Nat
      /\ Offset(handed) <= LastIndex(handed)
      /\ handed[Len(handed)].index = LastIndex(handed)
      /\ handed[Len(handed)].term = TermAt(handed, LastIndex(handed))
  BY <1>1, ContiguousProps
<1>3. held = "handed" => LastIndex(handed) > snapshot.index
  <2>1. /\ snapshot.index \in Nat /\ committed \in Nat /\ LastIndex(ents) \in Nat
        /\ snapshot.index <= committed /\ snapshot.index <= LastIndex(ents)
    BY LogFacts, OrderFacts
  <2> QED
    BY <1>1, <1>2, <2>1
<1> QED
  BY <1>1, <1>2, <1>3

\* The log that is, or is about to be, in the storage.
LEMMA PersistedFacts ==
  ASSUME IndInv
  PROVE  /\ Contiguous(Persisted) /\ Offset(Persisted) = Offset(ents)
         /\ LastIndex(Persisted) \in Nat /\ snapshot.index <= LastIndex(Persisted)
         /\ held # "handed" => Persisted = ents
         /\ held = "handed" =>
              /\ Persisted = Appended(ents, handed) /\ AppendOutcome(ents, handed) = "nil"
              /\ LastIndex(Persisted) = LastIndex(handed)
              /\ \A i \in Offset(ents)..LastIndex(handed) :
                   TermAt(Persisted, i) =
                     IF i > Offset(ents) /\ i >= Offset(handed)
                     THEN TermAt(handed, i) ELSE TermAt(ents, i)
<1>1. /\ Contiguous(ents) /\ LastIndex(ents) \in Nat /\ Offset(ents) \in Nat
      /\ snapshot.index \in Nat
      /\ Offset(ents) <= snapshot.index /\ snapshot.index <= LastIndex(ents)
  BY LogFacts, OrderFacts
<1>2. CASE held # "handed"
  <2>1. Persisted = ents
    BY <1>2 DEF Persisted
  <2> QED
    BY <1>1, <1>2, <2>1
<1>3. CASE held = "handed"
  <2>1. /\ Contiguous(handed) /\ LastIndex(handed) \in Nat
        /\ Offset(handed) <= LastIndex(ents) + 1 /\ LastIndex(handed) > snapshot.index
    BY <1>3, HandedFacts
  <2>2. LastIndex(handed) > Offset(ents) /\ snapshot.index <= LastIndex(handed)
    BY <1>1, <2>1
  <2>3. Persisted = Appended(ents, handed)
    BY <1>3 DEF Persisted
  <2>4. /\ Contiguous(Persisted) /\ Offset(Persisted) = Offset(ents)
        /\ LastIndex(Persisted) = LastIndex(handed) /\ AppendOutcome(ents, handed) = "nil"
    BY <1>1, <2>1, <2>2, <2>3, AppendedContiguous
  <2>5. \A i \in Offset(ents)..LastIndex(handed) :
          TermAt(Persisted, i) = IF i > Offset(ents) /\ i >= Offset(handed)
                                 THEN TermAt(handed, i) ELSE TermAt(ents, i)
    BY <1>1, <2>1, <2>2, <2>3, AppendedContiguous
  <2> QED
    BY <1>3, <2>1, <2>2, <2>3, <2>4, <2>5
<1> QED
  BY <1>2, <1>3

\* raftLog.term answers for every index of the log, from the shadowing part.
LEMMA TermOfFacts ==
  ASSUME IndInv, NEW i \in Offset(ents)..Last
  PROVE  TermOf(i) = [term |-> ViewTerm(i), err |-> "nil"]
<1>1. /\ Contiguous(ents) /\ Offset(ents) \in Nat /\ LastIndex(ents) \in Nat
      /\ First = Offset(ents) + 1 /\ offset \in Nat /\ Last \in Nat
      /\ offset <= LastIndex(ents) + 1
  BY LogFacts, OrderFacts
<1>2. i \in Nat /\ Offset(ents) <= i /\ i <= Last
  BY <1>1
<1>3. ~(i < First - 1 \/ i > Last)
  BY <1>1, <1>2
<1>4. CASE entries # <<>> /\ i >= offset
  <2>1. HasUnstableTerm(i)
    BY <1>2, <1>4 DEF HasUnstableTerm, Last
  <2>2. Offset(entries) = offset
    BY <1>4, LogFacts
  <2>3. UnstableTerm(i) = ViewTerm(i)
    BY <1>4, <2>2 DEF UnstableTerm, ViewTerm, TermAt
  <2> QED
    BY <1>3, <2>1, <2>3 DEF TermOf
<1>5. CASE ~(entries # <<>> /\ i >= offset)
  <2>1. ~HasUnstableTerm(i)
    BY <1>5 DEF HasUnstableTerm
  <2>2. i <= LastIndex(ents)
    <3>1. CASE entries = <<>>
      BY <1>2, <3>1, LogFacts
    <3>2. CASE entries # <<>>
      BY <1>1, <1>2, <1>5, <3>2
    <3> QED
      BY <3>1, <3>2
  <2>3. Len(ents) \in Nat /\ Len(ents) = LastIndex(ents) - Offset(ents) + 1
    BY <1>1, ContiguousProps
  <2>4. ~(i < Offset(ents)) /\ ~(i - Offset(ents) >= Len(ents))
    BY <1>1, <1>2, <2>2, <2>3
  <2>5. StorageTerm(ents, i) = [term |-> TermAt(ents, i), err |-> "nil"]
    BY <2>4 DEF StorageTerm, TermAt
  <2>6. ViewTerm(i) = TermAt(ents, i)
    BY <1>5 DEF ViewTerm
  <2> QED
    BY <1>3, <2>1, <2>5, <2>6 DEF TermOf
<1> QED
  BY <1>4, <1>5

-----------------------------------------------------------------------------
\* Every action preserves IndInv.

\* A step that changes err only, such as a panic or a rejected Compact.
LEMMA OnlyErrKeeps ==
  ASSUME IndInv, err' \in Errors, UNCHANGED <<ents, snapshot, hardState, logVars>>
  PROVE  IndInv'
<1>1. /\ ents' = ents /\ snapshot' = snapshot /\ hardState' = hardState
      /\ offset' = offset /\ entries' = entries /\ committed' = committed
      /\ applied' = applied /\ handed' = handed /\ held' = held
  BY DEF logVars
<1>2. TypeOK'
  BY <1>1 DEF IndInv, TypeOK, StorageTypeOK
<1>3. Last' = Last
  BY <1>1 DEF Last, UnstableLast
<1>4. Persisted' = Persisted
  BY <1>1 DEF Persisted
<1>5. ASSUME NEW i PROVE ViewTerm(i)' = ViewTerm(i)
  BY <1>1 DEF ViewTerm
<1>6. Windows' /\ HandedWindow'
  BY <1>1, <1>3 DEF IndInv, Windows, HandedWindow
<1>7. AgreesOnCommitted(ents)' /\ AgreesOnCommitted(Persisted)'
  BY <1>1, <1>4, <1>5 DEF IndInv, AgreesOnCommitted
<1>8. MatchesLog(Persisted)'
  BY <1>1, <1>3, <1>4, <1>5 DEF IndInv, MatchesLog
<1>9. snapshot'.term = ViewTerm(snapshot.index)'
  BY <1>1 DEF IndInv, ViewTerm
<1> QED
  BY <1>2, <1>6, <1>7, <1>8, <1>9 DEF IndInv

\* truncateAndAppend: unstable becomes the batch, behind what it keeps.
LEMMA TruncateFacts ==
  ASSUME IndInv, NEW b \in Batches, TruncateOutcome(b) # "panic"
  PROVE  /\ Contiguous(TruncateAndAppend(b))
         /\ Offset(TruncateAndAppend(b)) = TruncatedOffset(b)
         /\ LastIndex(TruncateAndAppend(b)) = LastIndex(b)
         /\ TruncatedOffset(b) \in Nat /\ 1 <= TruncatedOffset(b)
         /\ TruncatedOffset(b) <= offset /\ TruncatedOffset(b) <= Offset(b)
         /\ \A i \in TruncatedOffset(b)..LastIndex(b) :
              IF i >= Offset(b) THEN TermAt(TruncateAndAppend(b), i) = TermAt(b, i)
              ELSE /\ entries # <<>> /\ i >= offset
                   /\ TermAt(TruncateAndAppend(b), i) = TermAt(entries, i)
<1> DEFINE r == TruncateAndAppend(b)
           f == Offset(b)
           g == LastIndex(b)
<1>1. /\ Contiguous(b) /\ f \in Nat /\ f >= 1 /\ g \in Nat /\ f <= g
  BY BatchContiguous, ContiguousProps
<1>2. b[1].index = f
  BY DEF Offset
<1>3. offset \in Nat /\ Len(entries) \in Nat /\ 1 <= offset
  BY LogFacts, OrderFacts
<1>4. f <= offset + Len(entries)
  BY <1>2 DEF TruncateOutcome
<1>5. TruncatedOffset(b) = Min2(offset, f)
  BY <1>2 DEF TruncatedOffset
<1>6. CASE f <= offset
  <2>1. TruncatedOffset(b) = f
    BY <1>1, <1>3, <1>5, <1>6 DEF Min2
  <2>2. r = b
    <3>1. CASE f = offset + Len(entries)
      <4>1. entries = <<>>
        <5>1. Len(entries) = 0
          BY <1>1, <1>3, <1>6, <3>1
        <5> QED
          BY <5>1, LogFacts
      <4>2. b \in Seq(Entry)
        BY <1>1, ContiguousProps
      <4>3. <<>> \o b = b
        BY <4>2
      <4> QED
        BY <1>2, <3>1, <4>1, <4>3 DEF TruncateAndAppend
    <3>2. CASE f # offset + Len(entries)
      BY <1>2, <1>6, <3>2 DEF TruncateAndAppend
    <3> QED
      BY <3>1, <3>2
  <2>3. \A i \in f..g : i >= f
    BY <1>1
  <2> HIDE DEF r, f, g
  <2> QED
    BY <1>1, <1>3, <1>6, <2>1, <2>2, <2>3 DEF r, f, g
<1>7. CASE offset < f
  <2>1. TruncatedOffset(b) = offset
    BY <1>1, <1>3, <1>5, <1>7 DEF Min2
  <2>2. entries # <<>>
    <3>1. Len(entries) # 0
      BY <1>1, <1>3, <1>4, <1>7
    <3> QED
      BY <3>1
  <2>3. /\ Contiguous(entries) /\ Offset(entries) = offset
        /\ offset + Len(entries) - 1 = LastIndex(entries)
        /\ entries \in Seq(Entry) /\ LastIndex(entries) \in Nat
    BY <2>2, LogFacts
  <2>4. Appended(entries, b) = SubSeq(entries, 1, f - offset) \o b
    <3>1. FirstIndex(entries) = offset + 1
      BY <2>3 DEF FirstIndex, Offset
    <3>2. ~(FirstIndex(entries) > b[1].index)
      BY <1>1, <1>2, <1>3, <1>7, <3>1
    <3>3. Uncompacted(entries, b) = b
      BY <3>2, ZenonT(60) DEF Uncompacted
    <3>4. b[1].index + Len(b) - 1 = g
      BY DEF LastIndex
    <3>5. ~(b[1].index + Len(b) - 1 < FirstIndex(entries))
      BY <1>1, <1>3, <1>7, <3>1, <3>4
    <3> QED
      BY <1>2, <2>3, <3>3, <3>5, ZenonT(60) DEF Appended
  <2>5. r = Appended(entries, b)
    <3>1. CASE f = offset + Len(entries)
      <4>1. f - offset = Len(entries)
        BY <1>1, <1>3, <3>1
      <4>2. SubSeq(entries, 1, Len(entries)) = entries
        BY <2>3
      <4>3. r = entries \o b
        BY <1>2, <3>1, Zenon DEF TruncateAndAppend
      <4> QED
        BY <2>4, <4>1, <4>2, <4>3, ZenonT(60)
    <3>2. CASE f # offset + Len(entries)
      <4>1. ~(f <= offset)
        BY <1>1, <1>3, <1>7
      <4>2. r = SubSeq(entries, offset - offset + 1, f - offset) \o b
        BY <1>2, <3>2, <4>1, ZenonT(60) DEF TruncateAndAppend, UnstableSlice
      <4>3. offset - offset + 1 = 1
        BY <1>3
      <4> QED
        BY <2>4, <4>2, <4>3, ZenonT(60)
    <3> QED
      BY <3>1, <3>2
  <2>6. Offset(b) <= LastIndex(entries) + 1 /\ LastIndex(b) > Offset(entries)
    BY <1>1, <1>3, <1>4, <1>7, <2>3
  <2>7. Contiguous(r) /\ Offset(r) = offset /\ LastIndex(r) = g
    BY <1>1, <2>3, <2>5, <2>6, AppendedContiguous
  <2>8. \A i \in offset..g :
          TermAt(r, i) = IF i > offset /\ i >= f THEN TermAt(b, i) ELSE TermAt(entries, i)
    BY <1>1, <2>3, <2>5, <2>6, AppendedContiguous
  <2>9. \A i \in offset..g : i >= offset /\ (i >= f => i > offset)
    BY <1>1, <1>3, <1>7
  <2> HIDE DEF r, f, g
  <2>10. \A i \in offset..g :
           IF i >= f THEN TermAt(r, i) = TermAt(b, i)
           ELSE entries # <<>> /\ i >= offset /\ TermAt(r, i) = TermAt(entries, i)
    BY <2>2, <2>8, <2>9, Zenon
  <2>11. 1 <= offset /\ offset <= offset /\ offset <= f
    BY <1>1, <1>3, <1>7
  <2> QED
    BY <1>3, <2>1, <2>7, <2>10, <2>11 DEF r, f, g
<1> QED
  BY <1>1, <1>3, <1>6, <1>7

\* A successful append, seen as a step of the one log.
Appends(b) ==
  /\ offset' = TruncatedOffset(b) /\ entries' = TruncateAndAppend(b)
  /\ err' = "nil" /\ LogMatching(b)
  /\ TruncateOutcome(b) # "panic" /\ ~(b[1].index - 1 < committed)
  /\ UNCHANGED <<ents, snapshot, hardState, committed, applied, handed, held>>

\* raftLog.append panics or appends.
LEMMA AppendCases ==
  ASSUME IndInv, NEW b \in Batches, RaftLogAppend(b)
  PROVE  Appends(b) \/ (err' = "panic" /\ UNCHANGED <<ents, snapshot, hardState, logVars>>)
  BY DEF RaftLogAppend, Appends, logVars

\* append replaces the log from the start of the batch on, above committed.
LEMMA AppendView ==
  ASSUME IndInv, NEW b \in Batches, Appends(b)
  PROVE  /\ Last' = LastIndex(b) /\ Last' \in Nat
         /\ Offset(b) \in Nat /\ committed < Offset(b) /\ Offset(b) <= Last + 1
         /\ Offset(b) <= LastIndex(b)
         /\ entries' # <<>> /\ Contiguous(entries')
         /\ offset' \in Nat /\ 1 <= offset' /\ offset' <= offset
         /\ Offset(entries') = offset'
         /\ \A i \in Offset(ents)..LastIndex(b) :
              ViewTerm(i)' = IF i >= Offset(b) THEN TermAt(b, i) ELSE ViewTerm(i)
<1>1. /\ ents' = ents /\ offset' = TruncatedOffset(b) /\ entries' = TruncateAndAppend(b)
      /\ TruncateOutcome(b) # "panic" /\ ~(b[1].index - 1 < committed)
  BY DEF Appends
<1>2. /\ Contiguous(entries') /\ Offset(entries') = offset' /\ LastIndex(entries') = LastIndex(b)
      /\ offset' \in Nat /\ 1 <= offset' /\ offset' <= offset /\ offset' <= Offset(b)
  BY <1>1, TruncateFacts
<1>3. \A i \in offset'..LastIndex(b) :
        IF i >= Offset(b) THEN TermAt(entries', i) = TermAt(b, i)
        ELSE entries # <<>> /\ i >= offset /\ TermAt(entries', i) = TermAt(entries, i)
  BY <1>1, TruncateFacts
<1>4. Contiguous(b) /\ Offset(b) \in Nat /\ LastIndex(b) \in Nat /\ Offset(b) <= LastIndex(b)
  BY BatchContiguous, ContiguousProps
<1>5. entries' # <<>> /\ Len(entries') \in Nat
      /\ Len(entries') = LastIndex(entries') - Offset(entries') + 1
  BY <1>2, ContiguousProps
<1>6. Last' = LastIndex(b)
  <2>1. Last' = offset' + Len(entries') - 1
    BY <1>5 DEF Last, UnstableLast
  <2> QED
    BY <1>2, <1>4, <1>5, <2>1
<1>7. committed < Offset(b)
  <2>1. ~(Offset(b) - 1 < committed)
    BY <1>1 DEF Offset
  <2> QED
    BY <1>4, <2>1, LogFacts
<1>8. Offset(b) <= Last + 1
  <2>1. Offset(b) <= offset + Len(entries)
    BY <1>1 DEF TruncateOutcome, Offset
  <2>2. offset + Len(entries) = Last + 1
    <3>1. CASE entries = <<>>
      <4>1. Len(entries) = 0
        BY <3>1
      <4> QED
        BY <3>1, <4>1, LogFacts
    <3>2. CASE entries # <<>>
      BY <3>2, LogFacts
    <3> QED
      BY <3>1, <3>2
  <2> QED
    BY <2>1, <2>2
<1>9. \A i \in Offset(ents)..LastIndex(b) :
        ViewTerm(i)' = IF i >= Offset(b) THEN TermAt(b, i) ELSE ViewTerm(i)
  <2> TAKE i \in Offset(ents)..LastIndex(b)
  <2>1. i \in Nat /\ i <= LastIndex(b)
    BY <1>4, LogFacts
  <2>2. CASE i >= offset'
    <3>1. i \in offset'..LastIndex(b)
      BY <1>2, <1>4, <2>1, <2>2
    <3>2. ViewTerm(i)' = TermAt(entries', i)
      BY <1>5, <2>2 DEF ViewTerm
    <3>3. CASE i >= Offset(b)
      BY <1>3, <3>1, <3>2, <3>3
    <3>4. CASE ~(i >= Offset(b))
      <4>1. entries # <<>> /\ i >= offset /\ TermAt(entries', i) = TermAt(entries, i)
        BY <1>3, <3>1, <3>4
      <4> QED
        BY <3>2, <3>4, <4>1 DEF ViewTerm
    <3> QED
      BY <3>3, <3>4
  <2>3. CASE ~(i >= offset')
    <3>1. ~(i >= Offset(b)) /\ ~(i >= offset)
      BY <1>2, <1>4, <2>1, <2>3, LogFacts
    <3>2. ViewTerm(i)' = TermAt(ents, i)
      BY <1>1, <2>3 DEF ViewTerm
    <3> QED
      BY <3>1, <3>2 DEF ViewTerm
  <2> QED
    BY <2>2, <2>3
<1> QED
  BY <1>2, <1>4, <1>5, <1>6, <1>7, <1>8, <1>9

\* raftLog.append preserves the invariant: what it replaces lies above committed.
LEMMA AppendKeeps ==
  ASSUME IndInv, NEW b \in Batches, Appends(b)
  PROVE  IndInv'
<1>1. /\ ents' = ents /\ snapshot' = snapshot /\ hardState' = hardState
      /\ committed' = committed /\ applied' = applied /\ handed' = handed /\ held' = held
      /\ err' = "nil"
  BY DEF Appends
<1>2. /\ Last' = LastIndex(b) /\ Last' \in Nat
      /\ Offset(b) \in Nat /\ committed < Offset(b) /\ Offset(b) <= LastIndex(b)
      /\ entries' # <<>> /\ Contiguous(entries')
      /\ offset' \in Nat /\ 1 <= offset' /\ offset' <= offset /\ Offset(entries') = offset'
  BY AppendView
<1>3. \A i \in Offset(ents)..LastIndex(b) :
        ViewTerm(i)' = IF i >= Offset(b) THEN TermAt(b, i) ELSE ViewTerm(i)
  BY AppendView
<1>4. /\ Offset(ents) \in Nat /\ LastIndex(ents) \in Nat /\ offset \in Nat
      /\ committed \in Nat /\ snapshot.index \in Nat
      /\ Offset(ents) <= snapshot.index /\ snapshot.index <= committed
      /\ offset <= LastIndex(ents) + 1
  BY LogFacts, OrderFacts
<1>5. committed < Last'
  BY <1>2, <1>4
<1>6. \A i \in Offset(ents)..committed : ViewTerm(i)' = ViewTerm(i)
  <2> TAKE i \in Offset(ents)..committed
  <2>1. i \in Offset(ents)..LastIndex(b) /\ ~(i >= Offset(b))
    BY <1>2, <1>4
  <2> QED
    BY <1>3, <2>1
<1>7. TypeOK'
  <2>1. entries' \in Seq(Entry)
    BY <1>2, ContiguousProps
  <2>2. err' \in Errors
    BY <1>1 DEF Errors
  <2> QED
    BY <1>1, <1>2, <2>1, <2>2 DEF IndInv, TypeOK, StorageTypeOK
<1>8. Windows'
  <2>1. offset' <= LastIndex(ents) + 1 /\ committed <= Last'
    BY <1>2, <1>4, <1>5
  <2> QED
    BY <1>1, <1>2, <1>5, <2>1 DEF IndInv, Windows
<1>9. HandedWindow'
  <2> SUFFICES ASSUME held # "none" PROVE HandedWindow'
    BY <1>1 DEF HandedWindow
  <2>1. offset' <= Offset(handed)
    BY <1>2, <1>4, HandedFacts
  <2>2. Last' # committed
    BY <1>2, <1>4, <1>5
  <2> QED
    BY <1>1, <1>2, <2>1, <2>2 DEF IndInv, HandedWindow
<1>10. AgreesOnCommitted(ents)'
  <2> SUFFICES ASSUME NEW i \in Offset(ents)..Min2(committed, LastIndex(ents))
               PROVE  TermAt(ents, i) = ViewTerm(i)'
    BY <1>1 DEF AgreesOnCommitted
  <2>1. i \in Offset(ents)..committed
    BY <1>4 DEF Min2
  <2>2. TermAt(ents, i) = ViewTerm(i)
    BY DEF IndInv, AgreesOnCommitted
  <2> QED
    BY <1>6, <2>1, <2>2
<1>11. Persisted' = Persisted
  BY <1>1 DEF Persisted
<1>12. Offset(Persisted) = Offset(ents) /\ LastIndex(Persisted) \in Nat
  BY PersistedFacts
<1>13. AgreesOnCommitted(Persisted)'
  <2> SUFFICES ASSUME NEW i \in Offset(ents)..Min2(committed, LastIndex(Persisted))
               PROVE  TermAt(Persisted, i) = ViewTerm(i)'
    BY <1>1, <1>11, <1>12 DEF AgreesOnCommitted
  <2>1. i \in Offset(ents)..committed
    BY <1>4, <1>12 DEF Min2
  <2>2. TermAt(Persisted, i) = ViewTerm(i)
    BY <1>12 DEF IndInv, AgreesOnCommitted
  <2> QED
    BY <1>6, <2>1, <2>2
<1>14. MatchesLog(Persisted)'
  <2>1. \A i \in Offset(ents)..Min2(LastIndex(Persisted), LastIndex(b)) :
          StorageTerm(Persisted, i).term = TermAt(Persisted, i)
    <3> TAKE i \in Offset(ents)..Min2(LastIndex(Persisted), LastIndex(b))
    <3>1. i \in Nat /\ Offset(ents) <= i /\ i <= LastIndex(Persisted)
      BY <1>2, <1>4, <1>12 DEF Min2
    <3>2. Len(Persisted) \in Nat /\ Len(Persisted) = LastIndex(Persisted) - Offset(ents) + 1
      BY <1>12, PersistedFacts, ContiguousProps
    <3>3. ~(i < Offset(Persisted)) /\ ~(i - Offset(Persisted) >= Len(Persisted))
      BY <1>4, <1>12, <3>1, <3>2
    <3> QED
      BY <3>3 DEF StorageTerm, TermAt
  <2>2. \A i \in Offset(ents)..LastIndex(b) : NewTerm(b, i) = ViewTerm(i)'
    <3> TAKE i \in Offset(ents)..LastIndex(b)
    <3>1. i \in Nat /\ b[1].index = Offset(b)
      BY <1>2, <1>4 DEF Offset
    <3>2. CASE i >= Offset(b)
      <4>1. NewTerm(b, i) = TermAt(b, i)
        BY <1>2, <3>1, <3>2 DEF NewTerm, TermAt
      <4> QED
        BY <1>3, <3>2, <4>1
    <3>3. CASE i < Offset(b)
      <4>1. i \in Offset(ents)..Last
        BY <1>2, <1>4, <3>1, <3>3, AppendView, LogFacts
      <4>2. NewTerm(b, i) = ViewTerm(i)
        BY <3>1, <3>3, <4>1, TermOfFacts DEF NewTerm
      <4> QED
        BY <1>2, <1>3, <3>1, <3>3, <4>2
    <3> QED
      BY <1>2, <3>1, <3>2, <3>3
  <2>3. b[1].index + Len(b) - 1 = LastIndex(b)
    BY DEF LastIndex
  <2>4. \A i \in Offset(ents)..Min2(LastIndex(Persisted), LastIndex(b)) :
          SameTerm(b, i) => \A j \in Offset(ents)..i : SameTerm(b, j)
    BY <1>12, <2>3 DEF Appends, LogMatching
  <2>5. \A i \in Offset(ents)..Min2(LastIndex(Persisted), LastIndex(b)) :
          /\ i \in Offset(ents)..LastIndex(b)
          /\ \A j \in Offset(ents)..i :
               j \in Offset(ents)..Min2(LastIndex(Persisted), LastIndex(b))
    BY <1>2, <1>4, <1>12 DEF Min2
  <2>6. \A i \in Offset(ents)..Min2(LastIndex(Persisted), LastIndex(b)) :
          SameTerm(b, i) <=> TermAt(Persisted, i) = ViewTerm(i)'
    BY <2>1, <2>2, <2>5 DEF SameTerm
  <2>7. \A i \in Offset(ents)..Min2(LastIndex(Persisted), LastIndex(b)) :
          TermAt(Persisted, i) = ViewTerm(i)' =>
            \A j \in Offset(ents)..i : TermAt(Persisted, j) = ViewTerm(j)'
    BY <2>4, <2>5, <2>6
  <2> QED
    BY <1>2, <1>11, <1>12, <2>7 DEF MatchesLog
<1>15. snapshot'.term = ViewTerm(snapshot.index)'
  <2>1. snapshot.index \in Offset(ents)..committed
    BY <1>4
  <2>2. ViewTerm(snapshot.index)' = (ViewTerm(snapshot.index))
    BY <1>1, <1>6, <2>1 DEF ViewTerm
  <2> QED
    BY <1>1, <2>2 DEF IndInv
<1> QED
  BY <1>7, <1>8, <1>9, <1>10, <1>13, <1>14, <1>15 DEF IndInv

\* The step is invisible to a reader of the log above the dummy entry.
SameView ==
  /\ committed' = committed /\ Last' = Last
  /\ Offset(ents) <= Offset(ents') /\ Offset(ents') \in Nat
  /\ \A i \in Offset(ents')..Last : ViewTerm(i)' = ViewTerm(i)

\* unstableEntries() handed to the application: once written, they will make
\* the storage equal to the log.
LEMMA HandOutKeeps ==
  ASSUME IndInv, HandOut
  PROVE  IndInv' /\ SameView
<1>1. /\ ents' = ents /\ snapshot' = snapshot /\ hardState' = hardState /\ err' = err
      /\ offset' = offset /\ entries' = entries /\ committed' = committed
      /\ applied' = applied /\ handed' = entries /\ held' = "handed"
      /\ held = "none" /\ entries # <<>>
  BY DEF HandOut, storageVars
<1>2. Last' = Last
  BY <1>1 DEF Last, UnstableLast
<1>3. \A i : ViewTerm(i)' = ViewTerm(i)
  BY <1>1 DEF ViewTerm
<1>4. /\ Contiguous(ents) /\ Offset(ents) \in Nat /\ LastIndex(ents) \in Nat
      /\ Offset(ents) <= LastIndex(ents) /\ offset \in Nat
      /\ committed \in Nat /\ snapshot.index \in Nat /\ Last \in Nat
      /\ Offset(ents) <= snapshot.index /\ snapshot.index <= committed /\ committed <= Last
      /\ offset <= LastIndex(ents) + 1 /\ entries \in Seq(Entry)
  BY LogFacts, OrderFacts
<1>5. Contiguous(entries) /\ Offset(entries) = offset /\ LastIndex(entries) = Last
  BY <1>1, LogFacts
<1>6. Last > committed \/ LastIndex(ents) < committed
  BY <1>1 DEF IndInv, Windows
<1>7. Last > Offset(ents)
  BY <1>4, <1>6
<1>8. Persisted' = Appended(ents, entries)
  BY <1>1 DEF Persisted
<1>9. Offset(Persisted') = Offset(ents) /\ LastIndex(Persisted') = Last
  BY <1>4, <1>5, <1>7, <1>8, AppendedContiguous
<1>10. \A i \in Offset(ents)..Last :
         TermAt(Persisted', i) =
           IF i > Offset(ents) /\ i >= offset THEN TermAt(entries, i) ELSE TermAt(ents, i)
  BY <1>4, <1>5, <1>7, <1>8, AppendedContiguous
<1>11. \A i \in Offset(ents)..Last : TermAt(Persisted', i) = ViewTerm(i)
  <2> TAKE i \in Offset(ents)..Last
  <2>1. CASE i >= offset /\ i > Offset(ents)
    BY <1>1, <1>10, <2>1 DEF ViewTerm
  <2>2. CASE ~(i >= offset)
    BY <1>10, <2>2 DEF ViewTerm
  <2>3. CASE i >= offset /\ ~(i > Offset(ents))
    <3>1. i \in Offset(ents)..Min2(committed, LastIndex(ents))
      BY <1>4, <2>3 DEF Min2
    <3>2. TermAt(ents, i) = ViewTerm(i)
      BY <3>1 DEF IndInv, AgreesOnCommitted
    <3> QED
      BY <1>10, <2>3, <3>2
  <2> QED
    BY <2>1, <2>2, <2>3
<1>12. TypeOK'
  BY <1>1, <1>4 DEF IndInv, TypeOK, StorageTypeOK
<1>13. Windows'
  BY <1>1, <1>2 DEF IndInv, Windows
<1>14. HandedWindow'
  <2>1. offset <= Offset(entries) /\ committed <= LastIndex(entries)
        /\ Offset(entries) <= LastIndex(ents) + 1
        /\ (LastIndex(entries) > committed \/ LastIndex(ents) < committed)
    BY <1>4, <1>5, <1>6
  <2> QED
    BY <1>1, <1>5, <2>1 DEF HandedWindow
<1>15. AgreesOnCommitted(ents)'
  BY <1>1, <1>3 DEF IndInv, AgreesOnCommitted
<1>16. AgreesOnCommitted(Persisted)'
  <2> SUFFICES ASSUME NEW i \in Offset(ents)..Min2(committed, Last)
               PROVE  TermAt(Persisted', i) = ViewTerm(i)'
    BY <1>1, <1>9 DEF AgreesOnCommitted
  <2>1. i \in Offset(ents)..Last
    BY <1>4 DEF Min2
  <2> QED
    BY <1>3, <1>11, <2>1
<1>17. MatchesLog(Persisted)'
  <2>1. \A i \in Offset(ents)..Min2(Last, Last) :
          \A j \in Offset(ents)..i : j \in Offset(ents)..Last
    BY <1>4 DEF Min2
  <2>2. \A i \in Offset(ents)..Min2(Last, Last) :
          \A j \in Offset(ents)..i : TermAt(Persisted', j) = ViewTerm(j)'
    BY <1>3, <1>11, <2>1
  <2> QED
    BY <1>2, <1>9, <2>2 DEF MatchesLog
<1>18. snapshot'.term = ViewTerm(snapshot.index)'
  BY <1>1 DEF IndInv, ViewTerm
<1>19. SameView
  BY <1>1, <1>2, <1>3, <1>4 DEF SameView
<1> QED
  BY <1>12, <1>13, <1>14, <1>15, <1>16, <1>17, <1>18, <1>19 DEF IndInv

\* MemoryStorage.Append of what was handed out: the storage becomes Persisted.
LEMMA SaveKeeps ==
  ASSUME IndInv, Save
  PROVE  IndInv' /\ SameView /\ err' = "nil"
<1>1. /\ snapshot' = snapshot /\ hardState' = hardState
      /\ offset' = offset /\ entries' = entries /\ committed' = committed
      /\ applied' = applied /\ handed' = handed /\ held' = "saved"
      /\ held = "handed" /\ err' = AppendOutcome(ents, handed)
      /\ ents' = IF err' = "nil" THEN Appended(ents, handed) ELSE ents
  BY DEF Save, StorageAppend
<1>2. /\ Contiguous(Persisted) /\ Offset(Persisted) = Offset(ents)
      /\ Persisted = Appended(ents, handed) /\ AppendOutcome(ents, handed) = "nil"
      /\ LastIndex(Persisted) = LastIndex(handed) /\ LastIndex(Persisted) \in Nat
      /\ snapshot.index <= LastIndex(Persisted)
  BY <1>1, PersistedFacts
<1>3. \A i \in Offset(ents)..LastIndex(handed) :
        TermAt(Persisted, i) = IF i > Offset(ents) /\ i >= Offset(handed)
                               THEN TermAt(handed, i) ELSE TermAt(ents, i)
  BY <1>1, PersistedFacts
<1>4. err' = "nil" /\ ents' = Persisted
  BY <1>1, <1>2
<1>5. Persisted' = Persisted
  BY <1>1, <1>4 DEF Persisted
<1>6. /\ Offset(ents) \in Nat /\ LastIndex(ents) \in Nat
      /\ Offset(ents) <= LastIndex(ents) /\ offset \in Nat
      /\ committed \in Nat /\ snapshot.index \in Nat /\ Last \in Nat
      /\ Offset(ents) <= snapshot.index /\ snapshot.index <= committed /\ committed <= Last
      /\ offset <= LastIndex(ents) + 1 /\ entries \in Seq(Entry)
  BY LogFacts, OrderFacts
<1>7. /\ Contiguous(handed) /\ Offset(handed) \in Nat /\ LastIndex(handed) \in Nat
      /\ Offset(handed) <= LastIndex(handed) /\ entries # <<>>
      /\ offset <= Offset(handed) /\ committed <= LastIndex(handed)
      /\ LastIndex(handed) > snapshot.index
  BY <1>1, HandedFacts
<1>8. Last' = Last
  BY <1>1, <1>7 DEF Last, UnstableLast
<1>9. \A i \in Offset(ents)..Last : ViewTerm(i)' = ViewTerm(i)
  <2> TAKE i \in Offset(ents)..Last
  <2>1. CASE i >= offset
    BY <1>1, <1>7, <2>1 DEF ViewTerm
  <2>2. CASE ~(i >= offset)
    <3>1. i \in Offset(ents)..LastIndex(handed) /\ ~(i >= Offset(handed))
      BY <1>6, <1>7, <2>2
    <3>2. TermAt(Persisted, i) = TermAt(ents, i)
      BY <1>3, <3>1
    <3> QED
      BY <1>1, <1>4, <2>2, <3>2 DEF ViewTerm
  <2> QED
    BY <2>1, <2>2
<1>10. TypeOK'
  <2>1. Persisted \in Seq(Entry) /\ Len(Persisted) >= 1
    BY <1>2, ContiguousProps
  <2> QED
    BY <1>1, <1>4, <2>1 DEF IndInv, TypeOK, StorageTypeOK, Errors
<1>11. Windows'
  <2>1. Contiguous(entries) /\ Offset(entries) = offset
    BY <1>7, LogFacts
  <2>2. /\ offset <= LastIndex(Persisted) + 1 /\ 1 <= offset /\ applied <= committed
    BY <1>2, <1>6, <1>7, OrderFacts
  <2> QED
    BY <1>1, <1>2, <1>4, <1>6, <1>7, <1>8, <2>1, <2>2 DEF Windows
<1>12. HandedWindow'
  <2>1. TermAt(Persisted, LastIndex(handed)) = TermAt(handed, LastIndex(handed))
    <3>1. /\ LastIndex(handed) \in Offset(ents)..LastIndex(handed)
          /\ LastIndex(handed) > Offset(ents) /\ LastIndex(handed) >= Offset(handed)
      BY <1>6, <1>7
    <3> QED
      BY <1>3, <3>1
  <2>2. Last = committed => handed = entries
    BY <1>1, HandedFacts
  <2> QED
    BY <1>1, <1>2, <1>4, <1>7, <1>8, <2>1, <2>2 DEF HandedWindow
<1>13. AgreesOnCommitted(Persisted)'
  <2> SUFFICES ASSUME NEW i \in Offset(ents)..Min2(committed, LastIndex(Persisted))
               PROVE  TermAt(Persisted, i) = ViewTerm(i)'
    BY <1>1, <1>2, <1>5 DEF AgreesOnCommitted
  <2>1. i \in Offset(ents)..Last
    BY <1>2, <1>6 DEF Min2
  <2>2. TermAt(Persisted, i) = ViewTerm(i)
    BY <1>2 DEF IndInv, AgreesOnCommitted
  <2> QED
    BY <1>9, <2>1, <2>2
<1>14. AgreesOnCommitted(ents)'
  BY <1>4, <1>5, <1>13 DEF AgreesOnCommitted
<1>15. MatchesLog(Persisted)'
  <2>1. \A i \in Offset(ents)..Min2(LastIndex(Persisted), Last) :
          i \in Offset(ents)..Last /\ \A j \in Offset(ents)..i : j \in Offset(ents)..Last
    BY <1>2, <1>6 DEF Min2
  <2>2. \A i \in Offset(ents)..Min2(LastIndex(Persisted), Last) :
          TermAt(Persisted, i) = ViewTerm(i) =>
            \A j \in Offset(ents)..i : TermAt(Persisted, j) = ViewTerm(j)
    BY <1>2 DEF IndInv, MatchesLog
  <2>3. \A i \in Offset(ents)..Min2(LastIndex(Persisted), Last) :
          TermAt(Persisted, i) = ViewTerm(i)' =>
            \A j \in Offset(ents)..i : TermAt(Persisted, j) = ViewTerm(j)'
    BY <1>9, <2>1, <2>2
  <2> QED
    BY <1>2, <1>5, <1>8, <2>3 DEF MatchesLog
<1>16. snapshot'.term = ViewTerm(snapshot.index)'
  <2>1. snapshot.index \in Offset(ents)..Last
    BY <1>6
  <2>2. ViewTerm(snapshot.index)' = (ViewTerm(snapshot.index))
    BY <1>1, <1>9, <2>1 DEF ViewTerm
  <2> QED
    BY <1>1, <2>2 DEF IndInv
<1>17. SameView
  BY <1>1, <1>2, <1>4, <1>6, <1>8, <1>9 DEF SameView
<1> QED
  BY <1>4, <1>10, <1>11, <1>12, <1>13, <1>14, <1>15, <1>16, <1>17 DEF IndInv

\* raftLog.stableTo drops what the storage holds, and nothing if the report is
\* for an entry that was overwritten.
LEMMA StableToView ==
  ASSUME IndInv, StableTo
  PROVE  /\ entries' = <<>> => offset' = LastIndex(ents) + 1 /\ Last = LastIndex(ents)
         /\ entries' # <<>> => /\ Contiguous(entries') /\ Offset(entries') = offset'
                               /\ LastIndex(entries') = Last /\ Last > committed
         /\ offset' \in Nat /\ 1 <= offset' /\ offset' <= LastIndex(ents) + 1
         /\ Last' = Last
         /\ \A j \in Offset(ents)..Last : ViewTerm(j)' = ViewTerm(j)
<1> DEFINE top == LastIndex(ents)
<1>1. /\ Contiguous(ents) /\ Offset(ents) \in Nat /\ top \in Nat
      /\ Offset(ents) <= top /\ offset \in Nat /\ Last \in Nat
      /\ committed \in Nat /\ committed <= Last /\ 1 <= offset /\ offset <= top + 1
  BY LogFacts, OrderFacts
<1>2. held = "saved" /\ ents' = ents
  BY DEF StableTo, storageVars
<1>3. /\ Contiguous(handed) /\ entries # <<>>
      /\ handed[Len(handed)].index = LastIndex(handed)
      /\ handed[Len(handed)].term = TermAt(handed, LastIndex(handed))
      /\ committed <= LastIndex(handed)
      /\ Last = committed => handed = entries
      /\ top = LastIndex(handed) /\ TermAt(ents, top) = TermAt(handed, top)
  BY <1>2, HandedFacts
<1>4. /\ Contiguous(entries) /\ Offset(entries) = offset /\ Last = LastIndex(entries)
      /\ offset <= Last /\ offset + Len(entries) - 1 = Last /\ Len(entries) \in Nat
      /\ entries \in Seq(Entry)
  BY <1>3, LogFacts
<1>5. HasUnstableTerm(top) <=> top >= offset /\ top <= Last
  BY <1>3, <1>4 DEF HasUnstableTerm, UnstableLast
<1>6. UnstableTerm(top) = TermAt(entries, top)
  BY <1>4 DEF UnstableTerm, TermAt
<1>7. IF HasUnstableTerm(top) /\ UnstableTerm(top) = TermAt(ents, top)
      THEN /\ entries' = SubSeq(entries, top + 1 - offset + 1, Len(entries))
           /\ offset' = top + 1
      ELSE entries' = entries /\ offset' = offset
  BY <1>3 DEF StableTo
<1> HIDE DEF top
<1>8. CASE HasUnstableTerm(top) /\ UnstableTerm(top) = TermAt(ents, top)
  <2>1. /\ entries' = Compacted(entries, top + 1) /\ offset' = top + 1
        /\ top >= offset /\ top <= Last /\ TermAt(ents, top) = TermAt(entries, top)
    <3>1. entries' = SubSeq(entries, top + 1 - offset + 1, Len(entries)) /\ offset' = top + 1
      BY <1>7, <1>8, ZenonT(60)
    <3>2. Compacted(entries, top + 1) = SubSeq(entries, top + 1 - offset + 1, Len(entries))
      <4>1. Offset(entries) = offset
        BY <1>4
      <4>2. (top + 1) - offset + 1 = top + 1 - offset + 1
        BY <1>1
      <4>3. Compacted(entries, top + 1) =
              SubSeq(entries, (top + 1) - Offset(entries) + 1, Len(entries))
        BY Zenon DEF Compacted
      <4> QED
        BY <4>1, <4>2, <4>3, ZenonT(60)
    <3>3. top >= offset /\ top <= Last /\ TermAt(ents, top) = TermAt(entries, top)
      BY <1>5, <1>6, <1>8, ZenonT(60)
    <3> QED
      BY <3>1, <3>2, <3>3, ZenonT(60)
  <2>2. TermAt(ents, top) = ViewTerm(top)
    BY <1>3, <2>1 DEF ViewTerm
  <2>3. \A j \in Offset(ents)..top : TermAt(ents, j) = ViewTerm(j)
    <3>1. Persisted = ents
      BY <1>2 DEF Persisted
    <3>2. top \in Offset(ents)..Min2(top, Last)
      BY <1>1, <2>1 DEF Min2
    <3> QED
      BY <2>2, <3>1, <3>2 DEF IndInv, MatchesLog, top
  <2>4. CASE top < Last
    <3>1. top + 1 \in Nat /\ Offset(entries) <= top + 1 /\ top + 1 <= LastIndex(entries)
      BY <1>1, <1>4, <2>1, <2>4
    <3>2. /\ Contiguous(entries') /\ Offset(entries') = top + 1 /\ LastIndex(entries') = Last
          /\ \A j \in top + 1..Last : TermAt(entries', j) = TermAt(entries, j)
      BY <1>4, <2>1, <3>1, CompactedContiguous
    <3>3. entries' # <<>> /\ Len(entries') = Last - offset' + 1 /\ Len(entries') \in Nat
      BY <2>1, <3>2, ContiguousProps
    <3>4. Last' = Last
      <4>1. Last' = offset' + Len(entries') - 1
        BY <3>3 DEF Last, UnstableLast
      <4> QED
        BY <1>1, <2>1, <3>3, <4>1
    <3>5. Last > committed
      BY <1>1, <1>3, <2>4
    <3>6. \A j \in Offset(ents)..Last : ViewTerm(j)' = ViewTerm(j)
      <4> TAKE j \in Offset(ents)..Last
      <4>1. CASE j >= top + 1
        <5>1. j \in top + 1..Last /\ j >= offset
          BY <1>1, <2>1, <4>1
        <5>2. ViewTerm(j)' = TermAt(entries', j)
          BY <2>1, <3>3, <4>1 DEF ViewTerm
        <5>3. ViewTerm(j) = TermAt(entries, j)
          BY <1>3, <5>1 DEF ViewTerm
        <5> QED
          BY <3>2, <5>1, <5>2, <5>3
      <4>2. CASE ~(j >= top + 1)
        <5>1. j \in Offset(ents)..top
          BY <1>1, <4>2
        <5>2. ViewTerm(j)' = TermAt(ents, j)
          BY <1>2, <2>1, <4>2 DEF ViewTerm
        <5> QED
          BY <2>3, <5>1, <5>2
      <4> QED
        BY <4>1, <4>2
    <3>7. offset' \in Nat /\ 1 <= offset' /\ offset' <= top + 1
      BY <1>1, <2>1
    <3> QED
      BY <2>1, <3>2, <3>3, <3>4, <3>5, <3>6, <3>7 DEF top
  <2>5. CASE ~(top < Last)
    <3>1. top = Last
      BY <1>1, <2>1, <2>5
    <3>2. entries' = <<>>
      <4>1. top + 1 - offset + 1 = Len(entries) + 1
        BY <1>1, <1>4, <3>1
      <4>2. SubSeq(entries, Len(entries) + 1, Len(entries)) = <<>>
        BY <1>4
      <4> QED
        BY <1>7, <1>8, <4>1, <4>2
    <3>3. Last' = Last
      BY <1>2, <3>1, <3>2 DEF Last, top
    <3>4. \A j \in Offset(ents)..Last : ViewTerm(j)' = ViewTerm(j)
      <4>1. \A j : ViewTerm(j)' = TermAt(ents, j)
        BY <1>2, <3>2 DEF ViewTerm
      <4> QED
        BY <2>3, <3>1, <4>1
    <3>5. offset' \in Nat /\ 1 <= offset' /\ offset' <= top + 1
      BY <1>1, <2>1
    <3> QED
      BY <2>1, <3>1, <3>2, <3>3, <3>4, <3>5 DEF top
  <2> QED
    BY <2>4, <2>5
<1>9. CASE ~(HasUnstableTerm(top) /\ UnstableTerm(top) = TermAt(ents, top))
  <2>1. entries' = entries /\ offset' = offset
    BY <1>7, <1>9
  <2>2. Last > committed
    <3>1. SUFFICES ASSUME Last = committed PROVE FALSE
      BY <1>1
    <3>2. handed = entries
      BY <1>3, <3>1
    <3>3. top = Last
      BY <1>3, <1>4, <3>2
    <3>4. HasUnstableTerm(top)
      BY <1>1, <1>4, <1>5, <3>3
    <3>5. UnstableTerm(top) = TermAt(ents, top)
      BY <1>3, <1>6, <3>2
    <3> QED
      BY <1>9, <3>4, <3>5
  <2>3. Last' = Last
    BY <1>3, <2>1 DEF Last, UnstableLast
  <2>4. \A j : ViewTerm(j)' = ViewTerm(j)
    BY <1>2, <2>1 DEF ViewTerm
  <2> QED
    BY <1>1, <1>3, <1>4, <2>1, <2>2, <2>3, <2>4 DEF top
<1> QED
  BY <1>8, <1>9

\* unstable.stableTo preserves the invariant and does not change the log as it is read.
LEMMA StableToKeeps ==
  ASSUME IndInv, StableTo
  PROVE  IndInv' /\ SameView
<1>1. /\ ents' = ents /\ snapshot' = snapshot /\ hardState' = hardState /\ err' = err
      /\ committed' = committed /\ applied' = applied
      /\ handed' = <<>> /\ held' = "none" /\ held = "saved"
  BY DEF StableTo, storageVars
<1>2. /\ entries' = <<>> => offset' = LastIndex(ents) + 1
      /\ entries' # <<>> => /\ Contiguous(entries') /\ Offset(entries') = offset'
                            /\ Last > committed
      /\ offset' \in Nat /\ 1 <= offset' /\ offset' <= LastIndex(ents) + 1
      /\ Last' = Last
  BY StableToView
<1>3. \A j \in Offset(ents)..Last : ViewTerm(j)' = ViewTerm(j)
  BY StableToView
<1>4. /\ Offset(ents) \in Nat /\ LastIndex(ents) \in Nat
      /\ committed \in Nat /\ snapshot.index \in Nat /\ Last \in Nat
      /\ Offset(ents) <= snapshot.index /\ snapshot.index <= committed /\ committed <= Last
  BY LogFacts, OrderFacts
<1>5. Persisted = ents /\ Persisted' = ents
  BY <1>1 DEF Persisted
<1>6. TypeOK'
  <2>1. entries' \in Seq(Entry)
    <3>1. CASE entries' = <<>>
      BY <3>1
    <3>2. CASE entries' # <<>>
      BY <1>2, <3>2, ContiguousProps
    <3> QED
      BY <3>1, <3>2
  <2>2. handed' \in Seq(Entry)
    BY <1>1
  <2> QED
    BY <1>1, <1>2, <2>1, <2>2 DEF IndInv, TypeOK, StorageTypeOK
<1>7. Windows'
  BY <1>1, <1>2, <1>4 DEF IndInv, Windows
<1>8. HandedWindow'
  BY <1>1 DEF HandedWindow
<1>9. AgreesOnCommitted(ents)'
  <2> SUFFICES ASSUME NEW i \in Offset(ents)..Min2(committed, LastIndex(ents))
               PROVE  TermAt(ents, i) = ViewTerm(i)'
    BY <1>1 DEF AgreesOnCommitted
  <2>1. i \in Offset(ents)..Last
    BY <1>4 DEF Min2
  <2>2. TermAt(ents, i) = ViewTerm(i)
    BY DEF IndInv, AgreesOnCommitted
  <2> QED
    BY <1>3, <2>1, <2>2
<1>10. AgreesOnCommitted(Persisted)'
  BY <1>1, <1>5, <1>9 DEF AgreesOnCommitted
<1>11. MatchesLog(Persisted)'
  <2>1. \A i \in Offset(ents)..Min2(LastIndex(ents), Last) :
          i \in Offset(ents)..Last /\ \A j \in Offset(ents)..i : j \in Offset(ents)..Last
    BY <1>4 DEF Min2
  <2>2. \A i \in Offset(ents)..Min2(LastIndex(ents), Last) :
          TermAt(ents, i) = ViewTerm(i) =>
            \A j \in Offset(ents)..i : TermAt(ents, j) = ViewTerm(j)
    BY <1>5 DEF IndInv, MatchesLog
  <2>3. \A i \in Offset(ents)..Min2(LastIndex(ents), Last) :
          TermAt(ents, i) = ViewTerm(i)' =>
            \A j \in Offset(ents)..i : TermAt(ents, j) = ViewTerm(j)'
    BY <1>3, <2>1, <2>2
  <2> QED
    BY <1>2, <1>5, <2>3 DEF MatchesLog
<1>12. snapshot'.term = ViewTerm(snapshot.index)'
  <2>1. snapshot.index \in Offset(ents)..Last
    BY <1>4
  <2>2. ViewTerm(snapshot.index)' = (ViewTerm(snapshot.index))
    BY <1>1, <1>3, <2>1 DEF ViewTerm
  <2> QED
    BY <1>1, <2>2 DEF IndInv
<1>13. SameView
  BY <1>1, <1>2, <1>3, <1>4 DEF SameView
<1> QED
  BY <1>6, <1>7, <1>8, <1>9, <1>10, <1>11, <1>12, <1>13 DEF IndInv

\* CreateSnapshot reads the term of a committed entry, which the storage holds
\* correctly (AgreesOnCommitted).
LEMMA SnapshotKeeps ==
  ASSUME IndInv, NEW c, SnapshotLog(c)
  PROVE  IndInv' /\ SameView /\ err' = "nil"
<1>1. /\ ents' = ents /\ hardState' = hardState
      /\ offset' = offset /\ entries' = entries /\ committed' = committed
      /\ applied' = applied /\ handed' = handed /\ held' = held
      /\ err' = CreateSnapshotOutcome(ents, snapshot, c)
      /\ snapshot' = IF err' = "nil"
                     THEN [index |-> c, term |-> ents[c - Offset(ents) + 1].term] ELSE snapshot
      /\ c \in snapshot.index + 1..Min2(committed, LastIndex(ents))
  BY DEF SnapshotLog, CreateSnapshot, logVars
<1>2. /\ Contiguous(ents) /\ Offset(ents) \in Nat /\ LastIndex(ents) \in Nat
      /\ committed \in Nat /\ snapshot.index \in Nat /\ Last \in Nat
      /\ Offset(ents) <= snapshot.index /\ committed <= Last
  BY LogFacts, OrderFacts
<1>3. /\ c \in Nat /\ snapshot.index < c /\ c <= committed /\ c <= LastIndex(ents)
      /\ Offset(ents) <= c /\ c <= Last
  BY <1>1, <1>2 DEF Min2
<1>4. err' = "nil"
  <2>1. ~(c <= snapshot.index) /\ ~(c > LastIndex(ents) \/ c < Offset(ents))
    BY <1>2, <1>3
  <2> QED
    BY <1>1, <2>1, ZenonT(60) DEF CreateSnapshotOutcome
<1>5. snapshot' = [index |-> c, term |-> TermAt(ents, c)]
  BY <1>1, <1>4 DEF TermAt
<1>6. snapshot'.index = c /\ snapshot'.term = TermAt(ents, c)
  BY <1>5
<1>7. c \in Offset(ents)..Min2(committed, LastIndex(ents))
  BY <1>2, <1>3 DEF Min2
<1>8. TermAt(ents, c) = ViewTerm(c)
  BY <1>7 DEF IndInv, AgreesOnCommitted
<1>9. Last' = Last
  BY <1>1 DEF Last, UnstableLast
<1>10. \A i : ViewTerm(i)' = ViewTerm(i)
  BY <1>1 DEF ViewTerm
<1>11. Persisted' = Persisted
  BY <1>1 DEF Persisted
<1>12. TypeOK'
  <2>1. TermAt(ents, c) \in Nat
    <3>1. c - Offset(ents) + 1 \in 1..Len(ents)
      BY <1>2, <1>3, ContiguousProps
    <3>2. ents[c - Offset(ents) + 1] \in Entry
      BY <1>2, <3>1, ContiguousProps
    <3> QED
      BY <3>2 DEF TermAt, Entry
  <2>2. snapshot' \in Entry
    BY <1>3, <1>5, <2>1 DEF Entry
  <2> QED
    BY <1>1, <1>4, <2>2 DEF IndInv, TypeOK, StorageTypeOK, Errors
<1>13. Windows'
  BY <1>1, <1>3, <1>6, <1>9 DEF IndInv, Windows
<1>14. HandedWindow'
  BY <1>1, <1>9 DEF IndInv, HandedWindow
<1>15. AgreesOnCommitted(ents)'
  BY <1>1, <1>10, ZenonT(60) DEF IndInv, AgreesOnCommitted
<1>16. AgreesOnCommitted(Persisted)'
  BY <1>1, <1>10, <1>11, ZenonT(60) DEF IndInv, AgreesOnCommitted
<1>17. MatchesLog(Persisted)'
  BY <1>9, <1>10, <1>11 DEF IndInv, MatchesLog
<1>18. snapshot'.term = ViewTerm(snapshot.index)'
  <2>1. ViewTerm(snapshot.index)' = ViewTerm(c)
    BY <1>1, <1>6 DEF ViewTerm
  <2> QED
    BY <1>6, <1>8, <2>1
<1>19. SameView
  BY <1>1, <1>2, <1>9, <1>10 DEF SameView
<1> QED
  BY <1>4, <1>12, <1>13, <1>14, <1>15, <1>16, <1>17, <1>18, <1>19 DEF IndInv

\* Compaction below the snapshot keeps the terms above the new dummy entry, in
\* the storage and in what the pending write will make of it.
LEMMA CompactKeeps ==
  ASSUME IndInv, NEW c, CompactLog(c)
  PROVE  IndInv' /\ SameView /\ err' # "panic"
<1>1. /\ snapshot' = snapshot /\ hardState' = hardState
      /\ offset' = offset /\ entries' = entries /\ committed' = committed
      /\ applied' = applied /\ handed' = handed /\ held' = held
      /\ err' = CompactOutcome(ents, c)
      /\ ents' = IF err' = "nil" THEN Compacted(ents, c) ELSE ents
      /\ c \in 0..snapshot.index
  BY DEF CompactLog, Compact, logVars
<1>2. /\ Contiguous(ents) /\ Offset(ents) \in Nat /\ LastIndex(ents) \in Nat
      /\ committed \in Nat /\ snapshot.index \in Nat /\ Last \in Nat
      /\ Offset(ents) <= snapshot.index /\ snapshot.index <= LastIndex(ents)
      /\ snapshot.index <= committed /\ committed <= Last
      /\ offset \in Nat /\ offset <= LastIndex(ents) + 1
  BY LogFacts, OrderFacts
<1>3. c \in Nat /\ c <= snapshot.index /\ c <= LastIndex(ents) /\ c <= committed /\ c <= Last
  BY <1>1, <1>2
<1>4. CASE c <= Offset(ents)
  <2>1. err' = "ErrCompacted"
    BY <1>1, <1>4 DEF CompactOutcome
  <2>2. ents' = ents
    BY <1>1, <2>1
  <2>3. IndInv'
    BY <1>1, <2>1, <2>2, OnlyErrKeeps DEF Errors, logVars
  <2>4. Last' = Last /\ \A i : ViewTerm(i)' = ViewTerm(i)
    BY <1>1, <2>2 DEF Last, UnstableLast, ViewTerm
  <2> QED
    BY <1>1, <1>2, <2>1, <2>2, <2>3, <2>4 DEF SameView
<1>5. CASE ~(c <= Offset(ents))
  <2>1. Offset(ents) < c /\ Offset(ents) <= c
    BY <1>2, <1>3, <1>5
  <2>2. err' = "nil"
    <3>1. ~(c > LastIndex(ents))
      BY <1>2, <1>3
    <3> QED
      BY <1>1, <1>5, <3>1 DEF CompactOutcome
  <2>3. ents' = Compacted(ents, c)
    BY <1>1, <2>2
  <2>4. /\ Contiguous(ents') /\ Offset(ents') = c /\ LastIndex(ents') = LastIndex(ents)
        /\ \A i \in c..LastIndex(ents) : TermAt(ents', i) = TermAt(ents, i)
    BY <1>2, <1>3, <2>1, <2>3, CompactedContiguous
  <2>5. Last' = Last
    BY <1>1, <2>4 DEF Last, UnstableLast
  <2>6. \A i \in c..Last : ViewTerm(i)' = ViewTerm(i)
    <3> TAKE i \in c..Last
    <3>1. CASE entries # <<>> /\ i >= offset
      BY <1>1, <3>1 DEF ViewTerm
    <3>2. CASE ~(entries # <<>> /\ i >= offset)
      <4>1. i \in c..LastIndex(ents)
        <5>1. CASE entries = <<>>
          BY <1>2, <1>3, <5>1, LogFacts
        <5>2. CASE ~(i >= offset)
          BY <1>2, <1>3, <5>2
        <5> QED
          BY <3>2, <5>1, <5>2
      <4>2. ViewTerm(i)' = TermAt(ents', i) /\ ViewTerm(i) = TermAt(ents, i)
        BY <1>1, <3>2 DEF ViewTerm
      <4> QED
        BY <2>4, <4>1, <4>2
    <3> QED
      BY <3>1, <3>2
  <2>7. /\ Offset(Persisted') = c /\ LastIndex(Persisted') = LastIndex(Persisted)
        /\ \A i \in c..LastIndex(Persisted) : TermAt(Persisted', i) = TermAt(Persisted, i)
    <3>1. CASE held # "handed"
      <4>1. Persisted = ents /\ Persisted' = ents'
        BY <1>1, <3>1 DEF Persisted
      <4> QED
        BY <2>4, <4>1
    <3>2. CASE held = "handed"
      <4>1. /\ LastIndex(Persisted) = LastIndex(handed)
            /\ \A i \in Offset(ents)..LastIndex(handed) :
                 TermAt(Persisted, i) = IF i > Offset(ents) /\ i >= Offset(handed)
                                        THEN TermAt(handed, i) ELSE TermAt(ents, i)
        BY <3>2, PersistedFacts
      <4>2. /\ Contiguous(handed) /\ Offset(handed) \in Nat /\ LastIndex(handed) \in Nat
            /\ Offset(handed) <= LastIndex(ents) + 1 /\ LastIndex(handed) > snapshot.index
        BY <3>2, HandedFacts
      <4>3. Persisted' = Appended(ents', handed)
        BY <1>1, <3>2 DEF Persisted
      <4>4. LastIndex(handed) > c
        BY <1>2, <1>3, <4>2
      <4>5. /\ Offset(Persisted') = c /\ LastIndex(Persisted') = LastIndex(handed)
            /\ \A i \in c..LastIndex(handed) :
                 TermAt(Persisted', i) = IF i > c /\ i >= Offset(handed)
                                         THEN TermAt(handed, i) ELSE TermAt(ents', i)
        BY <2>4, <4>2, <4>3, <4>4, AppendedContiguous
      <4>6. \A i \in c..LastIndex(handed) : TermAt(Persisted', i) = TermAt(Persisted, i)
        <5> TAKE i \in c..LastIndex(handed)
        <5>1. i \in Nat /\ i \in Offset(ents)..LastIndex(handed) /\ i > Offset(ents)
          BY <1>2, <1>3, <2>1, <4>2
        <5>2. CASE i >= Offset(handed) /\ i > c
          BY <4>1, <4>5, <5>1, <5>2
        <5>3. CASE ~(i >= Offset(handed))
          <6>1. i \in c..LastIndex(ents)
            BY <1>2, <1>3, <4>2, <5>1, <5>3
          <6>2. TermAt(Persisted', i) = TermAt(ents', i) /\ TermAt(Persisted, i) = TermAt(ents, i)
            BY <4>1, <4>5, <5>1, <5>3
          <6> QED
            BY <2>4, <6>1, <6>2
        <5>4. CASE i >= Offset(handed) /\ ~(i > c)
          <6>1. /\ i \in c..LastIndex(ents) /\ i \in Offset(ents)..Min2(committed, LastIndex(ents))
                /\ i \in Offset(ents)..Min2(committed, LastIndex(handed))
            BY <1>2, <1>3, <4>2, <5>1, <5>4 DEF Min2
          <6>2. TermAt(ents, i) = ViewTerm(i)
            BY <6>1 DEF IndInv, AgreesOnCommitted
          <6>3. TermAt(Persisted, i) = ViewTerm(i)
            BY <4>1, <6>1, PersistedFacts DEF IndInv, AgreesOnCommitted
          <6>4. TermAt(Persisted', i) = TermAt(ents', i)
            BY <4>5, <5>4
          <6> QED
            BY <2>4, <6>1, <6>2, <6>3, <6>4
        <5> QED
          BY <5>2, <5>3, <5>4
      <4> QED
        BY <4>1, <4>5, <4>6
    <3> QED
      BY <3>1, <3>2
  <2>8. Offset(Persisted) = Offset(ents) /\ LastIndex(Persisted) \in Nat
    BY PersistedFacts
  <2>9. TypeOK'
    <3>1. ents' \in Seq(Entry) /\ Len(ents') >= 1
      BY <2>4, ContiguousProps
    <3> QED
      BY <1>1, <2>2, <3>1 DEF IndInv, TypeOK, StorageTypeOK, Errors
  <2>10. Windows'
    BY <1>1, <1>3, <2>4, <2>5 DEF IndInv, Windows
  <2>11. HandedWindow'
    <3>1. TermAt(ents', LastIndex(ents)) = TermAt(ents, LastIndex(ents))
      <4>1. LastIndex(ents) \in c..LastIndex(ents)
        BY <1>2, <1>3
      <4> QED
        BY <2>4, <4>1
    <3> QED
      BY <1>1, <2>4, <2>5, <3>1 DEF IndInv, HandedWindow
  <2>12. AgreesOnCommitted(ents)'
    <3> SUFFICES ASSUME NEW i \in c..Min2(committed, LastIndex(ents))
                 PROVE  TermAt(ents', i) = ViewTerm(i)'
      BY <1>1, <2>4 DEF AgreesOnCommitted
    <3>1. /\ i \in c..Last /\ i \in c..LastIndex(ents)
          /\ i \in Offset(ents)..Min2(committed, LastIndex(ents))
      BY <1>2, <1>3, <2>1 DEF Min2
    <3>2. TermAt(ents, i) = ViewTerm(i)
      BY <3>1 DEF IndInv, AgreesOnCommitted
    <3> QED
      BY <2>4, <2>6, <3>1, <3>2
  <2>13. AgreesOnCommitted(Persisted)'
    <3> SUFFICES ASSUME NEW i \in c..Min2(committed, LastIndex(Persisted))
                 PROVE  TermAt(Persisted', i) = ViewTerm(i)'
      BY <1>1, <2>7 DEF AgreesOnCommitted
    <3>1. /\ i \in c..Last /\ i \in c..LastIndex(Persisted)
          /\ i \in Offset(ents)..Min2(committed, LastIndex(Persisted))
      BY <1>2, <1>3, <2>1, <2>8 DEF Min2
    <3>2. TermAt(Persisted, i) = ViewTerm(i)
      BY <2>8, <3>1 DEF IndInv, AgreesOnCommitted
    <3> QED
      BY <2>6, <2>7, <3>1, <3>2
  <2>14. MatchesLog(Persisted)'
    <3>1. \A i \in c..Min2(LastIndex(Persisted), Last) :
            /\ i \in c..Last /\ i \in c..LastIndex(Persisted)
            /\ i \in Offset(ents)..Min2(LastIndex(Persisted), Last)
            /\ \A j \in c..i : /\ j \in c..Last /\ j \in c..LastIndex(Persisted)
                               /\ j \in Offset(ents)..i
      BY <1>2, <1>3, <2>1, <2>8 DEF Min2
    <3>2. \A i \in Offset(ents)..Min2(LastIndex(Persisted), Last) :
            TermAt(Persisted, i) = ViewTerm(i) =>
              \A j \in Offset(ents)..i : TermAt(Persisted, j) = ViewTerm(j)
      BY <2>8 DEF IndInv, MatchesLog
    <3>3. \A i \in c..Min2(LastIndex(Persisted), Last) :
            TermAt(Persisted', i) = ViewTerm(i)' =>
              \A j \in c..i : TermAt(Persisted', j) = ViewTerm(j)'
      BY <2>6, <2>7, <3>1, <3>2
    <3> QED
      BY <2>5, <2>7, <3>3 DEF MatchesLog
  <2>15. snapshot'.term = ViewTerm(snapshot.index)'
    <3>1. snapshot.index \in c..Last
      BY <1>2, <1>3
    <3>2. ViewTerm(snapshot.index)' = (ViewTerm(snapshot.index))
      BY <1>1, <2>6, <3>1 DEF ViewTerm
    <3> QED
      BY <1>1, <3>2 DEF IndInv
  <2>16. SameView
    BY <1>1, <1>3, <2>1, <2>4, <2>5, <2>6 DEF SameView
  <2> QED
    BY <2>2, <2>9, <2>10, <2>11, <2>12, <2>13, <2>14, <2>15, <2>16 DEF IndInv
<1> QED
  BY <1>4, <1>5

-----------------------------------------------------------------------------
\* The initial states satisfy IndInv.

\* The zero entry alone is a contiguous slice.
LEMMA DummyContiguous ==
  LET d == <<[index |-> 0, term |-> 0]>>
  IN  Contiguous(d) /\ Offset(d) = 0 /\ LastIndex(d) = 0 /\ Len(d) = 1 /\ d[1] = [index |-> 0, term |-> 0]
<1> DEFINE d == <<[index |-> 0, term |-> 0]>>
<1>1. [index |-> 0, term |-> 0] \in Entry
  BY DEF Entry
<1>2. d \in Seq(Entry) /\ Len(d) = 1 /\ d[1] = [index |-> 0, term |-> 0]
  BY <1>1
<1>3. d[1].index = 0
  BY <1>2
<1>4. Offset(d) = 0 /\ LastIndex(d) = 0
  BY <1>2, <1>3 DEF Offset, LastIndex
<1>5. ConsecutiveFrom(d, 0)
  BY <1>2, <1>3 DEF ConsecutiveFrom
<1> QED
  BY <1>2, <1>4, <1>5 DEF Contiguous

\* Every restored storage is contiguous.
LEMMA RestoredContiguous ==
  ASSUME NEW es \in RestoredStorages
  PROVE  Contiguous(es)
<1> DEFINE d == <<[index |-> 0, term |-> 0]>>
<1>1. CASE es = d
  BY <1>1, DummyContiguous
<1>2. ASSUME NEW b \in Batches, b[1].index = 1, es = d \o b
      PROVE  Contiguous(es)
  <2>1. Contiguous(b) /\ Offset(b) = 1 /\ Contiguous(d) /\ Offset(d) = 0 /\ Len(d) = 1
    BY <1>2, BatchContiguous, DummyContiguous DEF Offset
  <2>2. b \in Seq(Entry) /\ d \in Seq(Entry) /\ Len(b) \in Nat
        /\ ConsecutiveFrom(b, 1) /\ ConsecutiveFrom(d, 0)
    BY <2>1 DEF Contiguous
  <2> HIDE DEF d
  <2>3. es \in Seq(Entry) /\ Len(es) = Len(d) + Len(b)
    BY <1>2, <2>2, ConcatProperties
  <2>4. /\ es[1] = d[1]
        /\ \A k \in 2..1 + Len(b) : es[k] = b[k - 1]
    <3>1. \A k \in 1..Len(d) + Len(b) :
            (d \o b)[k] = IF k <= Len(d) THEN d[k] ELSE b[k - Len(d)]
      BY <2>2, ConcatProperties
    <3>2. 1 \in 1..1 + Len(b) /\ 1 <= 1
      BY <2>2
    <3>3. \A k \in 2..1 + Len(b) : k \in 1..1 + Len(b) /\ ~(k <= 1)
      BY <2>2
    <3> QED
      BY <1>2, <2>1, <3>1, <3>2, <3>3, ZenonT(60)
  <2>5. d[1].index = 0
    BY <2>1 DEF Offset
  <2>6. Offset(es) = 0
    BY <2>4, <2>5 DEF Offset
  <2>7. \A k \in 1..Len(es) : es[k].index = k - 1
    <3> TAKE k \in 1..Len(es)
    <3>1. CASE k = 1
      BY <2>4, <2>5, <3>1
    <3>2. CASE k # 1
      <4>1. k \in 2..1 + Len(b) /\ k - 1 \in 1..Len(b)
        BY <2>1, <2>2, <2>3, <3>2
      <4>2. b[k - 1].index = 1 + (k - 1) - 1
        BY <2>2, <4>1 DEF ConsecutiveFrom
      <4>3. 1 + (k - 1) - 1 = k - 1
        BY <4>1
      <4> QED
        BY <2>4, <4>1, <4>2, <4>3
    <3> QED
      BY <3>1, <3>2
  <2>8. \A k \in 1..Len(es) : es[k].index = 0 + k - 1
    <3>1. \A k \in 1..Len(es) : 0 + k - 1 = k - 1
      BY <2>2, <2>3
    <3> QED
      BY <2>7, <3>1
  <2>9. Len(es) >= 1
    BY <2>1, <2>2, <2>3
  <2> QED
    BY <2>3, <2>6, <2>8, <2>9 DEF Contiguous, ConsecutiveFrom
<1>3. CASE es \in Batches
  BY <1>3, BatchContiguous
<1> QED
  BY <1>1, <1>2, <1>3 DEF RestoredStorages

\* The entries Bootstrap appends.
LEMMA BootstrapContiguous ==
  ASSUME NEW n \in Nat, n >= 1
  PROVE  LET e == [k \in 1..n |-> [index |-> k, term |-> 1]]
         IN  Contiguous(e) /\ Offset(e) = 1 /\ LastIndex(e) = n /\ e # <<>>
<1> DEFINE e == [k \in 1..n |-> [index |-> k, term |-> 1]]
<1>1. \A k \in 1..n : [index |-> k, term |-> 1] \in Entry
  BY DEF Entry
<1>2. e \in Seq(Entry) /\ Len(e) = n
  BY <1>1
<1>3. \A k \in 1..n : e[k].index = k
  OBVIOUS
<1> HIDE DEF e
<1>4. 1 \in 1..n
  OBVIOUS
<1>5. Offset(e) = 1
  BY <1>3, <1>4 DEF Offset
<1>6. LastIndex(e) = n
  <2>1. LastIndex(e) = Offset(e) + Len(e) - 1
    BY DEF LastIndex, Offset
  <2> QED
    BY <1>2, <1>5, <2>1
<1>7. ConsecutiveFrom(e, 1)
  <2>1. \A k \in 1..n : 1 + k - 1 = k
    OBVIOUS
  <2> QED
    BY <1>2, <1>3, <2>1 DEF ConsecutiveFrom
<1>8. Len(e) >= 1
  BY <1>2
<1>9. e # <<>>
  BY <1>8
<1> QED
  BY <1>2, <1>5, <1>6, <1>7, <1>8, <1>9 DEF Contiguous, e

\* newLogWithSize and Bootstrap establish the invariant.
LEMMA InitInv ==
  ASSUME Init
  PROVE  IndInv
<1>1. /\ snapshot = ents[1] /\ hardState = EmptyHardState /\ err = "nil"
      /\ handed = <<>> /\ held = "none"
  BY DEF Init
<1>2. Persisted = ents
  BY <1>1 DEF Persisted
<1>3. /\ err \in Errors /\ hardState \in HardStates /\ handed \in Seq(Entry)
  BY <1>1, StorageBounds DEF Errors
<1>4. ASSUME NEW es \in RestoredStorages, NewLog(es)
      PROVE  IndInv
  <2>1. /\ ents = es /\ offset = LastIndex(ents) + 1 /\ entries = <<>>
        /\ committed = FirstIndex(ents) - 1 /\ applied = FirstIndex(ents) - 1
    BY <1>4 DEF NewLog
  <2>2. /\ Contiguous(ents) /\ Offset(ents) \in Nat /\ LastIndex(ents) \in Nat
        /\ Offset(ents) <= LastIndex(ents) /\ ents \in Seq(Entry) /\ Len(ents) \in Nat /\ Len(ents) >= 1
    BY <2>1, RestoredContiguous, ContiguousProps
  <2>3. snapshot \in Entry
    <3>1. 1 \in 1..Len(ents)
      BY <2>2
    <3> QED
      BY <1>1, <2>2, <3>1
  <2>4. snapshot.index = Offset(ents) /\ snapshot.term = TermAt(ents, Offset(ents))
    <3>1. Offset(ents) - Offset(ents) + 1 = 1
      BY <2>2
    <3> QED
      BY <1>1, <3>1 DEF Offset, TermAt
  <2>5. committed = Offset(ents) /\ applied = Offset(ents)
    <3>1. FirstIndex(ents) = Offset(ents) + 1
      BY DEF FirstIndex, Offset
    <3> QED
      BY <2>1, <2>2, <3>1
  <2>6. Last = LastIndex(ents)
    BY <2>1 DEF Last
  <2>7. offset \in Nat /\ 1 <= offset
    BY <2>1, <2>2
  <2>8. \A i : ViewTerm(i) = TermAt(ents, i)
    BY <2>1 DEF ViewTerm
  <2>9. TypeOK
    <3>1. entries \in Seq(Entry)
      BY <2>1
    <3> QED
      BY <1>1, <1>3, <2>2, <2>3, <2>5, <2>7, <3>1 DEF TypeOK, StorageTypeOK
  <2>10. Windows
    BY <2>1, <2>2, <2>4, <2>5, <2>6, <2>7 DEF Windows
  <2>11. AgreesOnCommitted(ents) /\ MatchesLog(ents)
    BY <2>8 DEF AgreesOnCommitted, MatchesLog
  <2> QED
    BY <1>1, <1>2, <2>4, <2>8, <2>9, <2>10, <2>11 DEF IndInv, HandedWindow
<1>5. ASSUME NEW n \in 1..MaxPeers, NewLogBootstrapped(n)
      PROVE  IndInv
  <2>1. /\ ents = <<[index |-> 0, term |-> 0]>> /\ offset = 1 /\ committed = n /\ applied = 0
        /\ entries = [k \in 1..n |-> [index |-> k, term |-> 1]]
    BY <1>5 DEF NewLogBootstrapped
  <2>2. n \in Nat /\ n >= 1
    BY PeersBound
  <2>3. /\ Contiguous(ents) /\ Offset(ents) = 0 /\ LastIndex(ents) = 0 /\ Len(ents) = 1
        /\ ents[1] = [index |-> 0, term |-> 0]
    BY <2>1, DummyContiguous
  <2>4. ents \in Seq(Entry) /\ Len(ents) >= 1
    BY <2>3 DEF Contiguous
  <2>5. snapshot.index = 0 /\ snapshot.term = 0 /\ snapshot \in Entry
    BY <1>1, <2>3 DEF Entry
  <2>6. /\ Contiguous(entries) /\ Offset(entries) = 1 /\ LastIndex(entries) = n /\ entries # <<>>
    BY <2>1, <2>2, BootstrapContiguous
  <2>7. entries \in Seq(Entry) /\ Len(entries) \in Nat /\ Len(entries) = n
    BY <2>2, <2>6, ContiguousProps
  <2>8. Last = n
    <3>1. Last = offset + Len(entries) - 1
      BY <2>6 DEF Last, UnstableLast
    <3> QED
      BY <2>1, <2>2, <2>7, <3>1
  <2>9. ViewTerm(0) = TermAt(ents, 0) /\ TermAt(ents, 0) = 0
    <3>1. ~(0 >= offset)
      BY <2>1
    <3>2. 0 - Offset(ents) + 1 = 1
      BY <2>3
    <3>3. ents[1].term = 0
      BY <2>3
    <3> QED
      BY <3>1, <3>2, <3>3 DEF ViewTerm, TermAt
  <2>10. TypeOK
    BY <1>1, <1>3, <2>1, <2>2, <2>4, <2>5, <2>7 DEF TypeOK, StorageTypeOK
  <2>11. Windows
    BY <2>1, <2>2, <2>3, <2>5, <2>6, <2>8 DEF Windows
  <2>12. \A i \in 0..0 : TermAt(ents, i) = ViewTerm(i)
    BY <2>9
  <2>13. AgreesOnCommitted(ents) /\ MatchesLog(ents)
    <3>1. Min2(n, 0) = 0 /\ Min2(0, n) = 0
      BY <2>2 DEF Min2
    <3> QED
      BY <2>1, <2>3, <2>8, <2>12, <3>1 DEF AgreesOnCommitted, MatchesLog
  <2> QED
    BY <1>1, <1>2, <2>5, <2>9, <2>10, <2>11, <2>13 DEF IndInv, HandedWindow
<1> QED
  BY <1>4, <1>5 DEF Init

-----------------------------------------------------------------------------
\* The invariant, and what follows from it.

\* Every step either appends above committed or leaves the log as it is read.
LEMMA NextStep ==
  ASSUME IndInv, [Next]_vars
  PROVE  /\ IndInv'
         /\ (\E b \in Batches : Appends(b)) \/ SameView
<1>1. ASSUME NEW b \in Batches, RaftLogAppend(b)
      PROVE  IndInv' /\ (Appends(b) \/ SameView)
  <2>1. CASE Appends(b)
    BY <2>1, AppendKeeps
  <2>2. CASE err' = "panic" /\ UNCHANGED <<ents, snapshot, hardState, logVars>>
    <3>1. IndInv'
      BY <2>2, OnlyErrKeeps DEF Errors
    <3>2. SameView
      BY <2>2, LogFacts DEF SameView, logVars, Last, UnstableLast, ViewTerm
    <3> QED
      BY <3>1, <3>2
  <2> QED
    BY <1>1, <2>1, <2>2, AppendCases
<1>2. CASE HandOut
  BY <1>2, HandOutKeeps
<1>3. CASE Save
  BY <1>3, SaveKeeps
<1>4. CASE StableTo
  BY <1>4, StableToKeeps
<1>5. ASSUME NEW i \in 0..snapshot.index, CompactLog(i)
      PROVE  IndInv' /\ SameView
  BY <1>5, CompactKeeps
<1>6. ASSUME NEW i \in snapshot.index + 1..committed, SnapshotLog(i)
      PROVE  IndInv' /\ SameView
  BY <1>6, SnapshotKeeps
<1>7. CASE UNCHANGED vars
  <2>1. err' = err /\ UNCHANGED <<ents, snapshot, hardState, logVars>>
    BY <1>7 DEF vars, storageVars
  <2>2. err' \in Errors
    BY <2>1 DEF IndInv, TypeOK, StorageTypeOK
  <2>3. IndInv'
    BY <2>1, <2>2, OnlyErrKeeps
  <2>4. SameView
    BY <2>1, LogFacts DEF SameView, logVars, Last, UnstableLast, ViewTerm
  <2> QED
    BY <2>3, <2>4
<1> QED
  BY <1>1, <1>2, <1>3, <1>4, <1>5, <1>6, <1>7 DEF Next

\* Late writes and late reports never damage the log: IndInv is inductive.
THEOREM LogInvariant == Spec => []IndInv
<1>1. Init => IndInv
  BY InitInv
<1>2. IndInv /\ [Next]_vars => IndInv'
  BY NextStep
<1> QED
  BY <1>1, <1>2, PTL DEF Spec

\* The fields of raftLog, unstable and MemoryStorage keep their types.
THEOREM LogTypeCorrect == Spec => []TypeOK
<1>1. IndInv => TypeOK
  BY DEF IndInv
<1> QED
  BY <1>1, LogInvariant, PTL

\* TermOfFacts for all indices at once.
LEMMA TermOfLog ==
  IndInv => \A i \in Offset(ents)..Last : TermOf(i) = [term |-> ViewTerm(i), err |-> "nil"]
  BY TermOfFacts

\* The dummy entry of the storage lies right below firstIndex, at or below committed.
LEMMA FirstIsAboveDummy ==
  IndInv => Offset(ents) \in Nat /\ First - 1 = Offset(ents) /\ Last \in Nat /\ committed \in Nat
            /\ committed <= Last /\ Offset(ents) <= committed
<1> SUFFICES ASSUME IndInv
             PROVE  /\ Offset(ents) \in Nat /\ First - 1 = Offset(ents) /\ Last \in Nat
                    /\ committed \in Nat /\ committed <= Last /\ Offset(ents) <= committed
  OBVIOUS
<1>1. /\ Offset(ents) \in Nat /\ First = Offset(ents) + 1 /\ Last \in Nat /\ committed \in Nat
      /\ committed <= Last /\ snapshot.index \in Nat
      /\ Offset(ents) <= snapshot.index /\ snapshot.index <= committed
  BY LogFacts, OrderFacts
<1> QED
  BY <1>1

\* No gap opens between the storage and unstable.
THEOREM LogHasNoGap == Spec => []NoGap
<1>1. IndInv => NoGap
  <2> SUFFICES ASSUME IndInv PROVE NoGap
    OBVIOUS
  <2>1. offset <= LastIndex(ents) + 1
    BY OrderFacts
  <2>2. \A i \in First - 1..Last : TermOf(i).err = "nil"
    BY TermOfLog, FirstIsAboveDummy
  <2> QED
    BY <2>1, <2>2 DEF NoGap
<1> QED
  BY <1>1, LogInvariant, PTL

\* A snapshot records the term of the committed entry.
THEOREM SnapshotTermIsRight == Spec => []SnapshotTermRight
<1>1. IndInv => SnapshotTermRight
  <2> SUFFICES ASSUME IndInv PROVE snapshot.term = TermOf(snapshot.index).term
    BY DEF SnapshotTermRight
  <2>1. snapshot.index \in Offset(ents)..Last
    BY LogFacts, OrderFacts
  <2>2. TermOf(snapshot.index) = [term |-> ViewTerm(snapshot.index), err |-> "nil"]
    BY <2>1, TermOfLog
  <2> QED
    BY <2>2 DEF IndInv
<1> QED
  BY <1>1, LogInvariant, PTL

\* The application's writes, snapshots and compactions never panic.
THEOREM StorageIsSafe == Spec => StorageNeverPanics
<1>1. IndInv /\ [Next]_vars =>
        [(Save \/ \E i \in Index : SnapshotLog(i) \/ CompactLog(i)) => err' # "panic"]_vars
  BY SaveKeeps, SnapshotKeeps, CompactKeeps
<1> QED
  BY <1>1, LogInvariant, PTL DEF Spec, StorageNeverPanics

\* Committed entries keep their terms.
THEOREM CommittedIsStable == Spec => CommittedStable
<1>1. (IndInv => \A i \in Offset(ents)..Last : TermOf(i) = [term |-> ViewTerm(i), err |-> "nil"])'
  BY TermOfLog, PTL
<1>2. (IndInv => Offset(ents) \in Nat /\ First - 1 = Offset(ents) /\ Last \in Nat
                 /\ committed \in Nat /\ committed <= Last /\ Offset(ents) <= committed)'
  BY FirstIsAboveDummy, PTL
<1>3. ASSUME IndInv, [Next]_vars, NEW i \in First - 1..committed, i >= First' - 1
      PROVE  TermOf(i)' = TermOf(i)
  <2>1. IndInv'
    BY <1>3, NextStep
  <2>2. i \in Nat /\ i \in Offset(ents)..Last /\ i <= committed /\ i >= Offset(ents')
    BY <1>2, <1>3, <2>1, FirstIsAboveDummy
  <2>3. TermOf(i) = [term |-> ViewTerm(i), err |-> "nil"]
    BY <1>3, <2>2, TermOfLog
  <2>4. i \in Offset(ents')..Last' /\ ViewTerm(i)' = ViewTerm(i)
    <3>1. ASSUME NEW b \in Batches, Appends(b)
          PROVE  i \in Offset(ents')..Last' /\ ViewTerm(i)' = ViewTerm(i)
      <4>1. /\ Last' = LastIndex(b) /\ Last' \in Nat /\ Offset(b) \in Nat
            /\ committed < Offset(b) /\ Offset(b) <= LastIndex(b)
        BY <1>3, <3>1, AppendView
      <4>2. \A j \in Offset(ents)..LastIndex(b) :
              ViewTerm(j)' = IF j >= Offset(b) THEN TermAt(b, j) ELSE ViewTerm(j)
        BY <1>3, <3>1, AppendView
      <4>3. i \in Offset(ents)..LastIndex(b) /\ ~(i >= Offset(b)) /\ i \in Offset(ents')..Last'
        BY <1>2, <1>3, <2>1, <2>2, <4>1, FirstIsAboveDummy
      <4> QED
        BY <4>2, <4>3
    <3>2. CASE SameView
      <4>1. i \in Offset(ents')..Last
        BY <1>2, <1>3, <2>1, <2>2, FirstIsAboveDummy
      <4> QED
        BY <3>2, <4>1 DEF SameView
    <3> QED
      BY <1>3, <3>1, <3>2, NextStep
  <2>5. TermOf(i)' = [term |-> ViewTerm(i)', err |-> "nil"]
    BY <1>1, <2>1, <2>4
  <2> QED
    BY <2>3, <2>4, <2>5
<1>4. IndInv /\ [Next]_vars =>
        [\A i \in First - 1..committed : i >= First' - 1 => TermOf(i)' = TermOf(i)]_vars
  BY <1>3
<1> QED
  BY <1>4, LogInvariant, PTL DEF Spec, CommittedStable

-----------------------------------------------------------------------------
\* RaftLog implements AbstractLog.

\* The log AbstractLog sees.
LEMMA AbstractView ==
  IndInv => [i \in First - 1..Last |-> TermOf(i).term] = [i \in Offset(ents)..Last |-> ViewTerm(i)]
<1> SUFFICES ASSUME IndInv
             PROVE  [i \in First - 1..Last |-> TermOf(i).term] =
                      [i \in Offset(ents)..Last |-> ViewTerm(i)]
  OBVIOUS
<1>1. First - 1 = Offset(ents)
  BY FirstIsAboveDummy
<1>2. \A i \in Offset(ents)..Last : TermOf(i).term = ViewTerm(i)
  BY TermOfLog
<1> QED
  BY <1>1, <1>2

\* Every step of the log is an append, a compaction or invisible.
LEMMA StepRefines ==
  ASSUME IndInv, [Next]_vars
  PROVE  [Abs!AbsNext]_(Abs!absVars)
<1> DEFINE View == [i \in First - 1..Last |-> TermOf(i).term]
<1>1. (IndInv => [i \in First - 1..Last |-> TermOf(i).term] =
                   [i \in Offset(ents)..Last |-> ViewTerm(i)])'
  BY AbstractView, PTL
<1>2. (IndInv => Offset(ents) \in Nat /\ First - 1 = Offset(ents) /\ Last \in Nat
                 /\ committed \in Nat /\ committed <= Last /\ Offset(ents) <= committed)'
  BY FirstIsAboveDummy, PTL
<1>3. IndInv'
  BY NextStep
<1>4. View = [i \in Offset(ents)..Last |-> ViewTerm(i)]
  BY AbstractView
<1>5. View' = [i \in Offset(ents')..Last' |-> ViewTerm(i)']
  BY <1>1, <1>3
<1>6. /\ Offset(ents) \in Nat /\ First - 1 = Offset(ents) /\ Last \in Nat
      /\ committed \in Nat /\ committed <= Last /\ Offset(ents) <= committed
  BY FirstIsAboveDummy
<1>7. /\ Offset(ents') \in Nat /\ First' - 1 = Offset(ents') /\ Last' \in Nat
      /\ committed' \in Nat /\ committed' <= Last' /\ Offset(ents') <= committed'
  BY <1>2, <1>3
<1> HIDE DEF View
<1>8. ASSUME NEW b \in Batches, Appends(b)
      PROVE  Abs!AbsAppend(b)
  <2>1. /\ Last' = LastIndex(b) /\ Last' \in Nat
        /\ Offset(b) \in Nat /\ committed < Offset(b) /\ Offset(b) <= Last + 1
        /\ Offset(b) <= LastIndex(b)
    BY <1>8, AppendView
  <2>2. \A i \in Offset(ents)..LastIndex(b) :
          ViewTerm(i)' = IF i >= Offset(b) THEN TermAt(b, i) ELSE ViewTerm(i)
    BY <1>8, AppendView
  <2>3. ents' = ents /\ committed' = committed
    BY <1>8 DEF Appends
  <2>4. b[1].index = Offset(b) /\ LastIndex(b) = b[1].index + Len(b) - 1
    BY DEF Offset, LastIndex
  <2>5. Offset(b) \in committed + 1..Last + 1
    BY <1>6, <2>1
  <2>6. View' = [i \in Offset(ents)..LastIndex(b) |->
                   IF i < Offset(b) THEN View[i] ELSE TermAt(b, i)]
    <3>1. View' = [i \in Offset(ents)..LastIndex(b) |-> ViewTerm(i)']
      BY <1>5, <2>1, <2>3
    <3>2. ASSUME NEW i \in Offset(ents)..LastIndex(b)
          PROVE  ViewTerm(i)' = IF i < Offset(b) THEN View[i] ELSE TermAt(b, i)
      <4>1. CASE i < Offset(b)
        <5>1. i \in Offset(ents)..Last /\ ~(i >= Offset(b))
          BY <1>6, <2>1, <4>1
        <5>2. View[i] = ViewTerm(i)
          BY <1>4, <5>1
        <5> QED
          BY <2>2, <4>1, <5>1, <5>2
      <4>2. CASE ~(i < Offset(b))
        <5>1. i >= Offset(b)
          BY <1>6, <2>1, <4>2
        <5> QED
          BY <2>2, <4>2, <5>1
      <4> QED
        BY <4>1, <4>2
    <3> QED
      BY <3>1, <3>2, ZenonT(60)
  <2>7. View' = [i \in First - 1..Last' |->
                   IF i < b[1].index THEN View[i] ELSE b[i - b[1].index + 1].term]
    BY <1>6, <2>1, <2>4, <2>6 DEF TermAt
  <2>8. First' = First
    BY <2>3 DEF First
  <2> QED
    BY <2>1, <2>3, <2>4, <2>5, <2>7, <2>8, ZenonT(60) DEF Abs!AbsAppend, View
<1>9. CASE SameView
  <2>1. /\ committed' = committed /\ Last' = Last
        /\ Offset(ents) <= Offset(ents')
        /\ \A i \in Offset(ents')..Last : ViewTerm(i)' = ViewTerm(i)
    BY <1>9 DEF SameView
  <2>2. View' = [i \in Offset(ents')..Last |-> ViewTerm(i)]
    BY <1>5, <2>1
  <2>3. CASE Offset(ents') = Offset(ents)
    <3>1. View' = View
      BY <1>4, <2>2, <2>3
    <3>2. First' - 1 = First - 1
      BY <1>6, <1>7, <2>3
    <3> QED
      BY <2>1, <3>1, <3>2 DEF Abs!absVars, View
  <2>4. CASE Offset(ents') # Offset(ents)
    <3>1. Offset(ents') \in (First - 1) + 1..committed
      BY <1>6, <1>7, <2>1, <2>4
    <3>2. \A i \in Offset(ents')..Last : View[i] = ViewTerm(i)
      <4>1. \A i \in Offset(ents')..Last : i \in Offset(ents)..Last
        BY <1>6, <1>7, <2>1
      <4> QED
        BY <1>4, <4>1
    <3>3. View' = [i \in Offset(ents')..Last |-> View[i]]
      BY <2>2, <3>2
    <3>4. Abs!AbsCompact(Offset(ents'))
      BY <1>7, <2>1, <3>1, <3>3, Zenon DEF Abs!AbsCompact, View
    <3> QED
      BY <3>1, <3>4 DEF Abs!AbsNext
  <2> QED
    BY <2>3, <2>4
<1>10. CASE \E b \in Batches : Appends(b)
  BY <1>8, <1>10 DEF Abs!AbsNext
<1> QED
  BY <1>9, <1>10, NextStep

\* Stable and unstable storage, hand-outs, late reports and snapshots are
\* invisible: the log implements the one-window log.
THEOREM LogRefinesAbstractLog == Spec => RefinesAbstractLog
<1>1. Init => Abs!AbsInit
  <2> SUFFICES ASSUME Init PROVE Abs!AbsInit
    OBVIOUS
  <2>1. IndInv
    BY InitInv
  <2>2. /\ Offset(ents) \in Nat /\ First - 1 = Offset(ents) /\ Last \in Nat
        /\ committed \in Nat /\ committed <= Last /\ Offset(ents) <= committed
    BY <2>1, FirstIsAboveDummy
  <2>3. committed \in First - 1..Last
    BY <2>2
  <2> QED
    BY <2>2, <2>3 DEF Abs!AbsInit
<1>2. IndInv /\ [Next]_vars => [Abs!AbsNext]_(Abs!absVars)
  BY StepRefines
<1> QED
  BY <1>1, <1>2, LogInvariant, PTL DEF Spec, RefinesAbstractLog, Abs!AbsSpec

-----------------------------------------------------------------------------
\* What slice and nextEnts return.

\* The entries of the log from lo on.
Serves(s, lo) ==
  /\ s \in Seq(Entry)
  /\ \A k \in 1..Len(s) : s[k].index = lo + k - 1 /\ s[k].term = ViewTerm(lo + k - 1)

\* A size limit cuts to a non-empty prefix.
LEMMA LimitServes ==
  ASSUME NEW s, NEW lo \in Nat, NEW max \in Nat, Serves(s, lo), s # <<>>
  PROVE  /\ Serves(LimitSize(s, max), lo)
         /\ Len(LimitSize(s, max)) \in 1..Len(s)
         /\ max >= Len(s) => Len(LimitSize(s, max)) = Len(s)
<1>1. s \in Seq(Entry) /\ Len(s) \in Nat
  BY DEF Serves
<1>2. /\ LimitSize(s, max) \in Seq(Entry) /\ Len(LimitSize(s, max)) \in 1..Len(s)
      /\ max >= Len(s) => Len(LimitSize(s, max)) = Len(s)
      /\ \A k \in 1..Len(LimitSize(s, max)) : LimitSize(s, max)[k] = s[k]
  BY <1>1, LimitSizeProps
<1>3. \A k \in 1..Len(LimitSize(s, max)) : k \in 1..Len(s)
  BY <1>1, <1>2
<1> QED
  BY <1>2, <1>3, ZenonT(60) DEF Serves

\* Two adjoining pieces.
LEMMA ConcatServes ==
  ASSUME NEW s, NEW t, NEW lo \in Nat, Serves(s, lo), Serves(t, lo + Len(s))
  PROVE  Serves(s \o t, lo) /\ Len(s \o t) = Len(s) + Len(t)
<1>1. s \in Seq(Entry) /\ t \in Seq(Entry) /\ Len(s) \in Nat /\ Len(t) \in Nat
  BY DEF Serves
<1>2. s \o t \in Seq(Entry) /\ Len(s \o t) = Len(s) + Len(t)
  BY <1>1
<1>3. ASSUME NEW k \in 1..Len(s \o t)
      PROVE  (s \o t)[k].index = lo + k - 1 /\ (s \o t)[k].term = ViewTerm(lo + k - 1)
  <2>1. CASE k <= Len(s)
    <3>1. k \in 1..Len(s)
      BY <1>1, <1>2, <2>1
    <3>2. (s \o t)[k] = s[k]
      BY <1>1, <3>1
    <3> QED
      BY <3>1, <3>2 DEF Serves
  <2>2. CASE k > Len(s)
    <3>1. k - Len(s) \in 1..Len(t)
      BY <1>1, <1>2, <2>2
    <3>2. (s \o t)[k] = t[k - Len(s)]
      BY <1>1, <1>2, <2>2
    <3>3. (lo + Len(s)) + (k - Len(s)) - 1 = lo + k - 1
      BY <1>1, <1>2
    <3> QED
      BY <3>1, <3>2, <3>3 DEF Serves
  <2> QED
    BY <1>1, <1>2, <2>1, <2>2
<1> QED
  BY <1>2, <1>3 DEF Serves

\* unstable.slice
LEMMA TailServes ==
  ASSUME IndInv, NEW l \in Nat, NEW h \in Nat, offset <= l, l < h, h <= Last + 1
  PROVE  /\ Serves(UnstableSlice(l, h), l) /\ Len(UnstableSlice(l, h)) = h - l
         /\ UnstableInBounds(l, h)
<1> DEFINE a == l - offset
           b == h - offset
           s == SubSeq(entries, a + 1, b)
<1>1. offset \in Nat /\ Last \in Nat /\ entries \in Seq(Entry) /\ Len(entries) \in Nat
  BY LogFacts
<1>2. entries # <<>>
  <2> SUFFICES ASSUME entries = <<>> PROVE FALSE
    OBVIOUS
  <2>1. offset = Last + 1
    BY LogFacts
  <2> QED
    BY <1>1, <2>1
<1>3. Contiguous(entries) /\ Offset(entries) = offset /\ offset + Len(entries) - 1 = Last
  BY <1>2, LogFacts
<1>4. a \in Nat /\ b \in Nat /\ a < b /\ b <= Len(entries) /\ b - a = h - l /\ a + offset = l
  BY <1>1, <1>3
<1>5. UnstableInBounds(l, h)
  BY <1>1, <1>3 DEF UnstableInBounds
<1>6. UnstableSlice(l, h) = s
  BY DEF UnstableSlice
<1>7. \A j \in 1..Len(entries) : entries[j].index = offset + j - 1
  BY <1>3 DEF Contiguous, ConsecutiveFrom
<1> HIDE DEF a, b
<1>8. Len(s) = b - a
  BY <1>1, <1>4
<1>9. s \in Seq(Entry)
  BY <1>1, <1>4, <1>8
<1>10. \A k \in 1..b - a : s[k] = entries[k + a]
  BY <1>1, <1>4, <1>8
<1> HIDE DEF s
<1>11. ASSUME NEW k \in 1..Len(s)
       PROVE  s[k].index = l + k - 1 /\ s[k].term = ViewTerm(l + k - 1)
  <2>1. k \in Nat /\ 1 <= k /\ k <= b - a /\ s[k] = entries[k + a]
    BY <1>4, <1>8, <1>10
  <2>2. k + a \in 1..Len(entries)
    BY <2>1, <1>1, <1>4
  <2>3. entries[k + a].index = offset + (k + a) - 1
    BY <2>2, <1>7
  <2>4. offset + (k + a) - 1 = l + k - 1 /\ k + a = (l + k - 1) - offset + 1 /\ l + k - 1 >= offset
    BY <2>1, <1>1, <1>4
  <2>5. ViewTerm(l + k - 1) = entries[k + a].term
    BY <2>4, <1>2, <1>3 DEF ViewTerm, TermAt
  <2> QED
    BY <2>1, <2>3, <2>4, <2>5
<1> QED
  BY <1>4, <1>5, <1>6, <1>8, <1>9, <1>11 DEF Serves

\* Entries of the storage, below offset.
LEMMA StoredServes ==
  ASSUME IndInv, NEW l \in Nat, NEW h \in Nat, NEW max \in Nat, First <= l, l < h, h <= offset
  PROVE  LET r == StorageEntries(ents, l, h, max)
         IN  /\ r.err = "nil" /\ Serves(r.ents, l) /\ Len(r.ents) \in 1..h - l
             /\ max >= h - l => Len(r.ents) = h - l
<1> DEFINE r == StorageEntries(ents, l, h, max)
<1>1. /\ Contiguous(ents) /\ Offset(ents) \in Nat /\ LastIndex(ents) \in Nat /\ offset \in Nat
      /\ First = Offset(ents) + 1 /\ offset <= LastIndex(ents) + 1
  BY LogFacts, OrderFacts
<1>2. Offset(ents) < l /\ h <= LastIndex(ents) + 1
  BY <1>1
<1>3. /\ r.err = "nil" /\ r.ents \in Seq(Entry) /\ Len(r.ents) \in 1..h - l
      /\ max >= h - l => Len(r.ents) = h - l
      /\ \A k \in 1..Len(r.ents) : r.ents[k].index = l + k - 1 /\ r.ents[k].term = TermAt(ents, l + k - 1)
  BY <1>1, <1>2, EntriesProps
<1> HIDE DEF r
<1>4. ASSUME NEW k \in 1..Len(r.ents) PROVE TermAt(ents, l + k - 1) = ViewTerm(l + k - 1)
  <2>1. l + k - 1 < offset
    BY <1>1, <1>3
  <2>2. ~(l + k - 1 >= offset)
    BY <2>1, <1>1, <1>3
  <2> QED
    BY <2>2 DEF ViewTerm
<1> QED
  BY <1>3, <1>4 DEF Serves, r

\* slice of a legal range.
LEMMA SliceServes ==
  ASSUME IndInv, NEW lo \in Nat, NEW hi \in Nat, NEW max \in Nat, First <= lo, lo < hi, hi <= Last + 1
  PROVE  LET r == Slice(lo, hi, max)
         IN  /\ r.err = "nil" /\ Serves(r.ents, lo) /\ Len(r.ents) \in 1..hi - lo
             /\ max >= hi - lo => Len(r.ents) = hi - lo
<1> DEFINE r == Slice(lo, hi, max)
<1>1. offset \in Nat /\ Last \in Nat /\ First \in Nat
  BY LogFacts
<1>2. BoundsOutcome(lo, hi) = "nil" /\ lo # hi
  BY <1>1 DEF BoundsOutcome
\* All of it is in the storage.
<1>3. CASE hi <= offset
  <2> DEFINE e == StorageEntries(ents, lo, hi, max)
  <2>1. /\ e.err = "nil" /\ Serves(e.ents, lo) /\ Len(e.ents) \in 1..hi - lo
        /\ max >= hi - lo => Len(e.ents) = hi - lo
    BY <1>3, StoredServes, Zenon
  <2>2. Min2(hi, offset) = hi /\ lo < offset /\ ~(hi > offset)
    BY <1>1, <1>3 DEF Min2
  <2>3. r = IF Len(e.ents) < hi - lo THEN e
            ELSE [ents |-> LimitSize(e.ents \o <<>>, max), err |-> "nil"]
    BY <1>2, <2>1, <2>2 DEF Slice
  <2> HIDE DEF e, r
  <2>4. CASE Len(e.ents) < hi - lo
    <3>1. r = e
      BY <2>3, <2>4
    <3> QED
      BY <2>1, <3>1 DEF r
  <2>5. CASE ~(Len(e.ents) < hi - lo)
    <3>1. Len(e.ents) = hi - lo /\ Len(e.ents) # 0
      BY <2>1, <2>5
    <3>2. e.ents \in Seq(Entry) /\ e.ents # <<>>
      BY <2>1, <3>1 DEF Serves
    <3>3. e.ents \o <<>> = e.ents
      BY <3>2
    <3>4. r = [ents |-> LimitSize(e.ents, max), err |-> "nil"]
      BY <2>3, <2>5, <3>3
    <3>5. /\ Serves(LimitSize(e.ents, max), lo)
          /\ Len(LimitSize(e.ents, max)) \in 1..Len(e.ents)
          /\ max >= Len(e.ents) => Len(LimitSize(e.ents, max)) = Len(e.ents)
      BY <2>1, <3>2, LimitServes
    <3> QED
      BY <3>1, <3>4, <3>5 DEF r
  <2>6. QED
    BY <2>4, <2>5 DEF r
\* All of it is in unstable.
<1>4. CASE lo >= offset
  <2> DEFINE t == UnstableSlice(lo, hi)
  <2>1. Serves(t, lo) /\ Len(t) = hi - lo /\ UnstableInBounds(lo, hi)
    BY <1>4, TailServes
  <2>2. Max2(lo, offset) = lo /\ ~(lo < offset) /\ hi > offset
    BY <1>1, <1>4 DEF Max2
  <2>3. r = [ents |-> LimitSize(<<>> \o t, max), err |-> "nil"]
    BY <1>2, <2>1, <2>2 DEF Slice
  <2> HIDE DEF t, r
  <2>4. t \in Seq(Entry) /\ t # <<>>
    BY <2>1 DEF Serves
  <2>5. <<>> \o t = t
    BY <2>4
  <2>6. r = [ents |-> LimitSize(t, max), err |-> "nil"]
    BY <2>3, <2>5
  <2>7. QED
    BY <2>1, <2>4, <2>6, LimitServes DEF r
\* It spans offset.
<1>5. CASE lo < offset /\ offset < hi
  <2> DEFINE e == StorageEntries(ents, lo, offset, max)
             t == UnstableSlice(offset, hi)
  <2>1. /\ e.err = "nil" /\ Serves(e.ents, lo) /\ Len(e.ents) \in 1..offset - lo
        /\ max >= offset - lo => Len(e.ents) = offset - lo
    <3>1. lo < offset /\ offset <= offset /\ offset \in Nat
      BY <1>1, <1>5
    <3> QED
      BY <3>1, StoredServes, Zenon
  <2>2. Serves(t, offset) /\ Len(t) = hi - offset /\ UnstableInBounds(offset, hi)
    BY <1>1, <1>5, TailServes
  <2>3. Min2(hi, offset) = offset /\ Max2(lo, offset) = offset
    BY <1>1, <1>5 DEF Min2, Max2
  <2>4. r = IF Len(e.ents) < offset - lo THEN e
            ELSE [ents |-> LimitSize(e.ents \o t, max), err |-> "nil"]
    BY <1>2, <1>5, <2>1, <2>2, <2>3 DEF Slice
  <2> HIDE DEF e, t, r
  <2>5. CASE Len(e.ents) < offset - lo
    <3>1. r = e
      BY <2>4, <2>5
    <3>2. Len(e.ents) \in 1..hi - lo /\ ~(max >= hi - lo)
      BY <1>1, <1>5, <2>1, <2>5
    <3> QED
      BY <2>1, <3>1, <3>2 DEF r
  <2>6. CASE ~(Len(e.ents) < offset - lo)
    <3>1. Len(e.ents) = offset - lo /\ lo + Len(e.ents) = offset
      BY <1>1, <1>5, <2>1, <2>6
    <3>2. Serves(e.ents \o t, lo) /\ Len(e.ents \o t) = Len(e.ents) + Len(t)
      BY <2>1, <2>2, <3>1, ConcatServes, Zenon
    <3>3. Len(e.ents \o t) = hi - lo
      BY <1>1, <2>2, <3>1, <3>2
    <3>4. e.ents \o t # <<>>
      BY <3>3
    <3>5. r = [ents |-> LimitSize(e.ents \o t, max), err |-> "nil"]
      BY <2>4, <2>6
    <3>6. /\ Serves(LimitSize(e.ents \o t, max), lo)
          /\ Len(LimitSize(e.ents \o t, max)) \in 1..Len(e.ents \o t)
          /\ max >= Len(e.ents \o t) => Len(LimitSize(e.ents \o t, max)) = Len(e.ents \o t)
      BY <3>2, <3>4, LimitServes, ZenonT(60)
    <3> QED
      BY <3>3, <3>5, <3>6 DEF r
  <2>7. QED
    BY <2>5, <2>6
<1> QED
  BY <1>1, <1>3, <1>4, <1>5

\* slice answers every legal range with the right entries, whatever stale entries
\* the storage still holds behind offset.
THEOREM SliceAlwaysServed == Spec => []SliceServed
<1>1. IndInv => SliceServed
  <2> SUFFICES ASSUME IndInv, NEW lo \in First..Last + 1, NEW hi \in First..Last + 1,
                      NEW max \in {0, 1, MaxIndex}, lo < hi
               PROVE  LET r == Slice(lo, hi, max)
                      IN  /\ r.err = "nil"
                          /\ Len(r.ents) \in 1..hi - lo
                          /\ max >= hi - lo => Len(r.ents) = hi - lo
                          /\ \A k \in 1..Len(r.ents) :
                               /\ r.ents[k].index = lo + k - 1
                               /\ r.ents[k].term = TermOf(lo + k - 1).term
    BY ZenonT(60) DEF SliceServed
  <2> DEFINE r == Slice(lo, hi, max)
  <2>1. Offset(ents) \in Nat /\ First = Offset(ents) + 1 /\ Last \in Nat
    BY LogFacts
  <2>2. max \in Nat
    BY StorageBounds
  <2>3. lo \in Nat /\ hi \in Nat /\ First <= lo /\ hi <= Last + 1
    BY <2>1
  <2>4. /\ r.err = "nil" /\ Serves(r.ents, lo) /\ Len(r.ents) \in 1..hi - lo
        /\ max >= hi - lo => Len(r.ents) = hi - lo
    BY <2>2, <2>3, SliceServes, Zenon
  <2> HIDE DEF r
  <2>5. ASSUME NEW k \in 1..Len(r.ents)
        PROVE  r.ents[k].index = lo + k - 1 /\ r.ents[k].term = TermOf(lo + k - 1).term
    <3>1. lo + k - 1 \in Offset(ents)..Last
      BY <2>1, <2>3, <2>4
    <3>2. TermOf(lo + k - 1).term = ViewTerm(lo + k - 1)
      BY <3>1, TermOfLog
    <3> QED
      BY <2>4, <3>2 DEF Serves
  <2> QED
    BY <2>4, <2>5 DEF r
<1> QED
  BY <1>1, LogInvariant, PTL

\* nextEnts hands every committed entry to the state machine, in order.
THEOREM NextEntsAlwaysServed == Spec => []NextEntsServed
<1>1. IndInv => NextEntsServed
  <2> SUFFICES ASSUME IndInv PROVE NextEntsServed
    OBVIOUS
  <2>1. /\ Offset(ents) \in Nat /\ First = Offset(ents) + 1 /\ Last \in Nat
        /\ committed \in Nat /\ applied \in Nat /\ applied <= committed /\ committed <= Last
    BY LogFacts, OrderFacts
  <2>2. NextOff \in Nat /\ First <= NextOff /\ committed + 1 \in Nat /\ committed + 1 <= Last + 1
    BY <2>1 DEF NextOff, Max2
  <2>3. ASSUME HasNextEnts, NEW max \in {0, MaxIndex}
        PROVE  LET r == NextEnts(max)
               IN  r.err = "nil" /\ r.ents # <<>> /\ r.ents[1].index = NextOff
    <3> DEFINE r == Slice(NextOff, committed + 1, max)
    <3>1. max \in Nat
      BY StorageBounds
    <3>2. NextOff < committed + 1
      BY <2>1, <2>2, <2>3 DEF HasNextEnts
    <3>3. r.err = "nil" /\ Serves(r.ents, NextOff) /\ Len(r.ents) \in 1..(committed + 1) - NextOff
      BY <2>2, <3>1, <3>2, SliceServes, ZenonT(60)
    <3> HIDE DEF r
    <3>4. Len(r.ents) \in Nat /\ Len(r.ents) >= 1
      BY <2>1, <2>2, <3>3
    <3>5. r.ents # <<>> /\ 1 \in 1..Len(r.ents)
      BY <3>4
    <3>6. r.ents[1].index = NextOff + 1 - 1
      BY <3>3, <3>5 DEF Serves
    <3>7. r.ents[1].index = NextOff
      BY <2>2, <3>6
    <3> QED
      BY <3>3, <3>5, <3>7 DEF NextEnts, r
  <2> QED
    BY <2>1, <2>3 DEF NextEntsServed
<1> QED
  BY <1>1, LogInvariant, PTL

=============================================================================
