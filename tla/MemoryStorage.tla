---------------------------- MODULE MemoryStorage ----------------------------
(***************************************************************************)
(* The in-memory stable store of a raft node, raft.MemoryStorage           *)
(* (raft/storage.go).  Every method takes the embedded mutex for its whole *)
(* body, so one method call is one step.                                   *)
(*                                                                         *)
(* ents is the Go slice ms.ents moved to base 1: ents[1] is the dummy      *)
(* entry (ms.ents[0]) that remembers the index and term of the last        *)
(* compacted entry.  An entry is its Index and Term; the payload is never  *)
(* looked at by the code of this component.                                *)
(***************************************************************************)
EXTENDS Integers, Sequences, FiniteSets

CONSTANTS
  MaxIndex,        \* bound on the log positions a client uses
  MaxTerm,         \* bound on the terms of entries
  MaxBatch,        \* bound on the length of one Append call
  HardStates,      \* the HardState values a client stores
  EmptyHardState   \* the zero HardState of a new storage

ASSUME StorageBounds ==
  /\ MaxIndex \in Nat /\ MaxTerm \in Nat /\ MaxBatch \in Nat
  /\ EmptyHardState \in HardStates

VARIABLES
  ents,       \* ms.ents, the dummy entry first
  snapshot,   \* ms.snapshot.Metadata, index and term
  hardState,  \* ms.hardState
  err         \* how the last call ended: an error, "nil" or "panic"

storageVars == <<ents, snapshot, hardState, err>>

Index == 0..MaxIndex
Term == 0..MaxTerm

Entry == [index : Nat, term : Nat]

Errors == {"nil", "ErrCompacted", "ErrUnavailable", "ErrSnapOutOfDate", "panic"}

\* The entries of a slice have consecutive indices, starting at i.
ConsecutiveFrom(es, i) == \A k \in 1..Len(es) : es[k].index = i + k - 1

\* The argument of an Append call: a non-empty slice of consecutive entries.
Batch(i, t) == [k \in 1..Len(t) |-> [index |-> i + k - 1, term |-> t[k]]]
TermSeqs == UNION {[1..n -> 1..MaxTerm] : n \in 1..MaxBatch}
Batches ==
  {Batch(it[1], it[2]) : it \in {jt \in (1..MaxIndex) \X TermSeqs : jt[1] + Len(jt[2]) - 1 <= MaxIndex}}

-----------------------------------------------------------------------------
\* What the methods read.

Min2(a, b) == IF a < b THEN a ELSE b
Max2(a, b) == IF a > b THEN a ELSE b

Offset(es) == es[1].index
FirstIndex(es) == es[1].index + 1
LastIndex(es) == es[1].index + Len(es) - 1

\* What an invariant says of a slice: it is non-empty with consecutive indices;
\* and the term it holds at index i.
Contiguous(es) == es \in Seq(Entry) /\ Len(es) >= 1 /\ ConsecutiveFrom(es, Offset(es))
TermAt(es, i) == es[i - Offset(es) + 1].term

\* The longest prefix that fits into maxSize, and never less than one entry;
\* sizes are counted in entries.
LimitSize(es, maxSize) ==
  IF es = <<>> THEN es ELSE SubSeq(es, 1, Max2(1, Min2(maxSize, Len(es))))

\* ms.Term(i): the term and the error it returns.
StorageTerm(es, i) ==
  IF i < Offset(es) THEN [term |-> 0, err |-> "ErrCompacted"]
  ELSE IF i - Offset(es) >= Len(es) THEN [term |-> 0, err |-> "ErrUnavailable"]
  ELSE [term |-> es[i - Offset(es) + 1].term, err |-> "nil"]

\* ms.Entries(lo, hi, maxSize): the entries and the error it returns.
StorageEntries(es, lo, hi, maxSize) ==
  IF lo <= Offset(es) THEN [ents |-> <<>>, err |-> "ErrCompacted"]
  ELSE IF hi > LastIndex(es) + 1 THEN [ents |-> <<>>, err |-> "panic"]
  ELSE IF Len(es) = 1 THEN [ents |-> <<>>, err |-> "ErrUnavailable"]
  ELSE [ents |-> LimitSize(SubSeq(es, lo - Offset(es) + 1, hi - Offset(es)), maxSize),
        err |-> "nil"]

-----------------------------------------------------------------------------
\* What the methods compute.

\* Mistake: the overlap with the compacted part is not cut off.
UncompactedNot(es, batch) == batch

\* The part of a batch that lies above the dummy entry.
Uncompacted(es, batch) ==
  IF FirstIndex(es) > batch[1].index
  THEN SubSeq(batch, FirstIndex(es) - batch[1].index + 1, Len(batch))
  ELSE batch

\* Mistake: a batch that starts right behind the last entry counts as a gap.
AppendOutcomeNoExtend(es, batch) ==
  IF batch[1].index + Len(batch) - 1 >= FirstIndex(es) /\ batch[1].index > LastIndex(es)
  THEN "panic" ELSE "nil"

\* A batch that ends below the first index is dropped, a batch that leaves a
\* gap behind the last index panics.
AppendOutcome(es, batch) ==
  IF batch[1].index + Len(batch) - 1 >= FirstIndex(es) /\ batch[1].index > LastIndex(es) + 1
  THEN "panic" ELSE "nil"

\* The entries after an Append that does not panic: what the batch overlaps is
\* cut off and replaced.
Appended(es, batch) ==
  IF batch[1].index + Len(batch) - 1 < FirstIndex(es) THEN es
  ELSE LET new == Uncompacted(es, batch)
       IN  SubSeq(es, 1, new[1].index - Offset(es)) \o new

CompactOutcome(es, i) ==
  IF i <= Offset(es) THEN "ErrCompacted"
  ELSE IF i > LastIndex(es) THEN "panic" ELSE "nil"

\* The compacted entry becomes the dummy entry.
Compacted(es, i) == SubSeq(es, i - Offset(es) + 1, Len(es))

\* ents[i-offset] is out of range for a compacted i: the unsigned difference
\* wraps around.
CreateSnapshotOutcome(es, snap, i) ==
  IF i <= snap.index THEN "ErrSnapOutOfDate"
  ELSE IF i > LastIndex(es) \/ i < Offset(es) THEN "panic" ELSE "nil"

ApplySnapshotOutcome(snap, new) ==
  IF snap.index >= new.index THEN "ErrSnapOutOfDate" ELSE "nil"

-----------------------------------------------------------------------------
\* The methods that change the storage.

NewMemoryStorage ==
  /\ ents = <<[index |-> 0, term |-> 0]>>
  /\ snapshot = [index |-> 0, term |-> 0]
  /\ hardState = EmptyHardState
  /\ err = "nil"

SetHardState(h) ==
  /\ err # "panic"
  /\ hardState' = h
  /\ err' = "nil"
  /\ UNCHANGED <<ents, snapshot>>

StorageAppend(batch) ==
  /\ err # "panic"
  /\ err' = AppendOutcome(ents, batch)
  /\ ents' = IF err' = "nil" THEN Appended(ents, batch) ELSE ents
  /\ UNCHANGED <<snapshot, hardState>>

Compact(i) ==
  /\ err # "panic"
  /\ err' = CompactOutcome(ents, i)
  /\ ents' = IF err' = "nil" THEN Compacted(ents, i) ELSE ents
  /\ UNCHANGED <<snapshot, hardState>>

CreateSnapshot(i) ==
  /\ err # "panic"
  /\ err' = CreateSnapshotOutcome(ents, snapshot, i)
  /\ snapshot' = IF err' = "nil"
                 THEN [index |-> i, term |-> ents[i - Offset(ents) + 1].term]
                 ELSE snapshot
  /\ UNCHANGED <<ents, hardState>>

ApplySnapshot(snap) ==
  /\ err # "panic"
  /\ err' = ApplySnapshotOutcome(snapshot, snap)
  /\ IF err' = "nil"
     THEN /\ snapshot' = snap
          /\ ents' = <<snap>>
     ELSE UNCHANGED <<ents, snapshot>>
  /\ UNCHANGED hardState

StorageNext ==
  \/ \E h \in HardStates : SetHardState(h)
  \/ \E batch \in Batches : StorageAppend(batch)
  \/ \E i \in Index : Compact(i)
  \/ \E i \in Index : CreateSnapshot(i)
  \/ \E i \in Index, t \in 1..MaxTerm : ApplySnapshot([index |-> i, term |-> t])

StorageSpec == NewMemoryStorage /\ [][StorageNext]_storageVars

-----------------------------------------------------------------------------
\* Properties.

\* Type invariant: there is always a dummy entry (ms.ents[0] is read without
\* a length check by every method of storage.go).
StorageTypeOK ==
  /\ ents \in Seq(Entry) /\ Len(ents) >= 1
  /\ snapshot \in Entry
  /\ hardState \in HardStates
  /\ err \in Errors

\* Entries(lo, hi, maxSize) answers every legal range with the entries whose
\* indices were asked for, in order and with the terms Term reports, and a size
\* limit only ever cuts the answer to a non-empty prefix: position arithmetic
\* with ents[0].Index stays right whatever was appended, compacted or restored.
EntriesServed ==
  \A lo, hi \in FirstIndex(ents)..LastIndex(ents) + 1, max \in Index :
    lo < hi =>
      LET r == StorageEntries(ents, lo, hi, max)
      IN  /\ r.err = "nil"
          /\ Len(r.ents) \in 1..hi - lo
          /\ max >= hi - lo => Len(r.ents) = hi - lo
          /\ \A k \in 1..Len(r.ents) :
               /\ r.ents[k].index = lo + k - 1
               /\ r.ents[k].term = StorageTerm(ents, lo + k - 1).term

\* Append overlays the log: what lies below the batch is kept, what the batch
\* holds above the dummy entry can be read back, what lay behind the batch is
\* gone, and a batch that was compacted away changes nothing.
AppendOverlays ==
  [][\A batch \in Batches : StorageAppend(batch) /\ err' = "nil" =>
       LET last == batch[1].index + Len(batch) - 1
       IN  /\ Offset(ents') = Offset(ents)
           /\ LastIndex(ents') = IF last <= Offset(ents) THEN LastIndex(ents) ELSE last
           /\ \A i \in Offset(ents)..LastIndex(ents') :
                StorageTerm(ents', i) =
                  IF i > Offset(ents) /\ i \in batch[1].index..last
                  THEN [term |-> batch[i - batch[1].index + 1].term, err |-> "nil"]
                  ELSE StorageTerm(ents, i)]_storageVars

\* Between Compact and ApplySnapshot: FirstIndex never moves back as long as the
\* client has not compacted past its snapshot, because ApplySnapshot rejects
\* every snapshot that is not newer than the one held.
FirstIndexMonotone ==
  [][Offset(ents) <= snapshot.index => Offset(ents') >= Offset(ents)]_storageVars

=============================================================================
