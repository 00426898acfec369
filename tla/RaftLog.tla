------------------------------- MODULE RaftLog -------------------------------
(***************************************************************************)
(* The log of a raft node: raftLog (raft/log.go) over unstable             *)
(* (raft/log_unstable.go) over a MemoryStorage.  New entries go to         *)
(* unstable; the application is handed the unstable entries (newReady in   *)
(* raft/node.go), writes them to the storage, and reports them as stable.  *)
(* The raft goroutine may append between any two of these steps, so the    *)
(* handed slice may already be overwritten when it is written and when it  *)
(* is reported.                                                            *)
(*                                                                         *)
(* unstable.snapshot is not modelled: no code assigns it.  committed is    *)
(* assigned by newLogWithSize and Bootstrap only and applied by            *)
(* newLogWithSize only, so both are fixed by the initial state.            *)
(***************************************************************************)
EXTENDS MemoryStorage

CONSTANTS
  MaxPeers   \* bound on the peers Bootstrap is called with

ASSUME PeersBound == MaxPeers \in Nat

VARIABLES
  offset,     \* unstable.offset
  entries,    \* unstable.entries
  committed,  \* raftLog.committed
  applied,    \* raftLog.applied
  handed,     \* the unstable entries held by the application
  held        \* "none", "handed" (not written yet) or "saved"

logVars == <<offset, entries, committed, applied, handed, held>>
vars == <<storageVars, logVars>>

-----------------------------------------------------------------------------
\* unstable

\* maybeLastIndex; only called where entries is not empty.
UnstableLast == offset + Len(entries) - 1

HasUnstableTerm(i) == i >= offset /\ entries # <<>> /\ i <= UnstableLast
UnstableTerm(i) == entries[i - offset + 1].term

\* mustCheckOutOfBounds and slice
UnstableInBounds(lo, hi) == lo <= hi /\ lo >= offset /\ hi <= offset + Len(entries)
UnstableSlice(lo, hi) == SubSeq(entries, lo - offset + 1, hi - offset)

\* truncateAndAppend: extend, replace everything, or cut and extend; cutting
\* behind the last entry panics in mustCheckOutOfBounds.
TruncateOutcome(batch) ==
  IF batch[1].index <= offset + Len(entries) THEN "nil" ELSE "panic"

\* Mistake: cutting keeps one entry too many.
TruncateOffByOne(batch) ==
  LET after == batch[1].index
  IN  IF after = offset + Len(entries) THEN entries \o batch
      ELSE IF after <= offset THEN batch
      ELSE UnstableSlice(offset, after + 1) \o batch

TruncatedOffset(batch) == Min2(offset, batch[1].index)

TruncateAndAppend(batch) ==
  LET after == batch[1].index
  IN  IF after = offset + Len(entries) THEN entries \o batch
      ELSE IF after <= offset THEN batch
      ELSE UnstableSlice(offset, after) \o batch

-----------------------------------------------------------------------------
\* raftLog

First == FirstIndex(ents)
Last == IF entries # <<>> THEN UnstableLast ELSE LastIndex(ents)

\* raftLog.term; an index outside the log has term 0 and no error.
TermOf(i) ==
  IF i < First - 1 \/ i > Last THEN [term |-> 0, err |-> "nil"]
  ELSE IF HasUnstableTerm(i) THEN [term |-> UnstableTerm(i), err |-> "nil"]
  ELSE StorageTerm(ents, i)

LastTerm == TermOf(Last).term

\* raftLog.mustCheckOutOfBounds
BoundsOutcome(lo, hi) ==
  IF lo > hi THEN "panic"
  ELSE IF lo < First THEN "ErrCompacted"
  ELSE IF hi > Last + 1 THEN "panic" ELSE "nil"

\* raftLog.slice: the stable part, then the unstable part.
Slice(lo, hi, maxSize) ==
  LET mid == Min2(hi, offset)
      stored == IF lo < offset THEN StorageEntries(ents, lo, mid, maxSize)
                ELSE [ents |-> <<>>, err |-> "nil"]
      tailLo == Max2(lo, offset)
      tail == IF hi > offset THEN UnstableSlice(tailLo, hi) ELSE <<>>
  IN  IF BoundsOutcome(lo, hi) # "nil"
      THEN [ents |-> <<>>, err |-> BoundsOutcome(lo, hi)]
      ELSE IF lo = hi THEN [ents |-> <<>>, err |-> "nil"]
      ELSE IF stored.err = "ErrCompacted" THEN stored
      ELSE IF stored.err # "nil" THEN [ents |-> <<>>, err |-> "panic"]
      ELSE IF lo < offset /\ Len(stored.ents) < mid - lo THEN stored
      ELSE IF hi > offset /\ ~UnstableInBounds(tailLo, hi)
      THEN [ents |-> <<>>, err |-> "panic"]
      ELSE [ents |-> LimitSize(stored.ents \o tail, maxSize), err |-> "nil"]

\* raftLog.nextEnts and hasNextEnts; any error of slice is a panic here.
NextOff == Max2(applied + 1, First)
HasNextEnts == committed + 1 > NextOff
NextEnts(maxSize) == Slice(NextOff, committed + 1, maxSize)

-----------------------------------------------------------------------------
\* Initial states: the log newLogWithSize builds on a storage that was filled
\* before a restart (RestartNode), or on an empty storage followed by Bootstrap
\* (StartNode), which appends one entry per peer and commits them.

RestoredStorages ==
  {<<[index |-> 0, term |-> 0]>>} \cup
  {<<[index |-> 0, term |-> 0]>> \o b : b \in {c \in Batches : c[1].index = 1}} \cup
  Batches

NewLog(es) ==
  /\ ents = es
  /\ offset = LastIndex(es) + 1
  /\ committed = FirstIndex(es) - 1
  /\ applied = FirstIndex(es) - 1
  /\ entries = <<>>

NewLogBootstrapped(n) ==
  /\ ents = <<[index |-> 0, term |-> 0]>>
  /\ offset = 1
  /\ entries = [k \in 1..n |-> [index |-> k, term |-> 1]]
  /\ committed = n
  /\ applied = 0

Init ==
  /\ \/ \E es \in RestoredStorages : NewLog(es)
     \/ \E n \in 1..MaxPeers : NewLogBootstrapped(n)
  /\ snapshot = ents[1]
  /\ hardState = EmptyHardState
  /\ err = "nil"
  /\ handed = <<>>
  /\ held = "none"

-----------------------------------------------------------------------------
\* Contract of the caller of append: the log it produces and the log that is
\* (or is about to be) in the storage are both logs of raft leaders, hence if
\* they agree on the term at an index they agree below it (raft's Log Matching).

Persisted == IF held = "handed" THEN Appended(ents, handed) ELSE ents

NewTerm(batch, i) ==
  IF i < batch[1].index THEN TermOf(i).term ELSE batch[i - batch[1].index + 1].term

SameTerm(batch, i) == StorageTerm(Persisted, i).term = NewTerm(batch, i)

LogMatching(batch) ==
  \A i \in Offset(Persisted)..Min2(LastIndex(Persisted), batch[1].index + Len(batch) - 1) :
    SameTerm(batch, i) => \A j \in Offset(Persisted)..i : SameTerm(batch, j)

-----------------------------------------------------------------------------
\* Actions

\* raftLog.append of a non-empty slice
RaftLogAppend(batch) ==
  /\ err # "panic"
  /\ IF batch[1].index - 1 < committed \/ TruncateOutcome(batch) = "panic"
     THEN /\ err' = "panic"
          /\ UNCHANGED <<offset, entries>>
     ELSE /\ LogMatching(batch)
          /\ offset' = TruncatedOffset(batch)
          /\ entries' = TruncateAndAppend(batch)
          /\ err' = "nil"
  /\ UNCHANGED <<ents, snapshot, hardState, committed, applied, handed, held>>

\* newReady hands out unstableEntries().
HandOut ==
  /\ err # "panic" /\ held = "none" /\ entries # <<>>
  /\ handed' = entries
  /\ held' = "handed"
  /\ UNCHANGED <<storageVars, offset, entries, committed, applied>>

\* The application writes what it was handed.
Save ==
  /\ held = "handed"
  /\ StorageAppend(handed)
  /\ held' = "saved"
  /\ UNCHANGED <<offset, entries, committed, applied, handed>>

\* Mistake: stableTo does not compare the terms.
StableToAnyTerm ==
  LET i == handed[Len(handed)].index
  IN  /\ err # "panic" /\ held = "saved"
      /\ IF HasUnstableTerm(i)
         THEN /\ entries' = SubSeq(entries, i + 1 - offset + 1, Len(entries))
              /\ offset' = i + 1
         ELSE UNCHANGED <<offset, entries>>
      /\ handed' = <<>>
      /\ held' = "none"
      /\ UNCHANGED <<storageVars, committed, applied>>

\* raftLog.stableTo(i, t) for the last entry written.
StableTo ==
  LET i == handed[Len(handed)].index
      t == handed[Len(handed)].term
  IN  /\ err # "panic" /\ held = "saved"
      /\ IF HasUnstableTerm(i) /\ UnstableTerm(i) = t
         THEN /\ entries' = SubSeq(entries, i + 1 - offset + 1, Len(entries))
              /\ offset' = i + 1
         ELSE UNCHANGED <<offset, entries>>
      /\ handed' = <<>>
      /\ held' = "none"
      /\ UNCHANGED <<storageVars, committed, applied>>

\* The application snapshots committed entries that are in its storage ...
SnapshotLog(i) ==
  /\ i \in snapshot.index + 1..Min2(committed, LastIndex(ents))
  /\ CreateSnapshot(i)
  /\ UNCHANGED logVars

\* ... and compacts what a snapshot covers.
CompactLog(i) ==
  /\ i \in 0..snapshot.index
  /\ Compact(i)
  /\ UNCHANGED logVars

Next ==
  \/ \E batch \in Batches : RaftLogAppend(batch)
  \/ HandOut
  \/ Save
  \/ StableTo
  \/ \E i \in 0..snapshot.index : CompactLog(i)
  \/ \E i \in snapshot.index + 1..committed : SnapshotLog(i)

Spec == Init /\ [][Next]_vars

-----------------------------------------------------------------------------
\* Properties.

\* Type invariant of log.go's and log_unstable.go's fields.
TypeOK ==
  /\ StorageTypeOK
  /\ offset \in Nat /\ entries \in Seq(Entry)
  /\ committed \in Nat /\ applied \in Nat
  /\ handed \in Seq(Entry)
  /\ held \in {"none", "handed", "saved"}

\* slice(lo, hi) reassembles every legal range from the stable and the unstable
\* part: the entries asked for, in order, with the terms term() reports, and no
\* panic, whatever stale entries the storage still holds behind offset.
SliceServed ==
  err # "panic" =>
    \A lo, hi \in First..Last + 1, max \in {0, 1, MaxIndex} :
      lo < hi =>
        LET r == Slice(lo, hi, max)
        IN  /\ r.err = "nil"
            /\ Len(r.ents) \in 1..hi - lo
            /\ max >= hi - lo => Len(r.ents) = hi - lo
            /\ \A k \in 1..Len(r.ents) :
                 /\ r.ents[k].index = lo + k - 1
                 /\ r.ents[k].term = TermOf(lo + k - 1).term

\* Every entry is in the storage or in unstable: no gap opens between the two
\* when handed entries are written and reported after the log has moved on.
NoGap ==
  /\ offset <= LastIndex(ents) + 1
  /\ \A i \in First - 1..Last : TermOf(i).err = "nil"

\* "applied <= committed" (comment on raftLog.applied), and every committed
\* entry that is not applied or compacted can be handed to the state machine:
\* nextEnts cannot panic and starts with the next entry.
NextEntsServed ==
  /\ applied <= committed /\ committed <= Last
  /\ HasNextEnts =>
       \A max \in {0, MaxIndex} :
         LET r == NextEnts(max)
         IN  r.err = "nil" /\ r.ents # <<>> /\ r.ents[1].index = NextOff

\* The writes of the application never reach past the end of the storage: the
\* "missing log entry" panic of MemoryStorage.Append and the index panics of
\* CreateSnapshot and Compact are unreachable from raftLog's own hand-outs.
StorageNeverPanics ==
  [][(Save \/ \E i \in Index : SnapshotLog(i) \/ CompactLog(i)) => err' # "panic"]_vars

\* Committed entries are immutable: no append, write, report or compaction
\* changes the term that term() reports at or below committed.
CommittedStable ==
  [][\A i \in First - 1..committed :
       i >= First' - 1 => TermOf(i)' = TermOf(i)]_vars

\* The snapshot the application takes from its storage names the term of the
\* committed entry, although the storage may hold entries that were overwritten
\* in unstable (CreateSnapshot reads the term from ents).
SnapshotTermRight ==
  snapshot.index >= First - 1 => snapshot.term = TermOf(snapshot.index).term

-----------------------------------------------------------------------------
\* The inductive invariant behind these properties.

\* The term of index i in the log: unstable shadows the storage from offset on.
ViewTerm(i) ==
  IF entries # <<>> /\ i >= offset THEN TermAt(entries, i) ELSE TermAt(ents, i)

\* How the windows of the storage, of unstable and of the snapshot overlap.
Windows ==
  /\ Contiguous(ents)
  /\ IF entries = <<>> THEN offset = LastIndex(ents) + 1
     ELSE Contiguous(entries) /\ Offset(entries) = offset
  /\ Offset(ents) <= snapshot.index /\ snapshot.index <= LastIndex(ents)
  /\ snapshot.index <= committed /\ applied <= committed /\ committed <= Last
  /\ 1 <= offset /\ offset <= LastIndex(ents) + 1
  /\ entries # <<>> /\ held = "none" => Last > committed \/ LastIndex(ents) < committed

\* What the application holds starts inside or right behind the storage and
\* covers the committed entries; it is all of unstable unless the log has moved
\* past committed since.
HandedWindow ==
  held # "none" =>
    /\ Contiguous(handed) /\ entries # <<>>
    /\ offset <= Offset(handed) /\ committed <= LastIndex(handed)
    /\ Last = committed => handed = entries
    /\ held = "handed" => /\ Offset(handed) <= LastIndex(ents) + 1
                          /\ LastIndex(handed) > committed \/ LastIndex(ents) < committed
    /\ held = "saved" => /\ LastIndex(ents) = LastIndex(handed)
                         /\ TermAt(ents, LastIndex(ents)) = TermAt(handed, LastIndex(ents))

\* es holds the committed entries as far as it reaches.
AgreesOnCommitted(es) ==
  \A i \in Offset(es)..Min2(committed, LastIndex(es)) : TermAt(es, i) = ViewTerm(i)

\* Log Matching between es and the current log.
MatchesLog(es) ==
  \A i \in Offset(es)..Min2(LastIndex(es), Last) :
    TermAt(es, i) = ViewTerm(i) =>
      \A j \in Offset(es)..i : TermAt(es, j) = ViewTerm(j)

\* Inductive: writes and reports that arrive late (stableTo after another append)
\* keep the storage consistent with the log at and below the point they report.
IndInv ==
  /\ TypeOK /\ Windows /\ HandedWindow
  /\ AgreesOnCommitted(ents) /\ AgreesOnCommitted(Persisted)
  /\ MatchesLog(Persisted)
  /\ snapshot.term = ViewTerm(snapshot.index)

\* The log refines the one-window log: writing entries to the storage,
\* reporting them stable (possibly late, for overwritten entries) and taking
\* snapshots are invisible to the raft state machine.
Abs == INSTANCE AbstractLog WITH
         AllBatches <- Batches,
         base <- First - 1,
         last <- Last,
         log <- [i \in First - 1..Last |-> TermOf(i).term],
         commit <- committed

RefinesAbstractLog == Abs!AbsSpec
=============================================================================
