----------------------------- MODULE AbstractLog -----------------------------
(***************************************************************************)
(* What a raft log promises to the raft state machine: one window          *)
(* base..last of terms.  Entries above the commit index may be overwritten *)
(* by a batch that starts anywhere up to last+1, and the window may be     *)
(* shortened from below up to the commit index.  Nothing else shows: not   *)
(* the division into stable and unstable entries, not a snapshot, not      *)
(* entries that were persisted and then overwritten.                       *)
(***************************************************************************)
EXTENDS Integers, Sequences

CONSTANT AllBatches   \* the slices of consecutive entries a caller may append

VARIABLES base,      \* index of the last compacted entry
          last,      \* index of the last entry
          log,       \* term of every index in base..last
          commit     \* commit index

absVars == <<base, last, log, commit>>

AbsInit ==
  /\ base \in Nat /\ last \in Nat /\ commit \in base..last
  /\ DOMAIN log = base..last

\* Entries above the commit index are cut off and replaced by the batch.
AbsAppend(batch) ==
  /\ batch[1].index \in commit + 1..last + 1
  /\ last' = batch[1].index + Len(batch) - 1
  /\ log' = [i \in base..last' |->
               IF i < batch[1].index THEN log[i]
               ELSE batch[i - batch[1].index + 1].term]
  /\ UNCHANGED <<base, commit>>

\* The window starts later.
AbsCompact(i) ==
  /\ i \in base + 1..commit
  /\ base' = i
  /\ log' = [j \in i..last |-> log[j]]
  /\ UNCHANGED <<last, commit>>

AbsNext ==
  \/ \E batch \in AllBatches : AbsAppend(batch)
  \/ \E i \in base + 1..commit : AbsCompact(i)

AbsSpec == AbsInit /\ [][AbsNext]_absVars
=============================================================================
