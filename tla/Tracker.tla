------------------------------- MODULE Tracker -------------------------------
(***************************************************************************)
(* tracker.ProgressTracker (raft/tracker): the active configuration, the   *)
(* replication progress of every member and the votes of the running       *)
(* election.  Votes arrive late, twice, and from nodes that are not (or    *)
(* no longer) voters.                                                      *)
(*                                                                         *)
(* A Go map of ids is a set; Nil is the nil map, which checkInvariants     *)
(* tells apart from an empty one.  A Progress is its Match, Next and       *)
(* IsLearner; the code of this repository only ever writes the others.     *)
(***************************************************************************)
EXTENDS VoteQuorum

CONSTANTS
  Ids,      \* node ids; 0 is not one of them
  Nil,      \* the nil map
  MaxIndex  \* bound on log positions

ASSUME TrackerConstants ==
  IsFiniteSet(Ids) /\ (\A ids \in SUBSET Ids : Nil # ids) /\ MaxIndex \in Nat

VARIABLES
  config,    \* Config: incoming, outgoing, learners, learnersNext, autoLeave
  progress,  \* Progress: a function from ids to their Progress
  votes      \* Votes

trackerVars == <<config, progress, votes>>

Maps == (SUBSET Ids) \cup {Nil}
Members(m) == IF m = Nil THEN {} ELSE m

Config ==
  [incoming : SUBSET Ids, outgoing : Maps, learners : Maps, learnersNext : Maps,
   autoLeave : BOOLEAN]
Progress == [match : 0..MaxIndex, next : 0..MaxIndex + 1, isLearner : BOOLEAN]

\* Voters.IDs()
VoterIDs(cfg) == cfg.incoming \cup Members(cfg.outgoing)

EmptyConfig ==
  [incoming |-> {}, outgoing |-> Nil, learners |-> Nil, learnersNext |-> Nil, autoLeave |-> FALSE]

MakeProgressTracker ==
  /\ config = EmptyConfig
  /\ progress = [id \in {} |-> 0]
  /\ votes = [id \in {} |-> TRUE]

-----------------------------------------------------------------------------

ResetVotes == votes' = [id \in {} |-> TRUE]

\* Mistake: a later vote replaces an earlier one.
RecordVoteLast(id, v) ==
  votes' = [i \in DOMAIN votes \cup {id} |-> IF i = id THEN v ELSE votes[i]]

\* The first vote of a node counts.
RecordVote(id, v) ==
  votes' = [i \in DOMAIN votes \cup {id} |-> IF i \in DOMAIN votes THEN votes[i] ELSE v]

\* TallyVotes: the votes of members that are not learners, and the result.
Granted(prs, vs) ==
  Cardinality({id \in DOMAIN prs : ~prs[id].isLearner /\ id \in DOMAIN vs /\ vs[id]})
Rejected(prs, vs) ==
  Cardinality({id \in DOMAIN prs : ~prs[id].isLearner /\ id \in DOMAIN vs /\ ~vs[id]})
Result(cfg, vs) == JointVoteResult(cfg.incoming, Members(cfg.outgoing), vs)

\* What reset does with every Progress; the order of Visit does not matter.
ResetProgress(prs, self, last) ==
  [id \in DOMAIN prs |-> [match |-> IF id = self THEN last ELSE 0, next |-> last + 1,
                          isLearner |-> prs[id].isLearner]]
=============================================================================
