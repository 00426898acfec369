----------------------------- MODULE VoteQuorum -----------------------------
(***************************************************************************)
(* The vote arithmetic of raft/quorum: the outcome of an election in a     *)
(* majority configuration (a set of voters) and in a joint configuration   *)
(* (two of them).  votes is the Go map of the votes cast so far, a         *)
(* function from the ids that have voted to TRUE (yes) or FALSE (no).      *)
(***************************************************************************)
EXTENDS Integers, FiniteSets

VoteResults == {"VotePending", "VoteLost", "VoteWon"}

Yes(c, votes) == {id \in c \cap DOMAIN votes : votes[id]}
No(c, votes) == {id \in c \cap DOMAIN votes : ~votes[id]}
Missing(c, votes) == c \ DOMAIN votes

QuorumSize(c) == Cardinality(c) \div 2 + 1

\* Mistake: lost although all the missing votes together would win.
MajorityVoteResultEarly(c, votes) ==
  LET yes == Cardinality(Yes(c, votes))
      open == Cardinality(Missing(c, votes))
  IN  IF c = {} \/ yes >= QuorumSize(c) THEN "VoteWon"
      ELSE IF yes + open > QuorumSize(c) THEN "VotePending" ELSE "VoteLost"

\* MajorityConfig.VoteResult; the empty configuration wins by convention.
MajorityVoteResult(c, votes) ==
  LET yes == Cardinality(Yes(c, votes))
      open == Cardinality(Missing(c, votes))
  IN  IF c = {} \/ yes >= QuorumSize(c) THEN "VoteWon"
      ELSE IF yes + open >= QuorumSize(c) THEN "VotePending" ELSE "VoteLost"

\* JointConfig.VoteResult
JointVoteResult(c0, c1, votes) ==
  LET r1 == MajorityVoteResult(c0, votes)
      r2 == MajorityVoteResult(c1, votes)
  IN  IF r1 = r2 THEN r1
      ELSE IF "VoteLost" \in {r1, r2} THEN "VoteLost" ELSE "VotePending"

-----------------------------------------------------------------------------
\* Reference definitions, not taken from the code.

\* When everybody has voted, a configuration agrees iff more than half said yes.
Agrees(c, yes) == c = {} \/ 2 * Cardinality(c \cap yes) > Cardinality(c)

\* The sets of yes voters an election may end with.
Endings(c0, c1, votes) ==
  {Yes(c0 \cup c1, votes) \cup more : more \in SUBSET Missing(c0 \cup c1, votes)}

\* Won (lost) if every (no) way to complete the election is won.
ReferenceResult(c0, c1, votes) ==
  LET wins == {yes \in Endings(c0, c1, votes) : Agrees(c0, yes) /\ Agrees(c1, yes)}
  IN  IF wins = Endings(c0, c1, votes) THEN "VoteWon"
      ELSE IF wins = {} THEN "VoteLost" ELSE "VotePending"

\* A set of voters whose yes is enough.
IsQuorum(c0, c1, yes) == JointVoteResult(c0, c1, [id \in yes |-> TRUE]) = "VoteWon"
=============================================================================
