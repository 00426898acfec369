------------------------------ MODULE ConfChange ------------------------------
(***************************************************************************)
(* raft/confchange.Changer and what raft does with its answer              *)
(* (applyConfChange, switchToConfig), on top of the tracker: membership    *)
(* changes, votes and resets in any order.                                 *)
(*                                                                         *)
(* The initial states are the empty tracker of MakeProgressTracker and     *)
(* the trackers a Changer may be handed: those that pass checkInvariants   *)
(* and whose empty maps are nil.  The joint ones are there because Simple  *)
(* has to refuse them; no function of this repository enters one.          *)
(***************************************************************************)
EXTENDS Tracker, Sequences

CONSTANT MaxChanges  \* bound on the number of changes in one ConfChangeV2

ASSUME ChangesBound == MaxChanges \in Nat

VARIABLE panicked  \* whether applyConfChange panicked, and on which kind of error

vars == <<config, progress, votes, panicked>>

\* ConfChangeSingle; etcd writes the NodeID None (zero) over a refused change.
\* "Other" stands for the types apply has no case for.
None == 0
ChangeTypes == {"AddNode", "UpdateNode", "Other"}
Change == [type : ChangeTypes, nodeID : Ids \cup {None}]

Changes == UNION {[1..n -> Change] : n \in 0..MaxChanges}

-----------------------------------------------------------------------------

Joint(cfg) == Members(cfg.outgoing) # {}

\* checkInvariants: TRUE if it returns no error.
CheckInvariants(cfg, prs) ==
  /\ VoterIDs(cfg) \cup Members(cfg.learners) \cup Members(cfg.learnersNext) \subseteq DOMAIN prs
  /\ \A id \in Members(cfg.learnersNext) : id \in Members(cfg.outgoing) /\ ~prs[id].isLearner
  /\ \A id \in Members(cfg.learners) : id \notin VoterIDs(cfg) /\ prs[id].isLearner
  /\ ~Joint(cfg) => cfg.outgoing = Nil /\ cfg.learnersNext = Nil /\ ~cfg.autoLeave

\* Config.Clone, which leaves AutoLeave out
Clone(cfg) == [cfg EXCEPT !.autoLeave = FALSE]

NilAwareDelete(m, ids) == IF Members(m) \subseteq ids THEN Nil ELSE m \ ids

\* initProgress (of a voter)
NewProgress(last) == [match |-> 0, next |-> last, isLearner |-> FALSE]

\* makeVoter, for all the nodes of a change: the order they are added in does
\* not matter.  A node that is already tracked leaves the learner maps.
MakeVotersConfig(cfg, prs, added) ==
  LET tracked == added \cap DOMAIN prs
  IN  [cfg EXCEPT !.incoming = @ \cup added,
                  !.learners = NilAwareDelete(@, tracked),
                  !.learnersNext = NilAwareDelete(@, tracked)]

MakeVotersProgress(prs, added, last) ==
  [id \in DOMAIN prs \cup added |->
     CASE id \notin DOMAIN prs -> NewProgress(last)
       [] id \in DOMAIN prs /\ id \in added -> [prs[id] EXCEPT !.isLearner = FALSE]
       [] OTHER -> prs[id]]

Effective(ccs) == {ccs[i] : i \in {j \in DOMAIN ccs : ccs[j].nodeID # None}}
Added(ccs) == {cc.nodeID : cc \in {c \in Effective(ccs) : c.type = "AddNode"}}

\* apply: TRUE if it returns no error.
ApplyOK(cfg, ccs) ==
  /\ \A cc \in Effective(ccs) : cc.type \in {"AddNode", "UpdateNode"}
  /\ cfg.incoming \cup Added(ccs) # {}

Symdiff(l, r) == Cardinality(l \ r) + Cardinality(r \ l)

AppliedConfig(cfg, prs, ccs) == MakeVotersConfig(Clone(cfg), prs, Added(ccs))
AppliedProgress(prs, ccs, last) == MakeVotersProgress(prs, Added(ccs), last)

\* Mistake: the number of changed voters is not checked.
SimpleAcceptsAny(cfg, prs, ccs) ==
  /\ CheckInvariants(Clone(cfg), prs)
  /\ ~Joint(cfg)
  /\ ApplyOK(cfg, ccs)

\* What Simple demands before its last checkInvariants.
SimpleAccepts(cfg, prs, ccs) ==
  /\ CheckInvariants(Clone(cfg), prs)
  /\ ~Joint(cfg)
  /\ ApplyOK(cfg, ccs)
  /\ Symdiff(cfg.incoming, AppliedConfig(cfg, prs, ccs).incoming) <= 1

\* Simple returns no error.
SimpleOK(cfg, prs, ccs, last) ==
  /\ SimpleAccepts(cfg, prs, ccs)
  /\ CheckInvariants(AppliedConfig(cfg, prs, ccs), AppliedProgress(prs, ccs, last))

-----------------------------------------------------------------------------

\* Trackers a Changer may be built from.
LegalTrackers(last) ==
  {t \in [cfg : Config, learners : SUBSET Ids] :
     LET prs == [id \in VoterIDs(t.cfg) \cup t.learners |->
                   [match |-> 0, next |-> last, isLearner |-> id \in t.learners]]
     IN  /\ t.learners = Members(t.cfg.learners)
         /\ {} \notin {t.cfg.outgoing, t.cfg.learners, t.cfg.learnersNext}
         /\ CheckInvariants(t.cfg, prs)}

Init ==
  /\ \/ MakeProgressTracker
     \/ \E last \in 1..MaxIndex : \E t \in LegalTrackers(last) :
          /\ config = t.cfg
          /\ progress = [id \in VoterIDs(t.cfg) \cup t.learners |->
                           [match |-> 0, next |-> last, isLearner |-> id \in t.learners]]
          /\ votes = [id \in {} |-> TRUE]
  /\ panicked = "no"

\* poll: a vote is recorded, whoever sent it and however often.
Poll(id, v) ==
  /\ panicked = "no"
  /\ RecordVote(id, v)
  /\ UNCHANGED <<config, progress, panicked>>

\* The tracker's part of raft.reset.
Reset(self, last) ==
  /\ panicked = "no"
  /\ ResetVotes
  /\ progress' = ResetProgress(progress, self, last)
  /\ UNCHANGED <<config, panicked>>

\* applyConfChange and switchToConfig, on a node that does not lead.
ApplyConfChange(ccs, last) ==
  /\ panicked = "no"
  /\ SimpleOK(config, progress, ccs, last)
  /\ config' = AppliedConfig(config, progress, ccs)
  /\ progress' = AppliedProgress(progress, ccs, last)
  /\ UNCHANGED <<votes, panicked>>

ApplyConfChangePanics(ccs, last) ==
  /\ panicked = "no"
  /\ ~SimpleOK(config, progress, ccs, last)
  /\ panicked' = IF SimpleAccepts(config, progress, ccs) THEN "illegal result" ELSE "refused"
  /\ UNCHANGED trackerVars

Next ==
  \/ \E id \in Ids, v \in BOOLEAN : Poll(id, v)
  \/ \E self \in Ids, last \in 1..MaxIndex : Reset(self, last)
  \/ \E ccs \in Changes, last \in 1..MaxIndex :
       ApplyConfChange(ccs, last) \/ ApplyConfChangePanics(ccs, last)

Spec == Init /\ [][Next]_vars

-----------------------------------------------------------------------------

\* The tracker holds a configuration, a Progress per tracked node and votes.
TrackerTypeOK ==
  /\ config \in Config
  /\ DOMAIN progress \subseteq Ids /\ \A id \in DOMAIN progress : progress[id] \in Progress
  /\ DOMAIN votes \subseteq Ids /\ \A id \in DOMAIN votes : votes[id] \in BOOLEAN
  /\ panicked \in {"no", "refused", "illegal result"}

\* JointConfig.VoteResult and MajorityConfig.VoteResult count: whatever votes
\* are in, they answer won (lost) exactly if no (every) way the missing votes
\* may fall can still change (save) the election.  Outside a joint configuration
\* the number of granted votes that TallyVotes returns beside the result reaches
\* a quorum exactly when it is won; votes of learners and strangers are in neither.
ResultIsReference ==
  /\ Result(config, votes) = ReferenceResult(config.incoming, Members(config.outgoing), votes)
  /\ ~Joint(config) /\ config.incoming # {} =>
       /\ Result(config, votes) = "VoteWon" <=> Granted(progress, votes) >= QuorumSize(config.incoming)
       /\ Granted(progress, votes) + Rejected(progress, votes) <= Cardinality(config.incoming)

\* Simple never fails in its final checkInvariants: a change that passes the
\* other tests leaves a legal configuration, so the check refuses no change
\* that ought to be made.
AppliedIsLegal == panicked # "illegal result"

\* makeVoter and checkInvariants: nobody is at once a voter and a learner, in
\* the configuration or in its Progress, which promotable reads and
\* checkInvariants does not look at.
RolesAreClear ==
  /\ CheckInvariants(config, progress)
  /\ \A id \in VoterIDs(config) : ~progress[id].isLearner

\* The inductive invariant: the tracker is well-typed, its roles are clear, no
\* change failed its final check, and it tracks exactly its members.
ConfInv ==
  /\ TrackerTypeOK
  /\ RolesAreClear
  /\ AppliedIsLegal
  /\ DOMAIN progress = VoterIDs(config) \cup Members(config.learners)

\* RecordVote and VoteResult: once an election is decided, no later, repeated
\* or contradicting vote changes the outcome; only a reset or a new
\* configuration does.
DecisionIsFinal ==
  [][config' = config /\ DOMAIN votes \subseteq DOMAIN votes' /\ Result(config, votes) # "VotePending"
       => Result(config, votes') = Result(config, votes)]_vars

\* Simple: the point of changing one voter at a time.  Every group that can
\* decide the old configuration has a member in common with every group that
\* can decide the new one, so no two leaders can be elected by the two.
QuorumsOverlap ==
  [][config.incoming # {} /\ config' # config =>
       \A old, new \in SUBSET Ids :
         /\ IsQuorum(config.incoming, Members(config.outgoing), old)
         /\ IsQuorum(config'.incoming, Members(config'.outgoing), new)
         => old \cap new # {}]_vars

=============================================================================
