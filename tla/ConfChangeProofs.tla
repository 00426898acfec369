-------------------------- MODULE ConfChangeProofs --------------------------
(***************************************************************************)
(* Proofs about the vote arithmetic, the tracker and the Changer, for any  *)
(* finite set of nodes and changes of any length.                          *)
(***************************************************************************)
EXTENDS ConfChange, FiniteSetTheorems, TLAPS

-----------------------------------------------------------------------------
(* Votes. *)

\* The parts of a configuration are finite and no larger than it.
LEMMA VoteSets ==
  ASSUME NEW c, IsFiniteSet(c), NEW vs
  PROVE  /\ IsFiniteSet(Yes(c, vs)) /\ IsFiniteSet(Missing(c, vs))
         /\ Cardinality(c) \in Nat
         /\ Cardinality(Yes(c, vs)) \in Nat
         /\ Cardinality(Missing(c, vs)) \in Nat
         /\ Yes(c, vs) \subseteq c
         /\ Yes(c, vs) \cap Missing(c, vs) = {}
         /\ Cardinality(Yes(c, vs) \cup Missing(c, vs))
              = Cardinality(Yes(c, vs)) + Cardinality(Missing(c, vs))
<1>1. Yes(c, vs) \in SUBSET c /\ Missing(c, vs) \in SUBSET c
  BY DEF Yes, Missing
<1>2. IsFiniteSet(Yes(c, vs)) /\ IsFiniteSet(Missing(c, vs))
  BY <1>1, FS_Subset
<1>3. Yes(c, vs) \cap Missing(c, vs) = {}
  BY DEF Yes, Missing
<1>4. /\ Cardinality(c) \in Nat
      /\ Cardinality(Yes(c, vs)) \in Nat
      /\ Cardinality(Missing(c, vs)) \in Nat
  BY <1>2, FS_CardinalityType
<1>5. Cardinality(Yes(c, vs) \cup Missing(c, vs))
        = Cardinality(Yes(c, vs)) + Cardinality(Missing(c, vs)) - Cardinality({})
  BY <1>2, <1>3, FS_Union
<1> QED
  BY <1>1, <1>2, <1>3, <1>4, <1>5, FS_EmptySet

\* Every vote of vs is in ws, with the same value.
Extends(vs, ws) == DOMAIN vs \subseteq DOMAIN ws /\ \A id \in DOMAIN vs : ws[id] = vs[id]

\* More votes leave a decided majority configuration decided.
LEMMA MajorityIsFinal ==
  ASSUME NEW c, IsFiniteSet(c), NEW vs, NEW ws, Extends(vs, ws)
  PROVE  /\ MajorityVoteResult(c, vs) \in VoteResults
         /\ MajorityVoteResult(c, vs) = "VoteWon" => MajorityVoteResult(c, ws) = "VoteWon"
         /\ MajorityVoteResult(c, vs) = "VoteLost" => MajorityVoteResult(c, ws) = "VoteLost"
<1> DEFINE y == Cardinality(Yes(c, vs))
           m == Cardinality(Missing(c, vs))
           y2 == Cardinality(Yes(c, ws))
           m2 == Cardinality(Missing(c, ws))
<1>1. Yes(c, vs) \in SUBSET Yes(c, ws)
  BY DEF Yes, Extends
<1>2. Yes(c, ws) \cup Missing(c, ws) \in SUBSET (Yes(c, vs) \cup Missing(c, vs))
  BY DEF Yes, Missing, Extends
<1>3. y <= y2
  BY ZenonT(60), <1>1, VoteSets, FS_Subset
<1>4. IsFiniteSet(Yes(c, vs) \cup Missing(c, vs))
  BY ZenonT(60), VoteSets, FS_Union
<1>5. Cardinality(Yes(c, ws) \cup Missing(c, ws)) <= Cardinality(Yes(c, vs) \cup Missing(c, vs))
  BY <1>2, <1>4, FS_Subset
<1>6. y2 + m2 <= y + m
  <2>1. Cardinality(Yes(c, vs) \cup Missing(c, vs)) = y + m
    BY VoteSets
  <2>2. Cardinality(Yes(c, ws) \cup Missing(c, ws)) = y2 + m2
    BY VoteSets
  <2> QED
    BY <1>5, <2>1, <2>2
<1>7. y \in Nat /\ m \in Nat /\ y2 \in Nat /\ m2 \in Nat /\ Cardinality(c) \in Nat
  BY ZenonT(60), VoteSets
<1> HIDE DEF y, m, y2, m2
<1>8. /\ MajorityVoteResult(c, vs) =
           IF c = {} \/ y >= QuorumSize(c) THEN "VoteWon"
           ELSE IF y + m >= QuorumSize(c) THEN "VotePending" ELSE "VoteLost"
      /\ MajorityVoteResult(c, ws) =
           IF c = {} \/ y2 >= QuorumSize(c) THEN "VoteWon"
           ELSE IF y2 + m2 >= QuorumSize(c) THEN "VotePending" ELSE "VoteLost"
  BY Zenon DEF MajorityVoteResult, y, m, y2, m2
<1> QED
  BY <1>3, <1>6, <1>7, <1>8 DEF VoteResults, QuorumSize

\* The same for the two halves of a joint configuration.
LEMMA JointIsFinal ==
  ASSUME NEW c, IsFiniteSet(c), NEW d, IsFiniteSet(d), NEW vs, NEW ws, Extends(vs, ws),
         JointVoteResult(c, d, vs) # "VotePending"
  PROVE  JointVoteResult(c, d, ws) = JointVoteResult(c, d, vs)
<1>1. Extends(ws, ws)
  BY DEF Extends
<1>2. /\ MajorityVoteResult(c, ws) \in VoteResults
      /\ MajorityVoteResult(d, ws) \in VoteResults
  BY <1>1, MajorityIsFinal
<1>3. /\ MajorityVoteResult(c, vs) \in VoteResults
      /\ MajorityVoteResult(c, vs) = "VoteWon" => MajorityVoteResult(c, ws) = "VoteWon"
      /\ MajorityVoteResult(c, vs) = "VoteLost" => MajorityVoteResult(c, ws) = "VoteLost"
  BY MajorityIsFinal
<1>4. /\ MajorityVoteResult(d, vs) \in VoteResults
      /\ MajorityVoteResult(d, vs) = "VoteWon" => MajorityVoteResult(d, ws) = "VoteWon"
      /\ MajorityVoteResult(d, vs) = "VoteLost" => MajorityVoteResult(d, ws) = "VoteLost"
  BY MajorityIsFinal
<1> QED
  BY <1>2, <1>3, <1>4 DEF JointVoteResult, VoteResults

\* A group decides a configuration that is not joint iff it holds a majority.
LEMMA QuorumIsMajority ==
  ASSUME NEW c, IsFiniteSet(c), c # {}, NEW yes, IsQuorum(c, {}, yes)
  PROVE  Cardinality(c \cap yes) >= QuorumSize(c)
<1> DEFINE vs == [id \in yes |-> TRUE]
<1>1. Yes(c, vs) = c \cap yes
  BY DEF Yes
<1>2. JointVoteResult(c, {}, vs) = "VoteWon"
  BY DEF IsQuorum
<1> HIDE DEF vs
<1>3. MajorityVoteResult(c, vs) = "VoteWon"
  BY <1>2 DEF JointVoteResult, MajorityVoteResult
<1>4. Cardinality(Yes(c, vs)) >= QuorumSize(c)
  BY <1>3 DEF MajorityVoteResult
<1> QED
  BY <1>1, <1>4

\* Majorities of a set of voters and of one with at most one more overlap.
LEMMA NeighboursOverlap ==
  ASSUME NEW c, NEW d, IsFiniteSet(c), IsFiniteSet(d), c \subseteq d, Symdiff(c, d) <= 1,
         NEW q, NEW r,
         Cardinality(c \cap q) >= QuorumSize(c), Cardinality(d \cap r) >= QuorumSize(d)
  PROVE  q \cap r # {}
<1>1. c \ d = {} /\ c \cap d = c /\ d \cap c = c
  OBVIOUS
<1>2. Cardinality(d \ c) = Cardinality(d) - Cardinality(c)
  BY <1>1, FS_Difference
<1>3. /\ Cardinality(c) \in Nat /\ Cardinality(d) \in Nat
      /\ Cardinality(c) <= Cardinality(d)
      /\ Cardinality(c \cap q) \in Nat /\ Cardinality(d \cap r) \in Nat
  BY FS_CardinalityType, FS_Intersection, FS_Subset
<1>4. Cardinality(d) <= Cardinality(c) + 1
  BY <1>1, <1>2, <1>3, FS_EmptySet, SMTT(60) DEF Symdiff
<1>5. Cardinality(c \cap q) + Cardinality(d \cap r) > Cardinality(d)
  BY <1>3, <1>4 DEF QuorumSize
<1>6. (c \cap q) \cap (d \cap r) # {}
  BY <1>5, FS_MajoritiesIntersect
<1> QED
  BY <1>6

-----------------------------------------------------------------------------
(* The Changer. *)

\* nilAwareDelete keeps the map's type and deletes.
LEMMA DeleteFacts ==
  ASSUME NEW m \in Maps, NEW ids
  PROVE  /\ NilAwareDelete(m, ids) \in Maps
         /\ Members(NilAwareDelete(m, ids)) = Members(m) \ ids
<1>1. CASE m = Nil
  BY <1>1 DEF NilAwareDelete, Members, Maps
<1>2. CASE m # Nil
  <2>1. m \in SUBSET Ids /\ Members(m) = m
    BY <1>2 DEF Maps, Members
  <2>2. CASE m \subseteq ids
    BY <2>1, <2>2 DEF NilAwareDelete, Members, Maps
  <2>3. CASE ~(m \subseteq ids)
    <3>1. NilAwareDelete(m, ids) = m \ ids /\ m \ ids \in SUBSET Ids
      BY <2>1, <2>3 DEF NilAwareDelete
    <3>2. m \ ids # Nil
      BY <3>1, TrackerConstants
    <3> QED
      BY <2>1, <3>1, <3>2 DEF Members, Maps
  <2> QED
    BY <2>2, <2>3
<1> QED
  BY <1>1, <1>2

\* The nodes a change adds are nodes.
LEMMA AddedAreIds ==
  ASSUME NEW ccs \in Changes
  PROVE  Added(ccs) \subseteq Ids
<1>1. \A i \in DOMAIN ccs : ccs[i] \in Change
  BY DEF Changes
<1> QED
  BY <1>1 DEF Added, Effective, Change

\* A changed configuration is a configuration.
LEMMA AppliedType ==
  ASSUME NEW cfg \in Config, NEW prs, NEW ccs \in Changes
  PROVE  AppliedConfig(cfg, prs, ccs) \in Config
<1>1. Clone(cfg) \in Config
  BY ZenonT(60) DEF Clone, Config
<1>2. /\ Clone(cfg).incoming \cup Added(ccs) \in SUBSET Ids
      /\ NilAwareDelete(Clone(cfg).learners, Added(ccs) \cap DOMAIN prs) \in Maps
      /\ NilAwareDelete(Clone(cfg).learnersNext, Added(ccs) \cap DOMAIN prs) \in Maps
  BY <1>1, AddedAreIds, DeleteFacts DEF Config
<1> QED
  BY ZenonT(60), <1>1, <1>2 DEF AppliedConfig, MakeVotersConfig, Config

\* A change that Simple accepts leaves clear roles, and tracks its members.
LEMMA AcceptedIsLegal ==
  ASSUME ConfInv, NEW ccs \in Changes, NEW last \in 1..MaxIndex,
         SimpleAccepts(config, progress, ccs)
  PROVE  LET newCfg == AppliedConfig(config, progress, ccs)
             newPrs == AppliedProgress(progress, ccs, last)
         IN  /\ CheckInvariants(newCfg, newPrs)
             /\ \A id \in VoterIDs(newCfg) : ~newPrs[id].isLearner
             /\ DOMAIN newPrs = VoterIDs(newCfg) \cup Members(newCfg.learners)
             /\ \A id \in DOMAIN newPrs : newPrs[id] \in Progress
<1> DEFINE newCfg == AppliedConfig(config, progress, ccs)
           newPrs == AppliedProgress(progress, ccs, last)
           added == Added(ccs)
           tracked == added \cap DOMAIN progress
<1>1. config \in Config /\ Members(config.outgoing) = {}
  BY ZenonT(60) DEF ConfInv, TrackerTypeOK, SimpleAccepts, Joint
<1>2. config.outgoing = Nil /\ config.learnersNext = Nil
  BY <1>1 DEF ConfInv, RolesAreClear, CheckInvariants, Joint
<1>3. /\ config.learners \in Maps
      /\ Members(Nil) = {}
      /\ NilAwareDelete(Nil, tracked) = Nil
  BY <1>1 DEF Config, Members, NilAwareDelete
<1>4. /\ newCfg.incoming = config.incoming \cup added
      /\ newCfg.outgoing = Nil
      /\ newCfg.learners = NilAwareDelete(config.learners, tracked)
      /\ newCfg.learnersNext = Nil
      /\ newCfg.autoLeave = FALSE
  <2>1. /\ Clone(config) \in Config
        /\ Clone(config).incoming = config.incoming
        /\ Clone(config).outgoing = config.outgoing
        /\ Clone(config).learners = config.learners
        /\ Clone(config).learnersNext = config.learnersNext
        /\ Clone(config).autoLeave = FALSE
    BY ZenonT(60), <1>1 DEF Clone, Config
  <2>2. /\ newCfg.incoming = config.incoming \cup added
        /\ newCfg.outgoing = config.outgoing
        /\ newCfg.learners = NilAwareDelete(config.learners, tracked)
        /\ newCfg.learnersNext = NilAwareDelete(config.learnersNext, tracked)
        /\ newCfg.autoLeave = FALSE
    BY <2>1 DEF AppliedConfig, MakeVotersConfig, Config
  <2> QED
    BY <1>2, <1>3, <2>2
<1>5. Members(newCfg.learners) = Members(config.learners) \ tracked
  BY <1>3, <1>4, DeleteFacts
<1>6. VoterIDs(newCfg) = config.incoming \cup added /\ VoterIDs(config) = config.incoming
  BY <1>1, <1>3, <1>4 DEF VoterIDs
<1>7. /\ DOMAIN progress = config.incoming \cup Members(config.learners)
      /\ \A id \in config.incoming : ~progress[id].isLearner
      /\ \A id \in Members(config.learners) : id \notin config.incoming /\ progress[id].isLearner
      /\ \A id \in DOMAIN progress : progress[id] \in Progress
  BY ZenonT(60), <1>6 DEF ConfInv, RolesAreClear, CheckInvariants, TrackerTypeOK
<1>8. /\ DOMAIN newPrs = DOMAIN progress \cup added
      /\ \A id \in added \ DOMAIN progress : newPrs[id] = NewProgress(last)
      /\ \A id \in added \cap DOMAIN progress : newPrs[id] = [progress[id] EXCEPT !.isLearner = FALSE]
      /\ \A id \in DOMAIN progress \ added : newPrs[id] = progress[id]
  <2>1. DOMAIN newPrs = DOMAIN progress \cup added
    BY DEF AppliedProgress, MakeVotersProgress
  <2>2. \A id \in added \ DOMAIN progress : newPrs[id] = NewProgress(last)
    BY DEF AppliedProgress, MakeVotersProgress
  <2>3. \A id \in added \cap DOMAIN progress : newPrs[id] = [progress[id] EXCEPT !.isLearner = FALSE]
    BY DEF AppliedProgress, MakeVotersProgress
  <2>4. \A id \in DOMAIN progress \ added : newPrs[id] = progress[id]
    BY DEF AppliedProgress, MakeVotersProgress
  <2> QED
    BY <2>1, <2>2, <2>3, <2>4
<1> HIDE DEF newCfg, newPrs, added
<1>9. \A id \in added : newPrs[id] \in Progress /\ ~newPrs[id].isLearner
  <2> SUFFICES ASSUME NEW id \in added
               PROVE  newPrs[id] \in Progress /\ ~newPrs[id].isLearner
    OBVIOUS
  <2>1. CASE id \in DOMAIN progress
    <3>1. newPrs[id] = [progress[id] EXCEPT !.isLearner = FALSE]
      BY <1>8, <2>1
    <3>2. progress[id] \in Progress
      BY <1>7, <2>1
    <3> QED
      BY ZenonT(60), <3>1, <3>2 DEF Progress
  <2>2. CASE id \notin DOMAIN progress
    <3>1. newPrs[id] = NewProgress(last)
      BY <1>8, <2>2
    <3> QED
      BY <3>1, TrackerConstants DEF NewProgress, Progress
  <2> QED
    BY <2>1, <2>2
<1>10. \A id \in DOMAIN progress \ added : newPrs[id] = progress[id]
  BY <1>8
<1>11. DOMAIN newPrs = VoterIDs(newCfg) \cup Members(newCfg.learners)
  BY <1>5, <1>6, <1>7, <1>8
<1>12. \A id \in VoterIDs(newCfg) : ~newPrs[id].isLearner
  BY <1>6, <1>7, <1>9, <1>10
<1>13. \A id \in DOMAIN newPrs : newPrs[id] \in Progress
  BY <1>7, <1>8, <1>9, <1>10
<1>14. \A id \in Members(newCfg.learners) : id \notin VoterIDs(newCfg) /\ newPrs[id].isLearner
  BY <1>5, <1>6, <1>7, <1>10
<1>15. CheckInvariants(newCfg, newPrs)
  BY ZenonT(60), <1>3, <1>4, <1>11, <1>14 DEF CheckInvariants
<1> QED
  BY <1>11, <1>12, <1>13, <1>15 DEF newCfg, newPrs

\* Init
LEMMA ConfInit == Init => ConfInv
<1> SUFFICES ASSUME Init PROVE ConfInv
  OBVIOUS
<1>1. Members(Nil) = {} /\ Nil \in Maps
  BY DEF Members, Maps
<1>2. CASE MakeProgressTracker
  <2>1. /\ config.incoming = {} /\ config.outgoing = Nil /\ config.learners = Nil
        /\ config.learnersNext = Nil /\ config.autoLeave = FALSE /\ config \in Config
    BY <1>1, <1>2 DEF MakeProgressTracker, EmptyConfig, Config
  <2>2. DOMAIN progress = {} /\ DOMAIN votes = {} /\ panicked = "no"
    BY <1>2 DEF MakeProgressTracker, Init
  <2> QED
    BY <1>1, <2>1, <2>2
    DEF ConfInv, TrackerTypeOK, RolesAreClear, AppliedIsLegal, CheckInvariants, VoterIDs
<1>3. CASE ~MakeProgressTracker
  <2>1. PICK last \in 1..MaxIndex : \E t \in LegalTrackers(last) :
          /\ config = t.cfg
          /\ progress = [id \in VoterIDs(t.cfg) \cup t.learners |->
                           [match |-> 0, next |-> last, isLearner |-> id \in t.learners]]
          /\ votes = [id \in {} |-> TRUE]
    BY ZenonT(60), <1>3 DEF Init
  <2>2. PICK t \in LegalTrackers(last) :
          /\ config = t.cfg
          /\ progress = [id \in VoterIDs(t.cfg) \cup t.learners |->
                           [match |-> 0, next |-> last, isLearner |-> id \in t.learners]]
          /\ votes = [id \in {} |-> TRUE]
    BY <2>1
  <2>3. /\ config \in Config
        /\ t.learners = Members(config.learners)
        /\ CheckInvariants(config, progress)
    BY <2>2 DEF LegalTrackers
  <2>4. DOMAIN progress = VoterIDs(config) \cup Members(config.learners)
    BY <2>2, <2>3
  <2>5. \A id \in DOMAIN progress :
          progress[id] = [match |-> 0, next |-> last, isLearner |-> id \in Members(config.learners)]
    BY <2>2, <2>3
  <2>6. \A id \in DOMAIN progress : progress[id] \in Progress
    <3> SUFFICES ASSUME NEW id \in DOMAIN progress PROVE progress[id] \in Progress
      OBVIOUS
    <3> DEFINE learner == id \in Members(config.learners)
    <3>1. progress[id] = [match |-> 0, next |-> last, isLearner |-> learner]
      BY <2>5
    <3>2. learner \in BOOLEAN /\ last \in 0..MaxIndex + 1 /\ 0 \in 0..MaxIndex
      BY TrackerConstants
    <3> HIDE DEF learner
    <3> QED
      BY <3>1, <3>2 DEF Progress
  <2>7. \A id \in VoterIDs(config) : ~progress[id].isLearner
    <3>1. \A id \in VoterIDs(config) : id \notin Members(config.learners)
      BY <2>3 DEF CheckInvariants
    <3>2. \A id \in DOMAIN progress : id \notin Members(config.learners) => ~progress[id].isLearner
      <4> SUFFICES ASSUME NEW id \in DOMAIN progress, id \notin Members(config.learners)
                   PROVE  ~progress[id].isLearner
        OBVIOUS
      <4> DEFINE learner == id \in Members(config.learners)
      <4>1. progress[id] = [match |-> 0, next |-> last, isLearner |-> learner]
        BY <2>5
      <4>2. learner = FALSE
        OBVIOUS
      <4> HIDE DEF learner
      <4> QED
        BY <4>1, <4>2
    <3> QED
      BY <2>4, <3>1, <3>2
  <2>8. DOMAIN progress \subseteq Ids
    BY <2>3, <2>4 DEF Config, VoterIDs, Members, Maps
  <2>9. DOMAIN votes = {} /\ panicked = "no"
    BY <2>2 DEF Init
  <2> QED
    BY <2>3, <2>4, <2>6, <2>7, <2>8, <2>9
    DEF ConfInv, TrackerTypeOK, RolesAreClear, AppliedIsLegal
<1> QED
  BY <1>2, <1>3

\* Each step keeps the inductive invariant.
LEMMA ConfStep == ConfInv /\ [Next]_vars => ConfInv'
<1> SUFFICES ASSUME ConfInv, [Next]_vars PROVE ConfInv'
  OBVIOUS
<1>1. CASE UNCHANGED vars
  BY ZenonT(60), <1>1 DEF vars, ConfInv, TrackerTypeOK, RolesAreClear, AppliedIsLegal
<1>2. ASSUME NEW id \in Ids, NEW v \in BOOLEAN, Poll(id, v)
      PROVE  ConfInv'
  <2>1. UNCHANGED <<config, progress, panicked>>
    BY <1>2 DEF Poll
  <2>2. DOMAIN votes' \subseteq Ids /\ \A i \in DOMAIN votes' : votes'[i] \in BOOLEAN
    BY <1>2 DEF Poll, RecordVote, ConfInv, TrackerTypeOK
  <2> QED
    BY ZenonT(60), <2>1, <2>2 DEF ConfInv, TrackerTypeOK, RolesAreClear, AppliedIsLegal
<1>3. ASSUME NEW self \in Ids, NEW last \in 1..MaxIndex, Reset(self, last)
      PROVE  ConfInv'
  <2>1. UNCHANGED <<config, panicked>> /\ DOMAIN votes' = {}
    BY <1>3 DEF Reset, ResetVotes
  <2>2. DOMAIN progress' = DOMAIN progress
    BY <1>3 DEF Reset, ResetProgress
  <2>3. ASSUME NEW id \in DOMAIN progress
        PROVE  progress'[id] \in Progress /\ progress'[id].isLearner = progress[id].isLearner
    <3>1. progress[id].isLearner \in BOOLEAN
      BY ZenonT(60), <2>3 DEF ConfInv, TrackerTypeOK, Progress
    <3>2. progress'[id] = [match |-> IF id = self THEN last ELSE 0, next |-> last + 1,
                           isLearner |-> progress[id].isLearner]
      BY <1>3 DEF Reset, ResetProgress
    <3>3. (IF id = self THEN last ELSE 0) \in 0..MaxIndex /\ last + 1 \in 0..MaxIndex + 1
      BY TrackerConstants
    <3> QED
      BY <3>1, <3>2, <3>3 DEF Progress
  <2>4. CheckInvariants(config, progress) => CheckInvariants(config, progress')
    BY <2>2, <2>3 DEF CheckInvariants
  <2>5. VoterIDs(config) \subseteq DOMAIN progress
    BY DEF ConfInv
  <2>6. \A id \in VoterIDs(config) : ~progress'[id].isLearner
    BY <2>3, <2>5 DEF ConfInv, RolesAreClear
  <2> QED
    BY ZenonT(60), <2>1, <2>2, <2>3, <2>4, <2>6 DEF ConfInv, TrackerTypeOK, RolesAreClear, AppliedIsLegal
<1>4. ASSUME NEW ccs \in Changes, NEW last \in 1..MaxIndex, ApplyConfChange(ccs, last)
      PROVE  ConfInv'
  <2>1. /\ SimpleAccepts(config, progress, ccs)
        /\ config' = AppliedConfig(config, progress, ccs)
        /\ progress' = AppliedProgress(progress, ccs, last)
        /\ UNCHANGED <<votes, panicked>>
    BY <1>4 DEF ApplyConfChange, SimpleOK
  <2>2. /\ CheckInvariants(config', progress')
        /\ \A id \in VoterIDs(config') : ~progress'[id].isLearner
        /\ DOMAIN progress' = VoterIDs(config') \cup Members(config'.learners)
        /\ \A id \in DOMAIN progress' : progress'[id] \in Progress
    BY ZenonT(60), <2>1, AcceptedIsLegal
  <2>3. config' \in Config
    BY ZenonT(60), <2>1, AppliedType DEF ConfInv, TrackerTypeOK
  <2>4. DOMAIN progress' \subseteq Ids
    BY <2>2, <2>3 DEF Config, VoterIDs, Members, Maps
  <2> QED
    BY ZenonT(60), <2>1, <2>2, <2>3, <2>4 DEF ConfInv, TrackerTypeOK, RolesAreClear, AppliedIsLegal
<1>5. ASSUME NEW ccs \in Changes, NEW last \in 1..MaxIndex, ApplyConfChangePanics(ccs, last)
      PROVE  ConfInv'
  <2>1. ~SimpleAccepts(config, progress, ccs)
    BY ZenonT(60), <1>5, AcceptedIsLegal DEF ApplyConfChangePanics, SimpleOK
  <2>2. panicked' = "refused" /\ UNCHANGED <<config, progress, votes>>
    BY <1>5, <2>1 DEF ApplyConfChangePanics, trackerVars
  <2> QED
    BY ZenonT(60), <2>2 DEF ConfInv, TrackerTypeOK, RolesAreClear, AppliedIsLegal
<1> QED
  BY <1>1, <1>2, <1>3, <1>4, <1>5 DEF Next

\* The tracker's inductive invariant holds in every reachable state.
THEOREM ConfInvariant == Spec => []ConfInv
  BY ConfInit, ConfStep, PTL DEF Spec

\* The tracker stays well-typed.
THEOREM TrackerTypeCorrect == Spec => []TrackerTypeOK
  BY ConfInvariant, PTL DEF ConfInv

\* makeVoter, checkInvariants: nobody is voter and learner at once.
THEOREM RolesStayClear == Spec => []RolesAreClear
  BY ConfInvariant, PTL DEF ConfInv

\* Simple: the final checkInvariants refuses no change.
THEOREM ResultIsAlwaysLegal == Spec => []AppliedIsLegal
  BY ConfInvariant, PTL DEF ConfInv

\* RecordVote, VoteResult: a decided election stays decided.
THEOREM DecisionStays == Spec => DecisionIsFinal
<1> DEFINE Final == config' = config /\ DOMAIN votes \subseteq DOMAIN votes'
                      /\ Result(config, votes) # "VotePending"
                    => Result(config, votes') = Result(config, votes)
<1>1. ConfInv /\ [Next]_vars => [Final]_vars
  <2> SUFFICES ASSUME ConfInv, Next, config' = config, DOMAIN votes \subseteq DOMAIN votes',
                      Result(config, votes) # "VotePending"
               PROVE  Result(config, votes') = Result(config, votes)
    OBVIOUS
  <2>1. Extends(votes, votes')
    <3>1. ASSUME NEW id \in Ids, NEW v \in BOOLEAN, Poll(id, v) PROVE Extends(votes, votes')
      BY <3>1 DEF Poll, RecordVote, Extends
    <3>2. ASSUME NEW self \in Ids, NEW last \in 1..MaxIndex, Reset(self, last)
          PROVE  Extends(votes, votes')
      BY <3>2 DEF Reset, ResetVotes, Extends
    <3>3. CASE UNCHANGED votes
      BY <3>3 DEF Extends
    <3> QED
      BY ZenonT(60), <3>1, <3>2, <3>3 DEF Next, ApplyConfChange, ApplyConfChangePanics, trackerVars
  <2>2. config.incoming \in SUBSET Ids /\ Members(config.outgoing) \in SUBSET Ids
    BY ZenonT(60) DEF ConfInv, TrackerTypeOK, Config, Maps, Members
  <2>3. IsFiniteSet(config.incoming) /\ IsFiniteSet(Members(config.outgoing))
    BY <2>2, TrackerConstants, FS_Subset
  <2> QED
    BY <2>1, <2>3, JointIsFinal DEF Result
<1> QED
  BY <1>1, ConfInvariant, PTL DEF Spec, DecisionIsFinal

\* Simple: majorities of the configurations before and after a change overlap.
THEOREM QuorumsAlwaysOverlap == Spec => QuorumsOverlap
<1> DEFINE Overlap == config.incoming # {} /\ config' # config =>
       \A old, new \in SUBSET Ids :
         /\ IsQuorum(config.incoming, Members(config.outgoing), old)
         /\ IsQuorum(config'.incoming, Members(config'.outgoing), new)
         => old \cap new # {}
<1>1. ConfInv /\ [Next]_vars => [Overlap]_vars
  <2> SUFFICES ASSUME ConfInv, Next, config.incoming # {}, config' # config,
                      NEW old \in SUBSET Ids, NEW new \in SUBSET Ids,
                      IsQuorum(config.incoming, Members(config.outgoing), old),
                      IsQuorum(config'.incoming, Members(config'.outgoing), new)
               PROVE  old \cap new # {}
    OBVIOUS
  <2>1. PICK ccs \in Changes, last \in 1..MaxIndex : ApplyConfChange(ccs, last)
    BY ZenonT(60) DEF Next, Poll, Reset, ApplyConfChangePanics, trackerVars
  <2>2. /\ SimpleAccepts(config, progress, ccs)
        /\ config' = AppliedConfig(config, progress, ccs)
    BY <2>1 DEF ApplyConfChange, SimpleOK
  <2>3. /\ Members(config.outgoing) = {}
        /\ Symdiff(config.incoming, config'.incoming) <= 1
        /\ CheckInvariants(config, progress)
    BY <2>2 DEF SimpleAccepts, Joint, ConfInv, RolesAreClear
  <2>4. config \in Config /\ config' \in Config
    BY ZenonT(60), <2>2, AppliedType DEF ConfInv, TrackerTypeOK
  <2>5. /\ Clone(config) \in Config
        /\ Clone(config).incoming = config.incoming
        /\ Clone(config).outgoing = config.outgoing
    BY ZenonT(60), <2>4 DEF Clone, Config
  <2>6. /\ config'.incoming = config.incoming \cup Added(ccs)
        /\ config'.outgoing = config.outgoing
    BY <2>2, <2>5 DEF AppliedConfig, MakeVotersConfig, Config
  <2>7. /\ config.incoming \in SUBSET Ids /\ config'.incoming \in SUBSET Ids
        /\ config.incoming \subseteq config'.incoming /\ config'.incoming # {}
    BY <2>4, <2>6 DEF Config
  <2>8. IsFiniteSet(config.incoming) /\ IsFiniteSet(config'.incoming)
    BY <2>7, TrackerConstants, FS_Subset
  <2>9. Cardinality(config.incoming \cap old) >= QuorumSize(config.incoming)
    BY <2>3, <2>8, QuorumIsMajority
  <2>10. Cardinality(config'.incoming \cap new) >= QuorumSize(config'.incoming)
    BY <2>3, <2>6, <2>7, <2>8, QuorumIsMajority, SMTT(60)
  <2> QED
    BY ZenonT(60), <2>3, <2>7, <2>8, <2>9, <2>10, NeighboursOverlap
<1> QED
  BY <1>1, ConfInvariant, PTL DEF Spec, QuorumsOverlap

-----------------------------------------------------------------------------
(* The result is the reference's. *)

\* Half of a whole number: what QuorumSize rounds.
LEMMA MoreThanHalf ==
  ASSUME NEW n \in Nat, NEW k \in Nat
  PROVE  k >= n \div 2 + 1 <=> 2 * k > n
  OBVIOUS

\* A configuration agrees with more voters if it agrees with fewer.
LEMMA AgreesGrows ==
  ASSUME NEW c, IsFiniteSet(c), NEW yes, NEW more, yes \subseteq more, Agrees(c, yes)
  PROVE  Agrees(c, more)
<1>1. /\ IsFiniteSet(c \cap more) /\ c \cap yes \in SUBSET (c \cap more)
  BY FS_Intersection
<1>2. /\ Cardinality(c) \in Nat /\ Cardinality(c \cap more) \in Nat /\ Cardinality(c \cap yes) \in Nat
      /\ Cardinality(c \cap yes) <= Cardinality(c \cap more)
  BY <1>1, FS_Subset, FS_CardinalityType
<1> QED BY <1>2 DEF Agrees

\* MajorityConfig.VoteResult: won if the votes that are in agree, lost if they would
\* not even agree with all the missing ones.
LEMMA MajorityIsReference ==
  ASSUME NEW c, IsFiniteSet(c), NEW u, c \subseteq u, NEW vs
  PROVE  LET least == Yes(u, vs)
             most == Yes(u, vs) \cup Missing(u, vs)
         IN  /\ MajorityVoteResult(c, vs) = "VoteWon" <=> Agrees(c, least)
             /\ MajorityVoteResult(c, vs) = "VoteLost" <=> ~Agrees(c, most)
             /\ MajorityVoteResult(c, vs) \in VoteResults
<1> DEFINE least == Yes(u, vs)
<1> DEFINE most == Yes(u, vs) \cup Missing(u, vs)
<1> DEFINE yes == Cardinality(Yes(c, vs))
<1> DEFINE open == Cardinality(Missing(c, vs))
<1> DEFINE n == Cardinality(c)
<1>1. c \cap least = Yes(c, vs) /\ c \cap most = Yes(c, vs) \cup Missing(c, vs)
  BY DEF Yes, Missing
<1>2. n \in Nat /\ yes \in Nat /\ open \in Nat /\ Cardinality(c \cap least) = yes /\ Cardinality(c \cap most) = yes + open
  BY ZenonT(60), <1>1, VoteSets
<1>3. (Agrees(c, least) <=> c = {} \/ 2 * yes > n) /\ (Agrees(c, most) <=> c = {} \/ 2 * (yes + open) > n)
  BY <1>2 DEF Agrees
<1>4. MajorityVoteResult(c, vs) = IF c = {} \/ yes >= n \div 2 + 1 THEN "VoteWon"
        ELSE IF yes + open >= n \div 2 + 1 THEN "VotePending" ELSE "VoteLost"
  BY DEF MajorityVoteResult, QuorumSize
<1> HIDE DEF yes, open, n, least, most
<1>5. (yes >= n \div 2 + 1 <=> 2 * yes > n) /\ (yes + open >= n \div 2 + 1 <=> 2 * (yes + open) > n)
  BY <1>2, MoreThanHalf
<1>6. 2 * yes > n => 2 * (yes + open) > n
  BY <1>2
<1>7. /\ MajorityVoteResult(c, vs) = "VoteWon" <=> Agrees(c, least)
      /\ MajorityVoteResult(c, vs) = "VoteLost" <=> ~Agrees(c, most)
      /\ MajorityVoteResult(c, vs) \in VoteResults
  BY <1>3, <1>4, <1>5, <1>6 DEF VoteResults
<1> QED BY <1>7 DEF least, most

\* JointConfig.VoteResult: the fewest and the most yes votes decide both halves.
LEMMA JointIsReference ==
  ASSUME NEW c, IsFiniteSet(c), NEW d, IsFiniteSet(d), NEW vs
  PROVE  JointVoteResult(c, d, vs) = ReferenceResult(c, d, vs)
<1> DEFINE u == c \cup d
<1> DEFINE least == Yes(u, vs)
<1> DEFINE most == Yes(u, vs) \cup Missing(u, vs)
<1> DEFINE all == Endings(c, d, vs)
<1> DEFINE wins == {yes \in all : Agrees(c, yes) /\ Agrees(d, yes)}
<1> DEFINE r == MajorityVoteResult(c, vs)
<1> DEFINE s == MajorityVoteResult(d, vs)
<1>1. /\ r = "VoteWon" <=> Agrees(c, least)
      /\ r = "VoteLost" <=> ~Agrees(c, most)
      /\ r \in VoteResults
  BY MajorityIsReference
<1>2. /\ s = "VoteWon" <=> Agrees(d, least)
      /\ s = "VoteLost" <=> ~Agrees(d, most)
      /\ s \in VoteResults
  BY MajorityIsReference
<1>3. least \in all /\ most \in all /\ \A yes \in all : least \subseteq yes /\ yes \subseteq most
  <2>1. all = {Yes(u, vs) \cup more : more \in SUBSET Missing(u, vs)}
    BY DEF Endings
  <2>2. least = Yes(u, vs) \cup {} /\ {} \in SUBSET Missing(u, vs)
    OBVIOUS
  <2>3. Missing(u, vs) \in SUBSET Missing(u, vs)
    OBVIOUS
  <2> HIDE DEF all
  <2>4. least \in all
    BY ZenonT(60), <2>1, <2>2
  <2>5. most \in all
    BY ZenonT(60), <2>1, <2>3
  <2> QED BY ZenonT(60), <2>1, <2>4, <2>5
<1>4. ReferenceResult(c, d, vs) =
        IF wins = all THEN "VoteWon" ELSE IF wins = {} THEN "VoteLost" ELSE "VotePending"
  BY DEF ReferenceResult
<1>5. JointVoteResult(c, d, vs) =
        IF r = s THEN r ELSE IF "VoteLost" \in {r, s} THEN "VoteLost" ELSE "VotePending"
  BY DEF JointVoteResult
<1> HIDE DEF least, most, all, r, s
<1>6. wins = all <=> Agrees(c, least) /\ Agrees(d, least)
  <2>1. ASSUME Agrees(c, least), Agrees(d, least), NEW yes \in all PROVE Agrees(c, yes) /\ Agrees(d, yes)
    BY <1>3, <2>1, AgreesGrows
  <2> QED BY <1>3, <2>1
<1>7. wins = {} <=> ~(Agrees(c, most) /\ Agrees(d, most))
  <2>1. ASSUME NEW yes \in all, Agrees(c, yes), Agrees(d, yes) PROVE Agrees(c, most) /\ Agrees(d, most)
    BY <1>3, <2>1, AgreesGrows
  <2> QED BY <1>3, <2>1
<1> HIDE DEF wins
<1>8. (Agrees(c, least) => Agrees(c, most)) /\ (Agrees(d, least) => Agrees(d, most))
  BY <1>3, AgreesGrows
<1> QED BY <1>1, <1>2, <1>4, <1>5, <1>6, <1>7, <1>8 DEF VoteResults

\* TallyVotes: outside a joint configuration the members that count are the voters.
LEMMA TalliedAreVoters ==
  ASSUME ConfInv, ~Joint(config)
  PROVE  /\ Granted(progress, votes) = Cardinality(Yes(config.incoming, votes))
         /\ Rejected(progress, votes) = Cardinality(No(config.incoming, votes))
<1>1. Members(config.outgoing) = {}
  BY DEF Joint
<1>2. DOMAIN progress = config.incoming \cup Members(config.learners)
  BY <1>1 DEF ConfInv, VoterIDs
<1>3. /\ \A id \in config.incoming : ~progress[id].isLearner
      /\ \A id \in Members(config.learners) : progress[id].isLearner
  BY <1>1 DEF ConfInv, RolesAreClear, VoterIDs, CheckInvariants
<1>4. {id \in DOMAIN progress : ~progress[id].isLearner /\ id \in DOMAIN votes /\ votes[id]}
        = Yes(config.incoming, votes)
  BY <1>2, <1>3 DEF Yes
<1>5. {id \in DOMAIN progress : ~progress[id].isLearner /\ id \in DOMAIN votes /\ ~votes[id]}
        = No(config.incoming, votes)
  BY <1>2, <1>3 DEF No
<1> QED BY ZenonT(60), <1>4, <1>5 DEF Granted, Rejected

\* JointConfig.VoteResult, TallyVotes: every answer is the reference's, for any
\* number of nodes, configurations and votes.
THEOREM ResultsAreReference == Spec => []ResultIsReference
<1>1. ASSUME ConfInv PROVE ResultIsReference
  <2> DEFINE c == config.incoming
  <2> DEFINE d == Members(config.outgoing)
  <2>1. c \in SUBSET Ids /\ d \in SUBSET Ids
    BY ZenonT(60), <1>1 DEF ConfInv, TrackerTypeOK, Config, Maps, Members
  <2>2. IsFiniteSet(c) /\ IsFiniteSet(d)
    BY <2>1, TrackerConstants, FS_Subset
  <2>3. Result(config, votes) = ReferenceResult(c, d, votes)
    BY <2>2, JointIsReference DEF Result
  <2>4. ASSUME ~Joint(config), c # {}
        PROVE  /\ Result(config, votes) = "VoteWon" <=> Granted(progress, votes) >= QuorumSize(c)
               /\ Granted(progress, votes) + Rejected(progress, votes) <= Cardinality(c)
    <3>1. d = {} /\ MajorityVoteResult(d, votes) = "VoteWon"
      BY <2>4 DEF Joint, MajorityVoteResult
    <3>2. Result(config, votes) = "VoteWon" <=> MajorityVoteResult(c, votes) = "VoteWon"
      BY <3>1 DEF Result, JointVoteResult
    <3>3. MajorityVoteResult(c, votes) = "VoteWon" <=> Cardinality(Yes(c, votes)) >= QuorumSize(c)
      BY <2>4 DEF MajorityVoteResult
    <3>4. Cardinality(Yes(c, votes)) + Cardinality(No(c, votes)) <= Cardinality(c)
      <4>1. Yes(c, votes) \in SUBSET c /\ No(c, votes) \in SUBSET c /\ Yes(c, votes) \cap No(c, votes) = {}
        BY DEF Yes, No
      <4>2. /\ IsFiniteSet(Yes(c, votes)) /\ IsFiniteSet(No(c, votes))
            /\ Yes(c, votes) \cup No(c, votes) \in SUBSET c
        BY <2>2, <4>1, FS_Subset
      <4>3. Cardinality(Yes(c, votes) \cup No(c, votes)) <= Cardinality(c)
        BY <2>2, <4>2, FS_Subset
      <4>4. Cardinality(Yes(c, votes) \cup No(c, votes))
              = Cardinality(Yes(c, votes)) + Cardinality(No(c, votes)) - Cardinality({})
        BY <4>1, <4>2, FS_Union
      <4>5. Cardinality(Yes(c, votes)) \in Nat /\ Cardinality(No(c, votes)) \in Nat /\ Cardinality({}) = 0
        BY <4>2, FS_CardinalityType, FS_EmptySet
      <4> QED BY <4>3, <4>4, <4>5
    <3> QED BY <1>1, <2>4, <3>2, <3>3, <3>4, TalliedAreVoters
  <2> QED BY <2>3, <2>4 DEF ResultIsReference
<1> QED BY <1>1, ConfInvariant, PTL
=============================================================================
