--------------------------- MODULE RaftNodeProofs ---------------------------
(***************************************************************************)
(* Proofs about one raft node, for any election timeout, any capacity of   *)
(* tickc, any peers and any number of crashes and restarts.                *)
(***************************************************************************)
EXTENDS RaftNode, FiniteSetTheorems, WellFoundedInduction, TLAPS

\* The types of the counters.
NodeTypeOK ==
  /\ term \in Nat /\ elapsed \in Nat /\ tickc \in Nat /\ forward \in Nat /\ fired \in Nat
  /\ timeout \in Timeouts
  /\ term <= MaxTerm \/ term <= 1

\* The ticks that the elections so far and the present count have used up, those in
\* tickc and those adjustTicks has still to send.
Ticks == elapsed + tickc + forward + (term - 1) * ElectionTicks

\* Every tick beyond the election timeout less one that adjustTicks gives away is one
\* of the ticker's.  Once fired is at its bound it counts no more.
PaceInv == fired >= MaxFired \/ Ticks <= fired + ElectionTicks - 1

NodeInv == NodeTypeOK /\ PaceInv

\* NodeConstants: an election timeout is more than one tick.
LEMMA TicksType == ElectionTicks \in Nat /\ ElectionTicks > 1 /\ MaxTerm \in Nat /\ MaxFired \in Nat
<1>1. ElectionTicks \in Nat /\ ElectionTicks > 1 /\ MaxTerm \in Nat
  BY NodeConstants
<1> QED BY <1>1 DEF MaxFired

\* One more term is one more election timeout.
LEMMA TermTicks ==
  ASSUME NEW t \in Nat
  PROVE  (t + 1 - 1) * ElectionTicks = (t - 1) * ElectionTicks + ElectionTicks
  BY TicksType

\* The node is down and has no ticks.
LEMMA NodeInvInit == Init => NodeInv
<1> SUFFICES ASSUME Init PROVE NodeInv
  OBVIOUS
<1>1. term = 0 /\ elapsed = 0 /\ tickc = 0 /\ forward = 0 /\ fired = 0 /\ timeout \in Timeouts
  BY DEF Init
<1>2. Ticks <= fired + ElectionTicks - 1
  BY <1>1, TicksType DEF Ticks
<1> QED BY <1>1, <1>2 DEF NodeInv, NodeTypeOK, PaceInv

\* StartNode: the ticks to skip are one fewer than an election timeout, or none.
LEMMA StartStep == ASSUME NodeInv, NEW peers \in PeerLists, StartNode(peers) PROVE NodeInv'
<1>1. ForwardTicks(peers) \in 0..(ElectionTicks - 1)
  BY TicksType DEF ForwardTicks
<1>2. /\ term' = 1 /\ elapsed' = 0 /\ timeout' \in Timeouts
      /\ tickc' = 0 /\ forward' = ForwardTicks(peers) /\ fired' = 0
  BY DEF StartNode
<1>3. Ticks' <= fired' + ElectionTicks - 1
  BY <1>1, <1>2, TicksType DEF Ticks
<1> QED BY <1>1, <1>2, <1>3 DEF NodeInv, NodeTypeOK, PaceInv

\* tickElection: a tick leaves tickc and is counted, or ends the count of an election
\* timeout at least.
LEMMA TickStep == ASSUME NodeInv, NodeTick PROVE NodeInv'
<1> USE TicksType DEF NodeInv, NodeTypeOK
<1>1. tickc > 0 /\ tickc' = tickc - 1 /\ forward' = forward /\ fired' = fired
  BY DEF NodeTick
<1> DEFINE used == (term - 1) * ElectionTicks
<1>0. used \in Int /\ Ticks = elapsed + tickc + forward + used
  BY DEF Ticks
<1>2. CASE TickElapses
  <2>1. elapsed' = elapsed + 1 /\ term' = term /\ timeout' = timeout
    BY <1>2 DEF TickElapses, raftVars
  <2>2. Ticks' = elapsed' + tickc' + forward' + used
    BY <2>1 DEF Ticks
  <2> HIDE DEF used
  <2>3. Ticks' = Ticks
    BY <1>0, <1>1, <2>1, <2>2
  <2> QED BY <1>1, <2>1, <2>3 DEF PaceInv
<1>3. CASE PastElectionTimeout /\ Campaign
  <2>1. elapsed + 1 >= timeout /\ timeout >= ElectionTicks
    BY <1>3 DEF PastElectionTimeout, Timeouts
  <2>2. term' = term + 1 /\ term < MaxTerm /\ elapsed' = 0 /\ timeout' \in Timeouts
    BY <1>3 DEF Campaign, BecomeCandidate
  <2>3. Ticks' = tickc' + forward' + (used + ElectionTicks)
    <3>1. (term' - 1) * ElectionTicks = used + ElectionTicks
      BY <2>2, TermTicks
    <3> HIDE DEF used
    <3> QED BY <1>0, <1>1, <2>2, <3>1 DEF Ticks
  <2>4. timeout \in Nat
    BY DEF Timeouts
  <2> HIDE DEF used
  <2>5. Ticks' <= Ticks
    BY <1>0, <1>1, <2>1, <2>3, <2>4
  <2>6. Ticks \in Int /\ Ticks' \in Int
    BY <1>0, <1>1, <2>3
  <2> QED BY <1>1, <2>2, <2>5, <2>6 DEF PaceInv
<1>4. CASE CampaignPreElection
  <2>1. elapsed' = 0 /\ term' = term /\ timeout' = timeout
    BY <1>4 DEF CampaignPreElection, raftVars
  <2>2. Ticks' = elapsed' + tickc' + forward' + used
    BY <2>1 DEF Ticks
  <2> HIDE DEF used
  <2>3. Ticks' <= Ticks /\ Ticks' \in Int /\ Ticks \in Int
    BY <1>0, <1>1, <2>1, <2>2
  <2> QED BY <1>1, <2>1, <2>3 DEF PaceInv
<1> QED BY <1>2, <1>3, <1>4 DEF NodeTick

\* The two goroutines that tick: a tick of the ticker is counted by fired, one of
\* adjustTicks was among those still to send; either may be dropped.
LEMMA SendStep == ASSUME NodeInv, TickerFires \/ AdvanceTick PROVE NodeInv'
<1> USE TicksType DEF NodeInv, NodeTypeOK
<1> DEFINE used == (term - 1) * ElectionTicks
<1>1. term' = term /\ elapsed' = elapsed /\ timeout' = timeout
  BY DEF TickerFires, AdvanceTick, raftVars, timerVars
<1>2. used \in Int /\ Ticks = elapsed + tickc + forward + used
      /\ Ticks' = elapsed + tickc' + forward' + used
  BY <1>1 DEF Ticks
<1> HIDE DEF used
<1>3. tickc' = tickc \/ tickc' = tickc + 1
  BY DEF TickerFires, AdvanceTick, SendTick
<1>4. CASE TickerFires
  <2>1. forward' = forward /\ ((fired >= MaxFired /\ fired' = fired) \/ fired' = fired + 1)
    BY <1>4 DEF TickerFires
  <2> QED BY <1>1, <1>2, <1>3, <2>1 DEF PaceInv
<1>5. CASE AdvanceTick
  <2>1. forward > 0 /\ forward' = forward - 1 /\ fired' = fired
    BY <1>5 DEF AdvanceTick
  <2> QED BY <1>1, <1>2, <1>3, <2>1 DEF PaceInv
<1> QED BY <1>4, <1>5

\* Every step of the node and of its two tick goroutines keeps the invariant.
LEMMA NodeStep == NodeInv /\ [Next]_vars => NodeInv'
<1> SUFFICES ASSUME NodeInv, [Next]_vars PROVE NodeInv'
  OBVIOUS
<1>1. ASSUME NEW peers \in PeerLists, StartNode(peers) PROVE NodeInv'
  BY <1>1, StartStep
<1>2. CASE Crash \/ UNCHANGED vars
  <2>1. /\ term' = term /\ elapsed' = elapsed /\ tickc' = tickc /\ forward' = forward
        /\ fired' = fired /\ timeout' = timeout
    BY <1>2 DEF Crash, vars, raftVars, timerVars, tickVars
  <2> QED BY ZenonT(60), <2>1 DEF NodeInv, NodeTypeOK, PaceInv, Ticks
<1>3. CASE TickerFires \/ AdvanceTick
  BY <1>3, SendStep
<1>4. CASE NodeTick
  BY <1>4, TickStep
<1> QED BY <1>1, <1>2, <1>3, <1>4 DEF Next

\* In a later term the ticker has fired for all elections but the first.
LEMMA PaceHolds == NodeInv => ElectionsArePaced /\ FastForwardStartsNoElection
<1> SUFFICES ASSUME NodeInv, term > 1
             PROVE  fired > (term - 2) * ElectionTicks /\ fired > 0
  BY DEF ElectionsArePaced, FastForwardStartsNoElection
<1> USE TicksType DEF NodeInv, NodeTypeOK
<1> DEFINE used == (term - 2) * ElectionTicks
<1>1. used \in Nat
  <2>1. term - 2 \in Nat
    OBVIOUS
  <2> QED BY <2>1
<1>2. (term - 1) * ElectionTicks = used + ElectionTicks
  OBVIOUS
<1>3. used < MaxFired
  <2>1. term - 2 \in Nat /\ MaxTerm - (term - 2) \in Nat /\ MaxTerm - (term - 2) >= 1
    OBVIOUS
  <2>2. MaxFired = used + (MaxTerm - (term - 2)) * ElectionTicks
    BY DEF MaxFired
  <2>3. (MaxTerm - (term - 2)) * ElectionTicks >= 1
    BY <2>1
  <2> HIDE DEF used
  <2> QED BY <1>1, <2>2, <2>3
<1> HIDE DEF used
<1>4. CASE fired >= MaxFired
  BY <1>1, <1>3, <1>4 DEF used
<1>5. CASE Ticks <= fired + ElectionTicks - 1
  <2>1. Ticks = elapsed + tickc + forward + (used + ElectionTicks)
    BY <1>2 DEF Ticks
  <2>2. fired > used
    BY <1>1, <1>5, <2>1
  <2> QED BY <1>1, <2>2 DEF used
<1> QED BY <1>4, <1>5 DEF PaceInv

\* adjustTicks, tickElection: whatever the election timeout and the capacity of
\* tickc, and however the two tick goroutines and node.run interleave, no election
\* starts from skipped ticks alone.
THEOREM FastForwardIsSafe == Spec => []FastForwardStartsNoElection
  BY PaceHolds, NodeInvInit, NodeStep, PTL DEF Spec

\* tickElection, reset, node.Tick: for any election timeout and any capacity of tickc,
\* whatever ticks are buffered or dropped, each election after the first has had an
\* election timeout of ticker firings to itself.
THEOREM ElectionsKeepPace == Spec => []ElectionsArePaced
  BY PaceHolds, NodeInvInit, NodeStep, PTL DEF Spec

-----------------------------------------------------------------------------

\* Every set of naturals has a least element: what takes the place of induction.
LEMMA LeastNat ==
  ASSUME NEW T \in SUBSET Nat, T # {}
  PROVE  \E x \in T : \A y \in T : x <= y
<1> DEFINE R == {ss \in Nat \X Nat : ss[1] < ss[2]}
<1>1. IsWellFoundedOn(R, Nat)
  BY NatLessThanWellFounded DEF OpToRel
<1>2. PICK x \in T : \A y \in T : ~(<<y, x>> \in R)
  <2> HIDE DEF R
  <2> QED BY ZenonT(60), <1>1, WFMin
<1>3. ASSUME NEW y \in T PROVE x <= y
  <2>1. <<y, x>> \notin R
    BY <1>2
  <2>2. <<y, x>> \in Nat \X Nat
    OBVIOUS
  <2>3. ~(y < x)
    BY <2>1, <2>2
  <2> QED BY <2>3
<1> QED
  BY <1>3

\* The first i peers.
FirstPeers(peers, i) == {peers[j] : j \in 1..i}

\* The tracker in which the nodes of ids, and no other, have joined as voters.
With(ids, last) ==
  [ok |-> TRUE,
   cfg |-> [incoming |-> ids, outgoing |-> Nil, learners |-> Nil, learnersNext |-> Nil, autoLeave |-> FALSE],
   prs |-> [id \in ids |-> Changer!NewProgress(last)]]

\* Simple accepts a node that joins a tracker of voters, also one that is in it.
LEMMA JoinOne ==
  ASSUME NEW ids \in SUBSET Ids, NEW id \in Ids \ {0}, NEW last
  PROVE  LET ccs == <<[type |-> "AddNode", nodeID |-> id]>>
             prev == With(ids, last)
         IN  /\ Changer!SimpleOK(prev.cfg, prev.prs, ccs, last)
             /\ Changer!AppliedConfig(prev.cfg, prev.prs, ccs) = With(ids \cup {id}, last).cfg
             /\ Changer!AppliedProgress(prev.prs, ccs, last) = With(ids \cup {id}, last).prs
<1> DEFINE ccs == <<[type |-> "AddNode", nodeID |-> id]>>
<1> DEFINE cfg == With(ids, last).cfg
<1> DEFINE prs == With(ids, last).prs
<1> DEFINE all == ids \cup {id}
<1>0. Changer!Members(Nil) = {}
  BY DEF Changer!Members
<1>1. /\ cfg.incoming = ids /\ cfg.outgoing = Nil /\ cfg.learners = Nil /\ cfg.learnersNext = Nil
      /\ cfg.autoLeave = FALSE
      /\ cfg = [incoming |-> ids, outgoing |-> Nil, learners |-> Nil, learnersNext |-> Nil, autoLeave |-> FALSE]
  BY DEF With
<1>2. With(all, last).cfg =
        [incoming |-> all, outgoing |-> Nil, learners |-> Nil, learnersNext |-> Nil, autoLeave |-> FALSE]
  BY DEF With
<1>3. prs = [i \in ids |-> Changer!NewProgress(last)] /\ With(all, last).prs = [i \in all |-> Changer!NewProgress(last)]
  BY DEF With
<1>4. Changer!Effective(ccs) = {[type |-> "AddNode", nodeID |-> id]} /\ Changer!Added(ccs) = {id}
  <2>1. DOMAIN ccs = {1} /\ ccs[1] = [type |-> "AddNode", nodeID |-> id]
    OBVIOUS
  <2>2. Changer!Effective(ccs) = {[type |-> "AddNode", nodeID |-> id]}
    BY <2>1 DEF Changer!Effective, Changer!None
  <2> QED BY <2>2 DEF Changer!Added
<1> HIDE DEF ccs, cfg, prs
<1>5. Changer!Clone(cfg) = cfg
  BY ZenonT(60), <1>1 DEF Changer!Clone
<1>6. Changer!AppliedConfig(cfg, prs, ccs) = With(all, last).cfg
  <2> DEFINE Simple(ns) == [incoming |-> ns, outgoing |-> Nil, learners |-> Nil, learnersNext |-> Nil,
                            autoLeave |-> FALSE]
  <2>1. \A t : Changer!NilAwareDelete(Nil, t) = Nil
    BY <1>0 DEF Changer!NilAwareDelete
  <2> DEFINE Voters == [incoming : SUBSET Ids, outgoing : {Nil}, learners : {Nil}, learnersNext : {Nil},
                        autoLeave : {FALSE}]
  <2>2. cfg \in Voters
    BY <1>1
  <2>3. ASSUME NEW g \in Voters
        PROVE  [g EXCEPT !.incoming = g.incoming \cup {id}, !.learners = Nil, !.learnersNext = Nil]
                 = Simple(g.incoming \cup {id})
    <3> DEFINE h == [g EXCEPT !.incoming = g.incoming \cup {id}, !.learners = Nil, !.learnersNext = Nil]
    <3>1. h \in Voters /\ h.incoming = g.incoming \cup {id}
      BY ZenonT(60)
    <3>2. ASSUME NEW x \in Voters PROVE x = Simple(x.incoming)
      <4> HIDE DEF h
      <4> DEFINE y == Simple(x.incoming)
      <4>1. y \in Voters /\ y.incoming = x.incoming
        OBVIOUS
      <4> HIDE DEF y
      <4>3. /\ x.outgoing = y.outgoing /\ x.learners = y.learners /\ x.learnersNext = y.learnersNext
            /\ x.autoLeave = y.autoLeave
        BY ZenonT(60), <4>1
      <4>2. x = y
        BY <4>1, <4>3
      <4> QED BY <4>2 DEF y
    <3> HIDE DEF h, Voters, Simple
    <3>3. h = Simple(g.incoming \cup {id})
      BY SMTT(60), <3>1, <3>2
    <3> QED BY <3>3 DEF h
  <2>4. cfg.incoming = ids /\ cfg.learners = Nil /\ cfg.learnersNext = Nil
    BY <1>1
  <2>5. Simple(all) = With(all, last).cfg
    BY SMTT(60), <1>2
  <2> HIDE DEF Simple, Voters
  <2>6. [cfg EXCEPT !.incoming = cfg.incoming \cup {id}, !.learners = Nil, !.learnersNext = Nil]
          = With(all, last).cfg
    BY ZenonT(60), <2>2, <2>3, <2>4, <2>5
  <2>7. Changer!AppliedConfig(cfg, prs, ccs) =
          [cfg EXCEPT !.incoming = cfg.incoming \cup {id},
                      !.learners = Changer!NilAwareDelete(cfg.learners, {id} \cap DOMAIN prs),
                      !.learnersNext = Changer!NilAwareDelete(cfg.learnersNext, {id} \cap DOMAIN prs)]
    BY <1>4, <1>5, Zenon DEF Changer!AppliedConfig, Changer!MakeVotersConfig
  <2> QED BY <2>1, <2>4, <2>6, <2>7, Zenon
<1>7. Changer!AppliedProgress(prs, ccs, last) = With(all, last).prs
  <2>1. DOMAIN prs = ids /\ \A i \in ids : prs[i] = Changer!NewProgress(last)
    BY <1>3
  <2>2. [Changer!NewProgress(last) EXCEPT !.isLearner = FALSE] = Changer!NewProgress(last)
    <3>1. \A r \in [match : {0}, next : {last}, isLearner : {FALSE}] : [r EXCEPT !.isLearner = FALSE] = r
      BY ZenonT(60)
    <3>2. Changer!NewProgress(last) \in [match : {0}, next : {last}, isLearner : {FALSE}]
      BY DEF Changer!NewProgress
    <3> QED BY ZenonT(60), <3>1, <3>2
  <2> QED BY ZenonT(60), <1>3, <1>4, <2>1, <2>2 DEF Changer!AppliedProgress, Changer!MakeVotersProgress
<1>8. \A ns, ps : DOMAIN ps = ns => Changer!CheckInvariants(
        [incoming |-> ns, outgoing |-> Nil, learners |-> Nil, learnersNext |-> Nil, autoLeave |-> FALSE], ps)
  BY <1>0 DEF Changer!CheckInvariants, Changer!VoterIDs, Changer!Joint
<1>9. Changer!Symdiff(ids, all) <= 1
  <2>1. ids \ all = {} /\ (all \ ids = {} \/ all \ ids = {id})
    OBVIOUS
  <2>2. Changer!Cardinality({}) = 0 /\ Changer!Cardinality({id}) = 1
    <3>1. \A s : Changer!Cardinality(s) = Cardinality(s)
      BY DEF Changer!Cardinality, Cardinality
    <3> QED BY ZenonT(60), <3>1, FS_EmptySet, FS_Singleton
  <2> QED BY <2>1, <2>2 DEF Changer!Symdiff
<1>10. Changer!SimpleAccepts(cfg, prs, ccs)
  <2>1. Changer!CheckInvariants(cfg, prs)
    BY <1>1, <1>3, <1>8
  <2>2. ~Changer!Joint(cfg)
    BY <1>0, <1>1 DEF Changer!Joint
  <2>3. Changer!ApplyOK(cfg, ccs)
    BY <1>1, <1>4 DEF Changer!ApplyOK
  <2>4. Changer!Symdiff(cfg.incoming, Changer!AppliedConfig(cfg, prs, ccs).incoming) <= 1
    BY <1>1, <1>2, <1>6, <1>9
  <2> QED BY <1>5, <2>1, <2>2, <2>3, <2>4 DEF Changer!SimpleAccepts
<1>11. Changer!SimpleOK(cfg, prs, ccs, last)
  <2>1. Changer!CheckInvariants(With(all, last).cfg, With(all, last).prs)
    BY <1>2, <1>3, <1>8
  <2> QED BY SMTT(60), <1>6, <1>7, <1>10, <2>1 DEF Changer!SimpleOK
<1> QED BY <1>6, <1>7, <1>11 DEF cfg, prs, ccs

\* The recursive definition of Joined, unfolded: the first i peers are voters after
\* i changes.
LEMMA JoinedIs ==
  ASSUME NEW peers \in Seq(Ids \ {0}), NEW last
  PROVE  Joined(peers, last) = With(FirstPeers(peers, Len(peers)), last)
<1> DEFINE n == Len(peers)
<1> DEFINE One(prev, i) ==
      LET ccs == <<[type |-> "AddNode", nodeID |-> peers[i]]>>
      IN  [ok |-> prev.ok /\ Changer!SimpleOK(prev.cfg, prev.prs, ccs, last),
           cfg |-> Changer!AppliedConfig(prev.cfg, prev.prs, ccs),
           prs |-> Changer!AppliedProgress(prev.prs, ccs, last)]
<1> DEFINE Zero == [ok |-> TRUE, cfg |-> EmptyConfig, prs |-> [id \in {} |-> 0]]
<1> DEFINE G(f) == [i \in 0..n |-> IF i = 0 THEN Zero ELSE One(f[i - 1], i)]
<1> DEFINE c == CHOOSE f : f = G(f)
<1> DEFINE s == [i \in 0..n |-> With(FirstPeers(peers, i), last)]
<1>0. n \in Nat
  OBVIOUS
<1>1. Zero = With(FirstPeers(peers, 0), last)
  <2>1. FirstPeers(peers, 0) = {}
    BY DEF FirstPeers
  <2>3. [id \in {} |-> 0] = [id \in {} |-> Changer!NewProgress(last)]
    OBVIOUS
  <2> QED BY ZenonT(60), <2>1, <2>3 DEF With, EmptyConfig
<1>2. ASSUME NEW i \in 1..n
      PROVE  One(With(FirstPeers(peers, i - 1), last), i) = With(FirstPeers(peers, i), last)
  <2> DEFINE prev == With(FirstPeers(peers, i - 1), last)
  <2> DEFINE next == With(FirstPeers(peers, i), last)
  <2>1. peers[i] \in Ids \ {0} /\ FirstPeers(peers, i - 1) \in SUBSET Ids
    BY DEF FirstPeers
  <2>2. FirstPeers(peers, i) = FirstPeers(peers, i - 1) \cup {peers[i]}
    BY DEF FirstPeers
  <2>3. LET ccs == <<[type |-> "AddNode", nodeID |-> peers[i]]>>
        IN  /\ Changer!SimpleOK(prev.cfg, prev.prs, ccs, last)
            /\ Changer!AppliedConfig(prev.cfg, prev.prs, ccs) = next.cfg
            /\ Changer!AppliedProgress(prev.prs, ccs, last) = next.prs
    BY <2>1, <2>2, JoinOne
  <2>4. prev.ok = TRUE /\ next = [ok |-> TRUE, cfg |-> next.cfg, prs |-> next.prs]
    BY DEF With
  <2> QED BY ZenonT(60), <2>3, <2>4
<1> HIDE DEF One, Zero
<1>3. s = G(s)
  BY <1>0, <1>1, <1>2
<1>4. c = G(c)
  <2> HIDE DEF G, s
  <2> QED BY <1>3
<1>5. \A i \in 0..n : c[i] = s[i]
  <2> DEFINE T == {i \in 0..n : c[i] # s[i]}
  <2> SUFFICES ASSUME T # {} PROVE FALSE
    BY ZenonT(60)
  <2> HIDE DEF c, s
  <2>1. PICK i \in T : \A k \in T : i <= k
    <3>1. T \in SUBSET Nat
      BY <1>0
    <3> HIDE DEF T
    <3> QED BY <3>1, LeastNat
  <2>2. i \in 0..n /\ c[i] # s[i]
    OBVIOUS
  <2>3. CASE i = 0
    BY <1>3, <1>4, <2>2, <2>3
  <2>4. CASE i # 0
    <3>1. i - 1 \in 0..n /\ i - 1 \notin T
      BY SMTT(60), <1>0, <2>1, <2>2, <2>4
    <3>2. c[i - 1] = s[i - 1]
      BY <3>1
    <3>3. c[i] = One(c[i - 1], i) /\ s[i] = One(s[i - 1], i)
      BY SMTT(60), <1>3, <1>4, <2>2, <2>4
    <3> QED BY <2>2, <3>2, <3>3
  <2> QED BY SMTT(60), <2>3, <2>4
<1>6. Joined(peers, last) = c[n]
  BY DEF Joined, One, Zero
<1>7. n \in 0..n
  BY <1>0
<1> HIDE DEF c
<1> QED BY <1>5, <1>6, <1>7

\* raft.StartNode, RawNode.Bootstrap: whatever the peers, and however often one is
\* named, every change of Bootstrap is accepted and the node comes up as a voter;
\* the only panic of the code modelled here is the one of a pre-vote.
NodeIsVoter ==
  /\ status = "running" => Promotable /\ Self \in config.incoming
  /\ status = "panicked" => preVote

\* The peers are in the configuration that Bootstrap makes.
LEMMA BootstrapIs ==
  ASSUME NEW peers \in PeerLists
  PROVE  LET boot == Bootstrap(peers)
         IN  boot.ok /\ Self \in boot.cfg.incoming /\ Self \in DOMAIN boot.prs /\ ~boot.prs[Self].isLearner
<1> DEFINE ids == FirstPeers(peers, Len(peers))
<1> DEFINE boot == Bootstrap(peers)
<1>1. peers \in Seq(Ids \ {0}) /\ \E i \in DOMAIN peers : peers[i] = Self
  BY NodeConstants
<1>2. Self \in ids
  BY <1>1 DEF FirstPeers
<1>3. boot = With(ids, Len(peers))
  BY <1>1, JoinedIs DEF Bootstrap
<1> HIDE DEF ids, boot
<1>4. boot.ok /\ boot.cfg.incoming = ids /\ DOMAIN boot.prs = ids /\ boot.prs[Self] = Changer!NewProgress(Len(peers))
  BY <1>2, <1>3 DEF With
<1>5. ~Changer!NewProgress(Len(peers)).isLearner
  BY DEF Changer!NewProgress
<1>6. boot.ok /\ Self \in boot.cfg.incoming /\ Self \in DOMAIN boot.prs /\ ~boot.prs[Self].isLearner
  BY <1>2, <1>4, <1>5
<1> QED BY <1>6 DEF boot

\* Every step leaves a running node a voter of its configuration.
LEMMA VoterStep == NodeIsVoter /\ [Next]_vars => NodeIsVoter'
<1> SUFFICES ASSUME NodeIsVoter, [Next]_vars PROVE NodeIsVoter'
  OBVIOUS
<1> USE DEF NodeIsVoter, Promotable
<1>1. ASSUME NEW peers \in PeerLists, StartNode(peers) PROVE NodeIsVoter'
  <2>1. status' = "running" /\ config' = Bootstrap(peers).cfg /\ progress' = Bootstrap(peers).prs
    BY <1>1, BootstrapIs DEF StartNode
  <2> QED BY <2>1, BootstrapIs
<1>2. CASE Crash
  BY <1>2 DEF Crash
<1>3. CASE TickerFires \/ AdvanceTick
  BY <1>3 DEF TickerFires, AdvanceTick, trackerVars
<1>4. CASE NodeTick
  <2>1. CASE TickElapses
    BY <1>4, <2>1 DEF NodeTick, TickElapses, trackerVars
  <2>2. CASE Campaign
    <3>1. status' = status /\ config' = config /\ preVote' = preVote
      BY <1>4, <2>2 DEF NodeTick, Campaign
    <3>2. (DOMAIN progress)' = DOMAIN progress
          /\ \A id \in DOMAIN progress : progress'[id].isLearner = progress[id].isLearner
      BY <2>2 DEF Campaign, ResetProgress
    <3> QED BY <3>1, <3>2
  <2>3. CASE preVote /\ CampaignPreElection
    BY <1>4, <2>3 DEF NodeTick, CampaignPreElection
  <2> QED BY <1>4, <2>1, <2>2, <2>3 DEF NodeTick
<1>5. CASE UNCHANGED vars
  BY <1>5 DEF vars, trackerVars
<1> QED BY <1>1, <1>2, <1>3, <1>4, <1>5 DEF Next

\* raft.StartNode: a node that runs is a voter of its own configuration, for any
\* peers, so that it can stand for election; none of its changes is refused.
THEOREM NodeStartsAsVoter == Spec => []NodeIsVoter
<1>1. Init => NodeIsVoter
  BY DEF Init, NodeIsVoter
<1> QED BY <1>1, VoterStep, PTL DEF Spec
=============================================================================
