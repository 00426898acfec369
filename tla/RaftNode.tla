------------------------------ MODULE RaftNode ------------------------------
(***************************************************************************)
(* One raft node as etcdserver runs it: StartNode with its Bootstrap, the  *)
(* goroutine of raftNode.start that turns the ticker into ticks, the       *)
(* goroutine of adjustTicks that fast-forwards the ticks of a single-node  *)
(* cluster, the bounded channel tickc between them and node.run, and the   *)
(* elections node.run starts.                                              *)
(*                                                                         *)
(* No message is sent and no leader is ever set by this code: every        *)
(* assignment of lead assigns None, so lead is left out.  Nothing reaches  *)
(* stable storage, so a crash loses all of the state; what the variables   *)
(* hold while the node is down is what it had when it stopped.             *)
(***************************************************************************)
EXTENDS Tracker, Sequences

CONSTANTS
  Self,          \* raft.id
  PeerLists,     \* the peers StartNode may be given, Self among them
  ElectionTicks, \* electionTimeout
  TickBuffer,    \* capacity of tickc, 128 in the code
  PreVotes,      \* the values of Config.PreVote considered
  MaxTerm        \* bound on Term

ASSUME NodeConstants ==
  /\ ElectionTicks \in Nat \ {0, 1} /\ TickBuffer \in Nat \ {0} /\ MaxTerm \in Nat
  /\ PreVotes \subseteq BOOLEAN
  /\ \A peers \in PeerLists :
       /\ peers \in Seq(Ids \ {0}) /\ Len(peers) \in 1..MaxIndex
       /\ \E i \in DOMAIN peers : peers[i] = Self

VARIABLES
  preVote,   \* raft.preVote, from the server's configuration
  status,    \* "down", "running" or "panicked"
  term,      \* Term
  vote,      \* Vote
  role,      \* state
  elapsed,   \* electionElapsed
  timeout,   \* randomizedElectionTimeout
  lastIndex, \* raftLog.lastIndex()
  tickc,     \* number of ticks waiting in tickc
  forward,   \* ticks adjustTicks has still to send
  fired      \* history: how often the ticker has fired since the start

timerVars == <<elapsed, timeout>>
raftVars == <<term, vote, role, lastIndex>>
tickVars == <<tickc, forward, fired>>
vars == <<preVote, status, trackerVars, raftVars, timerVars, tickVars>>

Changer == INSTANCE ConfChange WITH MaxChanges <- 1, panicked <- status

None == 0

\* Bound on fired, more than the elections of MaxTerm terms take.
MaxFired == MaxTerm * ElectionTicks

\* resetRandomizedElectionTimeout
Timeouts == ElectionTicks..(2 * ElectionTicks - 1)

\* applyConfChange for one peer after the other, from the empty tracker.
Joined(peers, last) ==
  LET t[i \in 0..Len(peers)] ==
        IF i = 0 THEN [ok |-> TRUE, cfg |-> EmptyConfig, prs |-> [id \in {} |-> 0]]
        ELSE LET prev == t[i - 1]
                 ccs == <<[type |-> "AddNode", nodeID |-> peers[i]]>>
             IN  [ok |-> prev.ok /\ Changer!SimpleOK(prev.cfg, prev.prs, ccs, last),
                  cfg |-> Changer!AppliedConfig(prev.cfg, prev.prs, ccs),
                  prs |-> Changer!AppliedProgress(prev.prs, ccs, last)]
  IN  t[Len(peers)]

\* The tracker after Bootstrap: the peers join a log that holds their entries.
Bootstrap(peers) == Joined(peers, Len(peers))

\* Mistake: a whole election timeout is skipped.
ForwardTicksAll(peers) == IF Len(peers) = 1 THEN ElectionTicks ELSE 0

\* adjustTicks
ForwardTicks(peers) == IF Len(peers) = 1 THEN ElectionTicks - 1 ELSE 0

-----------------------------------------------------------------------------

Init ==
  /\ MakeProgressTracker
  /\ preVote \in PreVotes /\ status = "down"
  /\ term = 0 /\ vote = None /\ role = "StateFollower" /\ lastIndex = 0
  /\ elapsed = 0 /\ timeout \in Timeouts
  /\ tickc = 0 /\ forward = 0 /\ fired = 0

\* StartNode: newRaft, Bootstrap at term 1, and the three goroutines.
StartNode(peers) ==
  LET boot == Bootstrap(peers)
  IN  /\ status = "down"
      /\ status' = IF boot.ok THEN "running" ELSE "panicked"
      /\ config' = boot.cfg /\ progress' = boot.prs
      /\ ResetVotes
      /\ term' = 1 /\ vote' = None /\ role' = "StateFollower" /\ lastIndex' = Len(peers)
      /\ elapsed' = 0 /\ timeout' \in Timeouts
      /\ tickc' = 0 /\ forward' = ForwardTicks(peers) /\ fired' = 0
      /\ UNCHANGED preVote

\* The process is killed, or the machine stops.
Crash ==
  /\ status = "running"
  /\ status' = "down"
  /\ UNCHANGED <<preVote, trackerVars, raftVars, timerVars, tickVars>>

\* node.Tick: a tick that finds tickc full is dropped.
SendTick == tickc' = IF tickc < TickBuffer THEN tickc + 1 ELSE tickc

\* The ticker's goroutine.
TickerFires ==
  /\ status = "running"
  /\ SendTick
  /\ fired' = IF fired < MaxFired THEN fired + 1 ELSE fired
  /\ UNCHANGED <<preVote, status, trackerVars, raftVars, timerVars, forward>>

\* One round of advanceTicks.
AdvanceTick ==
  /\ status = "running"
  /\ forward > 0
  /\ forward' = forward - 1
  /\ SendTick
  /\ UNCHANGED <<preVote, status, trackerVars, raftVars, timerVars, fired>>

Promotable == Self \in DOMAIN progress /\ ~progress[Self].isLearner

PastElectionTimeout == elapsed + 1 >= timeout

\* becomeCandidate's reset of the term, its vote, and the poll of itself.
BecomeCandidate ==
  /\ term' = term + 1 /\ vote' = Self
  /\ votes' = [id \in {Self} |-> TRUE]

\* Mistake: the count of ticks is not set back.
CampaignKeepsCount ==
  /\ term < MaxTerm
  /\ BecomeCandidate
  /\ role' = "StateCandidate"
  /\ progress' = ResetProgress(progress, Self, lastIndex)
  /\ elapsed' = elapsed + 1 /\ timeout' \in Timeouts
  /\ UNCHANGED <<status, config, lastIndex>>

\* campaign(campaignElection).  Whether the vote is won changes nothing: the
\* call of becomeLeader is commented out.
Campaign ==
  /\ term < MaxTerm
  /\ BecomeCandidate
  /\ role' = "StateCandidate"
  /\ progress' = ResetProgress(progress, Self, lastIndex)
  /\ elapsed' = 0 /\ timeout' \in Timeouts
  /\ UNCHANGED <<status, config, lastIndex>>

\* campaign(campaignPreElection): voteMsg stays zero and voteRespMsgType panics.
CampaignPreElection ==
  /\ status' = "panicked"
  /\ elapsed' = 0
  /\ UNCHANGED <<trackerVars, raftVars, timeout>>

\* Mistake: the count starts again with every tick.
TickElapsesRestart == elapsed' = 0 /\ UNCHANGED <<status, trackerVars, raftVars, timeout>>

TickElapses == elapsed' = elapsed + 1 /\ UNCHANGED <<status, trackerVars, raftVars, timeout>>

\* node.run receives a tick: tickElection, and Step(MsgHup) when time is up.
NodeTick ==
  /\ status = "running"
  /\ tickc > 0
  /\ tickc' = tickc - 1
  /\ UNCHANGED <<preVote, forward, fired>>
  /\ \/ ~(Promotable /\ PastElectionTimeout) /\ TickElapses
     \/ Promotable /\ PastElectionTimeout /\ ~preVote /\ Campaign
     \/ Promotable /\ PastElectionTimeout /\ preVote /\ CampaignPreElection

Next ==
  \/ \E peers \in PeerLists : StartNode(peers)
  \/ Crash
  \/ TickerFires
  \/ AdvanceTick
  \/ NodeTick

\* The ticker keeps firing and node.run is a loop that is always ready to
\* receive a tick.
Fairness == WF_vars(TickerFires) /\ WF_vars(NodeTick)

Spec == Init /\ [][Next]_vars /\ Fairness

-----------------------------------------------------------------------------

\* adjustTicks: skipping ticks brings an election nearer but never starts one:
\* the ticker has fired before the first campaign, so the server has had a
\* tick's time to hear of a leader.
FastForwardStartsNoElection == term > 1 => fired > 0

\* tickElection, reset, node.Tick: however the ticks of the
\* ticker and of adjustTicks pile up in tickc and are received in a burst, elections
\* keep their pace over the life of a process: after the first, each has had an
\* election timeout of ticker firings to itself.
ElectionsArePaced == term > 1 => fired > (term - 2) * ElectionTicks

\* tickElection, node.run: a node that runs and knows no leader stands for
\* election again and again, even when ticks are dropped.
KeepsCampaigning ==
  \A t \in 1..(MaxTerm - 1) :
    (status = "running" /\ ~preVote /\ term = t) ~> (term > t \/ status = "down")

\* MustSync: "Persistent state on all servers: [...] currentTerm votedFor".
TermSurvivesRestart == [][term' >= term]_vars
=============================================================================
