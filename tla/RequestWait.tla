----------------------------- MODULE RequestWait -----------------------------
(***************************************************************************)
(* The path of a v3 write request through EtcdServer                       *)
(* (processInternalRaftRequestOnce): the gap test on the applied and the   *)
(* committed index, the id from idutil.Generator, the registration in      *)
(* wait.list, the proposal, and the race of the answer with the timeout.   *)
(* Each request is a goroutine; Trigger is two steps, because it sends     *)
(* after it has released the lock of the list.                             *)
(*                                                                         *)
(* External: raft.Node, which accepts a proposal or lets its context run   *)
(* out, and the applier, which moves the two indices and answers accepted  *)
(* requests, possibly more than once.  The answer to s.done is left out:   *)
(* no code of the repository closes that channel.                          *)
(***************************************************************************)
EXTENDS Integers, FiniteSets

CONSTANTS
  Requests,   \* goroutines serving clients, each one request after the other
  IdSpan,     \* number of ids less their prefix: 2^suffixLen, with suffixLen 48
  MaxIssued,  \* bound on the number of ids issued
  MaxGap,     \* maxGapBetweenApplyAndCommitIndex, 5000 in the code
  MaxIndex    \* bound on the two indices

ASSUME RequestConstants ==
  \* a request ends before its id comes round again, which takes 2^48 others
  IdSpan \in Nat \ {0} /\ MaxIssued \in 0..IdSpan /\ MaxGap \in Nat /\ MaxIndex \in Nat

VARIABLES
  applied, committed,  \* appliedIndex, committedIndex
  suffix,      \* Generator.suffix; its upper bits are masked out of every id
  issued,      \* number of ids issued so far (bound)
  pc, id, ai,  \* per request: where it is, its id, the applied index it read
  expired,     \* per request: cctx is done
  registered,  \* the ids in wait.list.m
  chan,        \* per id: what its channel holds and whether it is closed
  accepted,    \* ids of the proposals raft accepted
  applier      \* the ids whose channels the applier is about to answer

indexVars == <<applied, committed>>
idVars == <<suffix, issued>>
waitVars == <<registered, chan, applier>>
vars == <<applied, committed, suffix, issued, pc, id, ai, expired, registered, chan, accepted, applier>>

IdSpace == 0..(IdSpan - 1)

Empty == [holds |-> "nothing", closed |-> FALSE]
Chan == [holds : {"nothing", "result", "nil"}, closed : BOOLEAN]

Init ==
  /\ applied = 0 /\ committed = 0
  /\ suffix \in IdSpace /\ issued = 0
  /\ pc = [r \in Requests |-> "idle"]
  /\ id = [r \in Requests |-> 0]
  /\ ai = [r \in Requests |-> 0]
  /\ expired = [r \in Requests |-> FALSE]
  /\ registered = {} /\ chan = [i \in IdSpace |-> Empty]
  /\ accepted = {} /\ applier = {}

Goto(r, from, to) == pc[r] = from /\ pc' = [pc EXCEPT ![r] = to]

\* The request goes on, or returns and its variables go out of scope.
GotoOrReturn(r, from, to) ==
  /\ Goto(r, from, to)
  /\ id' = [id EXCEPT ![r] = IF to = "idle" THEN 0 ELSE @]
  /\ expired' = [expired EXCEPT ![r] = to # "idle" /\ @]

-----------------------------------------------------------------------------
(* processInternalRaftRequestOnce *)

ReadApplied(r) ==
  /\ issued < MaxIssued
  /\ Goto(r, "idle", "gap")
  /\ ai' = [ai EXCEPT ![r] = applied]
  /\ UNCHANGED <<indexVars, idVars, id, expired, waitVars, accepted>>

TooFarBehind(r) == committed > ai[r] + MaxGap

\* ErrTooManyRequests
CheckGap(r) ==
  /\ Goto(r, "gap", IF TooFarBehind(r) THEN "idle" ELSE "id")
  /\ ai' = [ai EXCEPT ![r] = 0]
  /\ UNCHANGED <<indexVars, idVars, id, expired, waitVars, accepted>>

\* The id Generator.Next returns, less its constant prefix.
NextId(s) == (s + 1) % IdSpan

\* reqIDGen.Next, then Marshal and the size limit: a large request ends here.
GenerateID(r) ==
  /\ \/ Goto(r, "id", "register") /\ id' = [id EXCEPT ![r] = NextId(suffix)]
     \/ Goto(r, "id", "idle") /\ UNCHANGED id
  /\ issued < MaxIssued
  /\ issued' = issued + 1
  /\ suffix' = (suffix + 1) % IdSpan
  /\ UNCHANGED <<indexVars, ai, expired, waitVars, accepted>>

\* w.Register and WithTimeout; Register would panic on an id it already has.
Register(r) ==
  /\ Goto(r, "register", "propose")
  /\ registered' = registered \cup {id[r]}
  /\ chan' = [chan EXCEPT ![id[r]] = Empty]
  /\ UNCHANGED <<indexVars, idVars, id, ai, expired, accepted, applier>>

\* The timeout, or the client's context.
Expire(r) ==
  /\ pc[r] \in {"propose", "wait"} /\ ~expired[r]
  /\ expired' = [expired EXCEPT ![r] = TRUE]
  /\ UNCHANGED <<indexVars, idVars, pc, id, ai, waitVars, accepted>>

\* Mistake: Propose does not look at its context.
ProposeGivesUpNever(r) == FALSE /\ UNCHANGED vars

\* Propose returns its context's error, which the caller ignores.
ProposeGivesUp(r) ==
  /\ expired[r]
  /\ Goto(r, "propose", "wait")
  /\ UNCHANGED <<indexVars, idVars, id, ai, expired, waitVars, accepted>>

\* Propose: raft takes the proposal.
ProposeAccepted(r) ==
  /\ Goto(r, "propose", "wait")
  /\ accepted' = accepted \cup {id[r]}
  /\ UNCHANGED <<indexVars, idVars, id, ai, expired, waitVars>>

\* The select: the answer is there.  The type assertion panics on nil, which is
\* also what a closed channel yields once it is empty.
Receive(r) ==
  /\ chan[id[r]] # Empty
  /\ GotoOrReturn(r, "wait", IF chan[id[r]].holds = "result" THEN "idle" ELSE "panicked")
  /\ chan' = [chan EXCEPT ![id[r]].holds = "nothing"]
  /\ UNCHANGED <<indexVars, idVars, ai, registered, accepted, applier>>

\* The half of Trigger under the lock: what it leaves in the map.
Deleted(i) == registered \ {i}

\* Mistake: a request that gives up forgets its registration.
GiveUpForgets(r) ==
  /\ expired[r]
  /\ GotoOrReturn(r, "wait", "idle")
  /\ UNCHANGED <<indexVars, idVars, ai, waitVars, accepted>>

\* Mistake: nil is sent whether or not the map still has the channel.
GiveUpAnyway(r) ==
  /\ expired[r]
  /\ GotoOrReturn(r, "wait", "send nil")
  /\ registered' = Deleted(id[r])
  /\ UNCHANGED <<indexVars, idVars, ai, chan, accepted, applier>>

\* The select: the context is done; Trigger(id, nil) takes the channel.
GiveUp(r) ==
  /\ expired[r]
  /\ GotoOrReturn(r, "wait", IF id[r] \in registered THEN "send nil" ELSE "idle")
  /\ registered' = Deleted(id[r])
  /\ UNCHANGED <<indexVars, idVars, ai, chan, accepted, applier>>

\* The half of Trigger after the lock, in the request's goroutine.
SendNil(r) ==
  /\ chan[id[r]].holds = "nothing"
  /\ GotoOrReturn(r, "send nil", "idle")
  /\ chan' = [chan EXCEPT ![id[r]] = [holds |-> "nil", closed |-> TRUE]]
  /\ UNCHANGED <<indexVars, idVars, ai, registered, accepted, applier>>

-----------------------------------------------------------------------------
(* The applier (external) *)

\* updateCommittedIndex
UpdateCommittedIndex ==
  /\ committed < MaxIndex
  /\ committed' = committed + 1
  /\ UNCHANGED <<applied, idVars, pc, id, ai, expired, waitVars, accepted>>

SetAppliedIndex ==
  /\ applied < committed
  /\ applied' = applied + 1
  /\ UNCHANGED <<committed, idVars, pc, id, ai, expired, waitVars, accepted>>

\* Trigger(id, result), first half; without a channel there is no second.
TriggerTake(i) ==
  /\ i \in accepted \cap registered /\ i \notin applier
  /\ registered' = Deleted(i)
  /\ applier' = applier \cup {i}
  /\ UNCHANGED <<indexVars, idVars, pc, id, ai, expired, chan, accepted>>

TriggerSend(i) ==
  /\ i \in applier /\ chan[i].holds = "nothing"
  /\ applier' = applier \ {i}
  /\ chan' = [chan EXCEPT ![i] = [holds |-> "result", closed |-> TRUE]]
  /\ UNCHANGED <<indexVars, idVars, pc, id, ai, expired, registered, accepted>>

-----------------------------------------------------------------------------

\* A step of a request's own goroutine.
Step(r) ==
  \/ ReadApplied(r) \/ CheckGap(r) \/ GenerateID(r) \/ Register(r)
  \/ ProposeGivesUp(r) \/ ProposeAccepted(r) \/ Receive(r) \/ GiveUp(r) \/ SendNil(r)

Next ==
  \/ \E r \in Requests : Step(r) \/ Expire(r)
  \/ UpdateCommittedIndex \/ SetAppliedIndex
  \/ \E i \in IdSpace : TriggerTake(i) \/ TriggerSend(i)

\* Goroutines that can go on do, and contexts do run out; raft and the applier
\* need not answer.
Fairness ==
  /\ \A r \in Requests :
       WF_vars(CheckGap(r) \/ GenerateID(r) \/ Register(r) \/ ProposeGivesUp(r) \/ Receive(r)
                 \/ GiveUp(r) \/ SendNil(r))
       /\ WF_vars(Expire(r))

Spec == Init /\ [][Next]_vars /\ Fairness

-----------------------------------------------------------------------------

\* Every variable has its type.
RequestTypeOK ==
  /\ applied \in 0..MaxIndex /\ committed \in applied..MaxIndex
  /\ suffix \in IdSpace /\ issued \in 0..MaxIssued
  /\ pc \in [Requests -> {"idle", "gap", "id", "register", "propose", "wait", "send nil", "panicked"}]
  /\ id \in [Requests -> IdSpace] /\ ai \in [Requests -> 0..MaxIndex]
  /\ expired \in [Requests -> BOOLEAN]
  /\ registered \subseteq IdSpace /\ accepted \subseteq IdSpace /\ applier \subseteq IdSpace
  /\ chan \in [IdSpace -> Chan]

\* Register ("dup id"): whoever is about to register has an id nobody waits
\* on, although ids wrap and requests overtake each other.
NoDuplicateId ==
  \A r \in Requests : pc[r] = "register" =>
    /\ id[r] \notin registered
    /\ \A q \in Requests \ {r} : pc[q] \in {"register", "propose", "wait", "send nil"} => id[q] # id[r]

\* Trigger: an answer, a second answer and the request's own Trigger(id, nil)
\* may race, but only one of them gets the channel: no send finds it full
\* (and blocks the applier) or closed (and panics), and nobody reads a nil.
OneSenderPerChannel ==
  /\ \A i \in applier : chan[i] = Empty
  /\ \A r \in Requests :
       /\ pc[r] = "send nil" => chan[id[r]] = Empty /\ id[r] \notin applier
       /\ pc[r] # "panicked"

\* GC of the wait list: it holds only requests that still wait for an answer.
NoLeak == registered \subseteq {id[r] : r \in {q \in Requests : pc[q] \in {"propose", "wait"}}}

\* The gap test reads the two indices one after the other.  A request it lets
\* pass was let pass when the applier really was at most MaxGap behind.
AdmittedWithinGap ==
  [][\A r \in Requests : pc[r] = "gap" /\ pc'[r] = "id" => committed - applied <= MaxGap]_vars

\* Propose and the select: once registered, every request returns.
EveryRequestReturns == \A r \in Requests : pc[r] = "register" ~> pc[r] = "idle"
=============================================================================
