--------------------------- MODULE ServerLifecycle ---------------------------
(***************************************************************************)
(* EtcdServer between Start and the end of run: the goroutines that        *)
(* goAttach adds to the wait group under wgMu, publish, which makes the    *)
(* server ready, and the way out of run, which closes stopping under the   *)
(* same lock.  wgMu is a Go RWMutex: a waiting Lock keeps new readers out. *)
(*                                                                         *)
(* External: the callers of stopWithDelay.  They, and the transport that   *)
(* was handed errorc, are the only ones meant to send on it.  The other    *)
(* cases of run's select (applyc, expiredLeaseC, stop) have no sender in   *)
(* the repository and are never ready.                                     *)
(***************************************************************************)
EXTENDS Naturals, Sequences

CONSTANT Stoppers   \* goroutines that call stopWithDelay

VARIABLES
  start,       \* the goroutine in Start: where it is, and the jobs left to attach
  wgMu,        \* does Start hold it for reading; what run does with it
  run,         \* the goroutine in run
  wg, live,    \* counter of the wait group, attached goroutines still running
  errorc,      \* number of errors in the channel, of capacity 1
  stopping, done, readych,   \* is the channel closed
  ctx,         \* "open" or "cancelled"
  attributes,  \* what the cluster knows of this member
  stopper      \* per caller of stopWithDelay: where it is

lifecycleVars == <<start, wgMu, run, wg, live, errorc, stopping, done, readych, ctx, attributes, stopper>>

Jobs == <<"adjustTicks", "publish">>

LifecycleInit ==
  /\ start = [pc |-> "start", jobs |-> Jobs]
  /\ wgMu = [reader |-> FALSE, writer |-> "none"]
  /\ run = "none" /\ wg = 0 /\ live = {}
  /\ errorc = 0 /\ stopping = FALSE /\ done = FALSE /\ readych = FALSE /\ ctx = "open"
  /\ attributes = "name"
  /\ stopper = [t \in Stoppers |-> "idle"]

\* start: fresh channels and context, and the goroutine in run.
Start ==
  /\ start.pc = "start"
  /\ start' = [start EXCEPT !.pc = "rlock"]
  /\ run' = "select"
  /\ UNCHANGED <<wgMu, wg, live, errorc, stopping, done, readych, ctx, attributes, stopper>>

AttachRLock ==
  /\ start.pc = "rlock" /\ start.jobs # <<>> /\ wgMu.writer = "none"
  /\ start' = [start EXCEPT !.pc = "check"]
  /\ wgMu' = [wgMu EXCEPT !.reader = TRUE]
  /\ UNCHANGED <<run, wg, live, errorc, stopping, done, readych, ctx, attributes, stopper>>

\* goAttach reads stopping, without blocking.
AttachCheck ==
  /\ start.pc = "check"
  /\ start' = [start EXCEPT !.pc = IF stopping THEN "runlock" ELSE "add"]
  /\ UNCHANGED <<wgMu, run, wg, live, errorc, stopping, done, readych, ctx, attributes, stopper>>

AttachAdd ==
  /\ start.pc = "add"
  /\ start' = [start EXCEPT !.pc = "runlock"]
  /\ wg' = wg + 1 /\ live' = live \cup {Head(start.jobs)}
  /\ UNCHANGED <<wgMu, run, errorc, stopping, done, readych, ctx, attributes, stopper>>

\* Mistake: goAttach returns without the deferred RUnlock.
AttachForgetsRUnlock ==
  /\ start.pc = "runlock"
  /\ start' = [pc |-> "rlock", jobs |-> Tail(start.jobs)]
  /\ UNCHANGED <<wgMu, run, wg, live, errorc, stopping, done, readych, ctx, attributes, stopper>>

\* The deferred RUnlock; Start goes on with its next job.
AttachRUnlock ==
  /\ start.pc = "runlock"
  /\ start' = [pc |-> "rlock", jobs |-> Tail(start.jobs)]
  /\ wgMu' = [wgMu EXCEPT !.reader = FALSE]
  /\ UNCHANGED <<run, wg, live, errorc, stopping, done, readych, ctx, attributes, stopper>>

\* adjustTicks feeds ticks to the raft node and ends.
AdjustTicks ==
  /\ "adjustTicks" \in live
  /\ live' = live \ {"adjustTicks"} /\ wg' = wg - 1
  /\ UNCHANGED <<start, wgMu, run, errorc, stopping, done, readych, ctx, attributes, stopper>>

\* Cluster.UpdateAttributes takes the lock and leaves the member as it is.
UpdateAttributes(known) == known

\* applierV2store.Put of a request without conditions, whose path is the one of
\* a member's attributes.
Put(known) == UpdateAttributes(known)

\* The error of Do: the handler of a PUT answers at once, without raft and
\* without a look at the context.
Do(c) == "nil"

\* One round of publish: a PUT of the attributes, and the end if it succeeds.
Publish ==
  /\ "publish" \in live
  /\ attributes' = Put(attributes)
  /\ IF Do(ctx) = "nil"
     THEN readych' = TRUE /\ live' = live \ {"publish"} /\ wg' = wg - 1
     ELSE UNCHANGED <<readych, live, wg>>
  /\ UNCHANGED <<start, wgMu, run, errorc, stopping, done, ctx, stopper>>

\* run leaves its select with an error; its deferred function asks for the lock.
RunReceives ==
  /\ run = "select" /\ errorc > 0
  /\ errorc' = errorc - 1
  /\ run' = "lock" /\ wgMu' = [wgMu EXCEPT !.writer = "waiting"]
  /\ UNCHANGED <<start, wg, live, stopping, done, readych, ctx, attributes, stopper>>

\* Mistake: run closes stopping while goAttach holds the lock.
RunBarges ==
  /\ run = "lock"
  /\ run' = "close" /\ wgMu' = [wgMu EXCEPT !.writer = "held"]
  /\ UNCHANGED <<start, wg, live, errorc, stopping, done, readych, ctx, attributes, stopper>>

RunLock ==
  /\ run = "lock" /\ ~wgMu.reader
  /\ run' = "close" /\ wgMu' = [wgMu EXCEPT !.writer = "held"]
  /\ UNCHANGED <<start, wg, live, errorc, stopping, done, readych, ctx, attributes, stopper>>

RunClose ==
  /\ run = "close"
  /\ stopping' = TRUE
  /\ run' = "cancel" /\ wgMu' = [wgMu EXCEPT !.writer = "none"]
  /\ UNCHANGED <<start, wg, live, errorc, done, readych, ctx, attributes, stopper>>

RunCancel ==
  /\ run = "cancel"
  /\ ctx' = "cancelled" /\ run' = "ended"
  /\ UNCHANGED <<start, wgMu, wg, live, errorc, stopping, done, readych, attributes, stopper>>

\* stopWithDelay: the first select, until the timer fires or done is closed.
StopDelay(t) ==
  /\ stopper[t] = "idle"
  /\ stopper' = [stopper EXCEPT ![t] = "send"]
  /\ UNCHANGED <<start, wgMu, run, wg, live, errorc, stopping, done, readych, ctx, attributes>>

\* The second select: an error that finds the channel full is dropped.
StopSend(t) ==
  /\ stopper[t] = "send"
  /\ stopper' = [stopper EXCEPT ![t] = "returned"]
  /\ errorc' = IF errorc < 1 THEN errorc + 1 ELSE errorc
  /\ UNCHANGED <<start, wgMu, run, wg, live, stopping, done, readych, ctx, attributes>>

Starter == Start \/ AttachRLock \/ AttachCheck \/ AttachAdd \/ AttachRUnlock
Run == RunReceives \/ RunLock \/ RunClose \/ RunCancel

LifecycleNext ==
  \/ Starter
  \/ AdjustTicks
  \/ Publish
  \/ Run
  \/ \E t \in Stoppers : StopDelay(t) \/ StopSend(t)

LifecycleSpec == LifecycleInit /\ [][LifecycleNext]_lifecycleVars

\* Every goroutine that can run is run; a call of stopWithDelay need not come.
LifecycleFairness ==
  /\ WF_lifecycleVars(Starter) /\ WF_lifecycleVars(Run)
  /\ WF_lifecycleVars(AdjustTicks) /\ WF_lifecycleVars(Publish)
  /\ \A t \in Stoppers : WF_lifecycleVars(StopSend(t))

LifecycleFairSpec == LifecycleSpec /\ LifecycleFairness

-----------------------------------------------------------------------------

\* goAttach: "now safe to add since waitgroup wait has not started yet".  Once
\* run has closed stopping nothing is added to the wait group, although goAttach
\* looked at stopping earlier than it adds.
NoAddAfterStopping == [][wg' > wg => ~stopping]_lifecycleVars

\* run, goAttach: an error on errorc ends the server; the lock of the wait group
\* is never in the way for good.
ErrorStopsServer == errorc > 0 /\ run = "select" ~> stopping /\ ctx = "cancelled"

=============================================================================
