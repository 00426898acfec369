--------------------------- MODULE LimitListener ---------------------------
(***************************************************************************)
(* pkg/transport/limit_listen.go: a listener that holds at most N          *)
(* connections at a time.  sem is a channel of capacity N; Accept sends to *)
(* it before it accepts, and the first Close of a connection receives.     *)
(* A connection may be closed by several goroutines (its handler, and the  *)
(* server that shuts down), even at the same time.                         *)
(*                                                                         *)
(* External: the inner net.Listener, whose Accept yields a connection or   *)
(* an error, and its Close, which limitListener inherits.                  *)
(***************************************************************************)
EXTENDS Naturals, FiniteSets

CONSTANTS
  N,          \* capacity of sem
  Acceptors,  \* goroutines that call Accept in a loop
  Conns,      \* connections that can exist at a time
  Closers     \* who closes a connection, each once: its handler, its server

ASSUME ListenerAssumption ==
  N \in Nat \ {0} /\ IsFiniteSet(Acceptors) /\ IsFiniteSet(Conns)

VARIABLES
  sem,     \* number of elements in the channel
  closed,  \* the inner listener is closed
  acc,     \* per acceptor: "idle", "accept" in the inner Accept, "stopped"
  conn,    \* per connection: "free" (no such connection), "open", "closed"
  once,    \* per connection: releaseOnce is done
  calls    \* per connection and closer: its call of Close, "none", "closed" when
           \* it has closed the inner connection, "returned"

listenerVars == <<sem, closed, acc, conn, once, calls>>

ListenerInit ==
  /\ sem = 0 /\ closed = FALSE
  /\ acc = [a \in Acceptors |-> "idle"]
  /\ conn = [c \in Conns |-> "free"]
  /\ once = [c \in Conns |-> FALSE]
  /\ calls = [c \in Conns |-> [g \in Closers |-> "none"]]

\* limitListener.acquire, the first thing Accept does.  A closed listener does not
\* end the wait.
Acquire(a) ==
  /\ acc[a] = "idle" /\ sem < N
  /\ sem' = sem + 1 /\ acc' = [acc EXCEPT ![a] = "accept"]
  /\ UNCHANGED <<closed, conn, once, calls>>

\* The inner Accept returns a connection.
Accept(a, c) ==
  /\ acc[a] = "accept" /\ ~closed /\ conn[c] = "free"
  /\ acc' = [acc EXCEPT ![a] = "idle"]
  /\ conn' = [conn EXCEPT ![c] = "open"]
  /\ UNCHANGED <<sem, closed, once, calls>>

\* Mistake: an error keeps the slot.
AcceptFailsKeeps(a) ==
  /\ acc[a] = "accept"
  /\ acc' = [acc EXCEPT ![a] = IF closed THEN "stopped" ELSE "idle"]
  /\ UNCHANGED <<sem, closed, conn, once, calls>>

\* The inner Accept returns an error, and the slot is released.  The caller tries
\* again unless the listener is closed.
AcceptFails(a) ==
  /\ acc[a] = "accept" /\ sem > 0
  /\ sem' = sem - 1
  /\ acc' = [acc EXCEPT ![a] = IF closed THEN "stopped" ELSE "idle"]
  /\ UNCHANGED <<closed, conn, once, calls>>

\* limitListenerConn.Close: the inner connection first.
CloseConn(g, c) ==
  /\ conn[c] # "free" /\ calls[c][g] = "none"
  /\ conn' = [conn EXCEPT ![c] = "closed"]
  /\ calls' = [calls EXCEPT ![c][g] = "closed"]
  /\ UNCHANGED <<sem, closed, acc, once>>

\* Mistake: every Close releases.
ReleaseEach(g, c) ==
  /\ calls[c][g] = "closed" /\ sem > 0
  /\ sem' = sem - 1 /\ once' = [once EXCEPT ![c] = TRUE]
  /\ calls' = [calls EXCEPT ![c][g] = "returned"]
  /\ UNCHANGED <<closed, acc, conn>>

\* releaseOnce.Do(l.release): one goroutine at a time, and only the first one
\* releases, which waits for an element of the channel.
Release(g, c) ==
  /\ calls[c][g] = "closed"
  /\ once[c] \/ sem > 0
  /\ sem' = IF once[c] THEN sem ELSE sem - 1
  /\ once' = [once EXCEPT ![c] = TRUE]
  /\ calls' = [calls EXCEPT ![c][g] = "returned"]
  /\ UNCHANGED <<closed, acc, conn>>

\* Nobody refers to a closed connection any more.
Drop(c) ==
  /\ once[c] /\ \A g \in Closers : calls[c][g] # "closed"
  /\ conn' = [conn EXCEPT ![c] = "free"] /\ once' = [once EXCEPT ![c] = FALSE]
  /\ calls' = [calls EXCEPT ![c] = [g \in Closers |-> "none"]]
  /\ UNCHANGED <<sem, closed, acc>>

CloseListener == ~closed /\ closed' = TRUE /\ UNCHANGED <<sem, acc, conn, once, calls>>

ListenerNext ==
  \/ \E a \in Acceptors : Acquire(a) \/ AcceptFails(a) \/ \E c \in Conns : Accept(a, c)
  \/ \E c \in Conns : Drop(c) \/ \E g \in Closers : CloseConn(g, c) \/ Release(g, c)
  \/ CloseListener

ListenerSpec == ListenerInit /\ [][ListenerNext]_listenerVars

\* Goroutines go on, the inner Accept of a closed listener fails, and every
\* connection is closed some day, by its client, its handler or the server.
ListenerFairness ==
  /\ \A a \in Acceptors :
       WF_listenerVars(Acquire(a)) /\ WF_listenerVars(closed /\ AcceptFails(a))
  /\ \A c \in Conns, g \in Closers : WF_listenerVars(Release(g, c))
  /\ \A c \in Conns :
       WF_listenerVars(conn[c] = "open" /\ \E g \in Closers : CloseConn(g, c))

ListenerFairSpec == ListenerSpec /\ ListenerFairness

-----------------------------------------------------------------------------

\* LimitListener, "最多同时只能接收n个请求" (takes at most n requests at a time):
\* the connections that are open, and those about to be accepted, are at most N.
\* A second Close that released again would let one more in for ever.
WithinLimit ==
  Cardinality({c \in Conns : conn[c] = "open"}) + Cardinality({a \in Acceptors : acc[a] = "accept"}) <= N

\* Accept, Close: once the listener is closed every goroutine in Accept gets out
\* of it, the ones that wait for a slot included, since no slot is ever lost.
ClosedListenerStops == closed ~> \A a \in Acceptors : acc[a] = "stopped"
=============================================================================
