------------------------------ MODULE WaitTime ------------------------------
(***************************************************************************)
(* wait.timeList (pkg/wait), behind EtcdServer.ApplyWait: goroutines wait  *)
(* for a logical deadline, here a committed index, and Trigger wakes those *)
(* whose deadline has come.  Every method holds the list's lock.  Trigger  *)
(* is called by the applier (external), in any order of deadlines.         *)
(***************************************************************************)
EXTENDS Naturals

CONSTANTS
  Waiters,      \* goroutines that call Wait
  MaxDeadline   \* bound on deadlines

ASSUME DeadlineBound == MaxDeadline \in Nat

VARIABLES
  lastTriggerDeadline,
  m,        \* the deadlines that have an open channel in the map
  waiting,  \* per waiter: the deadline it waits for, or Idle
  woken,    \* the waiters whose channel is closed
  trigger   \* the deadline of the Trigger that closed it, per woken waiter

waitVars == <<lastTriggerDeadline, m, waiting, woken, trigger>>

Deadlines == 0..MaxDeadline
Idle == MaxDeadline + 1

WaitInit ==
  /\ lastTriggerDeadline = 0 /\ m = {}
  /\ waiting = [w \in Waiters |-> Idle]
  /\ woken = {} /\ trigger = [w \in Waiters |-> 0]

\* Mistake: the deadline of the last Trigger itself has to wait.
TriggeredStrictly(d) == lastTriggerDeadline > d

Triggered(d) == lastTriggerDeadline >= d

\* Wait: the closed channel closec, or the channel of the deadline.
Wait(w, d) ==
  /\ waiting[w] = Idle
  /\ waiting' = [waiting EXCEPT ![w] = d]
  /\ IF Triggered(d)
     THEN woken' = woken \cup {w} /\ trigger' = [trigger EXCEPT ![w] = lastTriggerDeadline]
                                  /\ UNCHANGED m
     ELSE m' = m \cup {d} /\ UNCHANGED <<woken, trigger>>
  /\ UNCHANGED lastTriggerDeadline

\* The channels Trigger deletes and closes.
Due(d) == {t \in m : t <= d}

Trigger(d) ==
  LET now == {w \in Waiters \ woken : waiting[w] \in Due(d)}
  IN  /\ lastTriggerDeadline' = d
      /\ m' = m \ Due(d)
      /\ woken' = woken \cup now
      /\ trigger' = [w \in Waiters |-> IF w \in now THEN d ELSE trigger[w]]
      /\ UNCHANGED waiting

\* A woken waiter goes on.
Leave(w) ==
  /\ w \in woken
  /\ woken' = woken \ {w}
  /\ waiting' = [waiting EXCEPT ![w] = Idle]
  /\ trigger' = [trigger EXCEPT ![w] = 0]
  /\ UNCHANGED <<lastTriggerDeadline, m>>

WaitNext ==
  \/ \E w \in Waiters : Leave(w) \/ \E d \in Deadlines : Wait(w, d)
  \/ \E d \in Deadlines : Trigger(d)

WaitSpec == WaitInit /\ [][WaitNext]_waitVars

-----------------------------------------------------------------------------

\* Wait, Trigger: nobody sleeps through a Trigger.  Whoever waits on an open
\* channel has a deadline the last Trigger did not reach, and the channel is
\* in the map for the next one to close, once, for all who share it.
NoMissedTrigger ==
  \A w \in Waiters : waiting[w] # Idle /\ w \notin woken =>
    waiting[w] > lastTriggerDeadline /\ waiting[w] \in m

\* Trigger: nobody is woken before a Trigger has reached the deadline.
NotWokenEarly == \A w \in woken : trigger[w] >= waiting[w]

=============================================================================
