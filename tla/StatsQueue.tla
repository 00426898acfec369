----------------------------- MODULE StatsQueue -----------------------------
(***************************************************************************)
(* etcdserver/api/v2stats/queue.go: a ring of the last requests.  Insert   *)
(* and Clear hold the lock from end to end; Rate takes the two ends under  *)
(* the lock, gives it back, and then clears the queue or divides what it   *)
(* reads of size and totalReqSize by the time between the ends.            *)
(***************************************************************************)
EXTENDS Integers, Sequences

CONSTANTS
  Capacity,  \* queueCapacity, 200 in the code
  Sizes,     \* sizes of requests
  Second,    \* time.Second
  MaxTime,   \* bound on the clock
  Raters     \* goroutines that call Rate

ASSUME QueueAssumption ==
  Capacity \in Nat \ {0} /\ Sizes \subseteq Nat /\ Second \in Nat /\ MaxTime \in Nat

Request == [time : 0..MaxTime, size : Sizes]
NoRequest == [time |-> -1, size |-> 0]

VARIABLES
  clock,
  items, size, front, back, totalReqSize,  \* statsQueue
  ends   \* per rater: the requests frontAndBack returned, or <<>> outside Rate

queueVars == <<items, size, front, back, totalReqSize>>
statsVars == <<clock, queueVars, ends>>

\* NewServerStats
StatsInit ==
  /\ clock = 0 /\ items = [i \in 0..(Capacity - 1) |-> NoRequest]
  /\ size = 0 /\ front = 0 /\ back = -1 /\ totalReqSize = 0
  /\ ends = [r \in Raters |-> <<>>]

Elapse == clock < MaxTime /\ clock' = clock + 1 /\ UNCHANGED <<queueVars, ends>>

\* Mistake: a full ring starts at the request just inserted.
InsertFront(p) ==
  /\ back' = (back + 1) % Capacity
  /\ front' = IF size = Capacity THEN back' ELSE front
  /\ size' = IF size = Capacity THEN size ELSE size + 1
  /\ totalReqSize' = totalReqSize - (IF size = Capacity THEN items[front].size ELSE 0) + p.size
  /\ items' = [items EXCEPT ![back'] = p]
  /\ UNCHANGED <<clock, ends>>

\* statsQueue.Insert of a request sent now
Insert(p) ==
  /\ back' = (back + 1) % Capacity
  /\ front' = IF size = Capacity THEN (back' + 1) % Capacity ELSE front
  /\ size' = IF size = Capacity THEN size ELSE size + 1
  /\ totalReqSize' = totalReqSize - (IF size = Capacity THEN items[front].size ELSE 0) + p.size
  /\ items' = [items EXCEPT ![back'] = p]
  /\ UNCHANGED <<clock, ends>>

\* statsQueue.frontAndBack, as Rate calls it; Rate of an empty queue returns.
FrontAndBack(r) ==
  /\ ends[r] = <<>> /\ size # 0
  /\ ends' = [ends EXCEPT ![r] = <<items[front], items[back]>>]
  /\ UNCHANGED <<clock, queueVars>>

Stale(r) == clock - ends[r][2].time > Second

\* The items stay in the ring.
Clear == back' = -1 /\ front' = 0 /\ size' = 0 /\ totalReqSize' = 0 /\ UNCHANGED items

\* The rest of Rate: it clears whatever the queue holds by now, or returns the rate.
Rate(r) ==
  /\ ends[r] # <<>>
  /\ IF Stale(r) THEN Clear ELSE UNCHANGED queueVars
  /\ ends' = [ends EXCEPT ![r] = <<>>]
  /\ UNCHANGED clock

StatsNext ==
  \/ Elapse
  \/ \E s \in Sizes : Insert([time |-> clock, size |-> s])
  \/ \E r \in Raters : FrontAndBack(r) \/ Rate(r)

StatsSpec == StatsInit /\ [][StatsNext]_statsVars

-----------------------------------------------------------------------------

\* The queue read from its front.
Contents == [i \in 1..size |-> items[(front + i - 1) % Capacity]]

Window == INSTANCE StatsWindow WITH window <- Contents, total <- totalReqSize

\* statsQueue is the window of the last requests: front and back go round the
\* ring, when it is full and after Clear, without losing or reordering one, and
\* totalReqSize is the sum of their sizes, also when a request that leaves the
\* ring has another size than the one that enters.
KeepsWindow == Window!Spec

=============================================================================
