---------------------------- MODULE PackagesProofs ---------------------------
(***************************************************************************)
(* Proofs about the small packages, for every value of their constants:    *)
(* pkg/wait, pkg/idutil, pkg/netutil, pkg/transport and pkg/osutil.        *)
(***************************************************************************)
EXTENDS WaitTime, IdGenerator, Interrupts, LimitListener, SelfCert,
        FiniteSetTheorems, TLAPS

\* The time a leaf is given; the ones meant for Zenon name it.
USE SMTT(60)

(***************************************************************************)
(* wait.timeList, for any number of waiters and any bound on the           *)
(* deadlines.                                                              *)
(***************************************************************************)

WaitTypeOK ==
  /\ lastTriggerDeadline \in Deadlines /\ m \subseteq Deadlines
  /\ waiting \in [Waiters -> 0..Idle] /\ trigger \in [Waiters -> Deadlines]
  /\ woken \subseteq Waiters

\* Nobody is woken who does not wait: the channel of a waiter that left cannot
\* be mistaken for the one of its next call.
WokenWait == \A w \in woken : waiting[w] # Idle

WaitInv == WaitTypeOK /\ WokenWait /\ NoMissedTrigger /\ NotWokenEarly

\* The invariant of the waiters holds at first.
LEMMA InitWait == WaitInit => WaitInv
  BY DeadlineBound DEF WaitInit, WaitInv, WaitTypeOK, WokenWait, NoMissedTrigger, NotWokenEarly,
                       Deadlines, Idle

\* Wait: the deadline is compared and the channel entered under one lock.
LEMMA WaitStep ==
  ASSUME WaitInv, NEW w \in Waiters, NEW d \in Deadlines, Wait(w, d)
  PROVE  WaitInv'
<1> USE DeadlineBound DEF WaitInv, Deadlines, Idle
<1>1. w \notin woken
  BY DEF Wait, WokenWait
<1>2. WaitTypeOK'
  <2>1. waiting' \in [Waiters -> 0..Idle] /\ lastTriggerDeadline' \in Deadlines
    BY DEF Wait, WaitTypeOK
  <2>2. CASE Triggered(d)
    BY ZenonT(60), <2>1, <2>2 DEF Wait, WaitTypeOK
  <2>3. CASE ~Triggered(d)
    BY ZenonT(60), <2>1, <2>3 DEF Wait, WaitTypeOK
  <2> QED BY <2>2, <2>3
<1>3. WokenWait'
  BY <1>1 DEF Wait, WokenWait, WaitTypeOK
<1>4. NoMissedTrigger'
  <2> SUFFICES ASSUME NEW v \in Waiters, waiting'[v] # Idle, v \notin woken'
               PROVE  waiting'[v] > lastTriggerDeadline' /\ waiting'[v] \in m'
    BY DEF NoMissedTrigger, Wait
  <2>1. CASE v = w
    BY <2>1 DEF Wait, WaitTypeOK, Triggered
  <2>2. CASE v # w
    BY <2>2 DEF Wait, WaitTypeOK, NoMissedTrigger
  <2> QED BY <2>1, <2>2
<1>5. NotWokenEarly'
  BY <1>1 DEF Wait, WaitTypeOK, NotWokenEarly, Triggered
<1> QED BY <1>2, <1>3, <1>4, <1>5

\* Trigger: all due channels are closed and leave the map, the others stay.
LEMMA TriggerStep ==
  ASSUME WaitInv, NEW d \in Deadlines, Trigger(d)
  PROVE  WaitInv'
<1> USE DeadlineBound DEF WaitInv, Deadlines, Idle
<1>1. WaitTypeOK'
  BY ZenonT(60) DEF Trigger, WaitTypeOK, Due
<1>2. WokenWait'
  BY DEF Trigger, WokenWait, WaitTypeOK, Due
<1>3. NoMissedTrigger'
  <2> SUFFICES ASSUME NEW v \in Waiters, waiting'[v] # Idle, v \notin woken'
               PROVE  waiting'[v] > lastTriggerDeadline' /\ waiting'[v] \in m'
    BY DEF NoMissedTrigger, Trigger
  <2>1. v \notin woken /\ waiting[v] \notin Due(d) /\ waiting'[v] = waiting[v]
    BY DEF Trigger
  <2>2. waiting[v] \in m
    BY <2>1 DEF NoMissedTrigger, Trigger
  <2> QED BY <2>1, <2>2 DEF Trigger, Due, WaitTypeOK
<1>4. NotWokenEarly'
  <2> SUFFICES ASSUME NEW v \in woken' PROVE trigger'[v] >= waiting'[v]
    BY DEF NotWokenEarly, Trigger
  <2>1. CASE v \in woken
    BY <2>1 DEF Trigger, NotWokenEarly, WaitTypeOK
  <2>2. CASE v \notin woken
    <3>1. v \in Waiters /\ waiting[v] \in Due(d) /\ trigger'[v] = d
      BY <2>2 DEF Trigger
    <3> QED BY <3>1 DEF Trigger, Due, WaitTypeOK
  <2> QED BY <2>1, <2>2
<1> QED BY <1>1, <1>2, <1>3, <1>4

\* A waiter that leaves changes nothing for the others.
LEMMA LeaveStep ==
  ASSUME WaitInv, NEW w \in Waiters, Leave(w)
  PROVE  WaitInv'
  BY DeadlineBound DEF Leave, WaitInv, WaitTypeOK, WokenWait, NoMissedTrigger, NotWokenEarly,
                       Deadlines, Idle

\* Every step of the waiters keeps the invariant.
LEMMA WaitInductive == WaitInv /\ [WaitNext]_waitVars => WaitInv'
<1> SUFFICES ASSUME WaitInv, [WaitNext]_waitVars PROVE WaitInv'
  OBVIOUS
<1>1. ASSUME NEW w \in Waiters, Leave(w) PROVE WaitInv'
  BY <1>1, LeaveStep
<1>2. ASSUME NEW w \in Waiters, NEW d \in Deadlines, Wait(w, d) PROVE WaitInv'
  BY <1>2, WaitStep
<1>3. ASSUME NEW d \in Deadlines, Trigger(d) PROVE WaitInv'
  BY <1>3, TriggerStep
<1>4. CASE UNCHANGED waitVars
  BY <1>4 DEF waitVars, WaitInv, WaitTypeOK, WokenWait, NoMissedTrigger, NotWokenEarly
<1> QED BY <1>1, <1>2, <1>3, <1>4 DEF WaitNext

\* timeList: nobody sleeps through a Trigger, for any waiters and deadlines and
\* any order of triggers.
THEOREM TriggerReachesAll == WaitSpec => []NoMissedTrigger
<1>1. WaitInv => NoMissedTrigger
  BY DEF WaitInv
<1> QED BY InitWait, WaitInductive, <1>1, PTL DEF WaitSpec

\* timeList: nobody is woken before a Trigger has reached the deadline.
THEOREM NobodyWokenEarly == WaitSpec => []NotWokenEarly
<1>1. WaitInv => NotWokenEarly
  BY DEF WaitInv
<1> QED BY InitWait, WaitInductive, <1>1, PTL DEF WaitSpec

-----------------------------------------------------------------------------
(***************************************************************************)
(* idutil. What keeps ids apart, for any members, any widths of timestamp  *)
(* and counter, any clocks and any number of restarts. IdsKeptApart is not *)
(* inductive: the invariant adds where a counter stands by the time its    *)
(* process was started, and that every id of a member that is not overrun  *)
(* was made from a suffix its counter has reached.                         *)
(***************************************************************************)

\* The suffixes an id can be made from.
IdSuffixes == 0..(Span - 1)

Issue == [by : MemberIDs, id : Nat]

IdTypeOK ==
  /\ suffix \in [MemberIDs -> Nat] /\ born \in [MemberIDs -> Nat] /\ had \in [MemberIDs -> Nat]
  /\ issued \in Seq(Issue) /\ overrun \in SUBSET MemberIDs

\* NewGenerator, Next: the counter started at the timestamp.
CounterInv ==
  \A member \in MemberIDs \ overrun :
    suffix[member] = FirstSuffix(born[member]) + had[member] /\ suffix[member] < Span

\* r was made from a suffix that its member's counter c has reached, unless overrun.
MadeFrom(r, c, over) ==
  \E s \in IdSuffixes : r.id = Id(r.by, s) /\ (r.by \notin over => s <= c[r.by])

\* Generator.Next, NewGenerator: the counter of a member is never below one that an
\* earlier id of the member was made from.
ReachedInv == \A i \in 1..Len(issued) : MadeFrom(issued[i], suffix, overrun)

IdInv == IdTypeOK /\ CounterInv /\ ReachedInv /\ IdsKeptApart

\* lowbit keeps a number that fits.
LEMMA LowbitSmall == ASSUME NEW n \in Nat, NEW x \in 0..(n - 1) PROVE lowbit(x, n) = x
  BY DEF lowbit

\* Two numbers written with different upper parts differ.
LEMMA UpperPartsTell ==
  ASSUME NEW p \in Nat, NEW q \in Nat, NEW n \in Nat,
         NEW s \in 0..(n - 1), NEW t \in 0..(n - 1), p < q
  PROVE p * n + s # q * n + t
<1>1. q >= p + 1  OBVIOUS
<1>2. q * n >= (p + 1) * n  BY <1>1
<1>3. (p + 1) * n = p * n + n  OBVIOUS
<1> QED BY <1>2, <1>3

\* The upper part of an id, and the id of a suffix that fits.
LEMMA IdParts ==
  ASSUME NEW member \in MemberIDs, NEW s \in IdSuffixes
  PROVE member % PrefixSpan \in Nat /\ Id(member, s) = (member % PrefixSpan) * Span + s /\ Id(member, s) \in Nat
<1>1. Span \in Nat /\ lowbit(s, Span) = s  BY IdAssumption, LowbitSmall DEF IdSuffixes
<1>2. member % PrefixSpan \in Nat  BY IdAssumption
<1>3. (member % PrefixSpan) * Span \in Nat  BY <1>1, <1>2
<1> QED BY <1>1, <1>2, <1>3 DEF Id, Prefix, IdSuffixes

\* Ids of two prefixes, or of two suffixes, differ.
LEMMA IdsDiffer ==
  ASSUME NEW member \in MemberIDs, NEW k \in MemberIDs, NEW s \in IdSuffixes, NEW t \in IdSuffixes,
         ~SamePrefix(member, k) \/ (member = k /\ s # t)
  PROVE Id(member, s) # Id(k, t)
<1> DEFINE p == member % PrefixSpan
<1> DEFINE q == k % PrefixSpan
<1>1. p \in Nat /\ q \in Nat /\ Span \in Nat  BY IdParts, IdAssumption
<1>2. Id(member, s) = p * Span + s /\ Id(k, t) = q * Span + t  BY IdParts
<1>3. s \in 0..(Span - 1) /\ t \in 0..(Span - 1)  BY DEF IdSuffixes
<1>4. p # q \/ s # t  BY DEF SamePrefix
<1> HIDE DEF p, q
<1>5. CASE p < q  BY <1>1, <1>2, <1>3, <1>5, UpperPartsTell
<1>6. CASE q < p  BY <1>1, <1>2, <1>3, <1>6, UpperPartsTell
<1>7. CASE p = q
  <2>1. s # t  BY <1>4, <1>7
  <2>2. p * Span \in Nat  BY <1>1
  <2> QED BY <1>2, <1>3, <1>7, <2>1, <2>2
<1> QED BY <1>1, <1>5, <1>6, <1>7

\* An id does not show the bits of the suffix beyond its span.
LEMMA IdLow ==
  ASSUME NEW member \in MemberIDs, NEW s \in Nat
  PROVE  /\ lowbit(s, Span) \in IdSuffixes /\ Id(member, s) = Id(member, lowbit(s, Span))
         /\ s < Span => lowbit(s, Span) = s
<1>1. Span \in Nat \ {0}  BY IdAssumption
<1>2. lowbit(s, Span) \in IdSuffixes  BY <1>1 DEF lowbit, IdSuffixes
<1>3. lowbit(lowbit(s, Span), Span) = lowbit(s, Span)  BY <1>1, <1>2, LowbitSmall DEF IdSuffixes
<1>4. s < Span => lowbit(s, Span) = s  BY <1>1, LowbitSmall
<1> QED BY <1>2, <1>3, <1>4 DEF Id

\* NewGenerator: the suffix a process starts with leaves room for the counter.
LEMMA FirstSuffixFits ==
  ASSUME NEW t \in Nat
  PROVE  lowbit(t, TsSpan) \in Nat /\ FirstSuffix(t) \in IdSuffixes
<1> DEFINE l == lowbit(t, TsSpan)
<1>1. l \in 0..(TsSpan - 1)  BY IdAssumption DEF lowbit
<1> HIDE DEF l
<1>2. l * CntSpan \in Nat /\ CntSpan >= 1 /\ l + 1 <= TsSpan /\ l \in Nat  BY <1>1, IdAssumption
<1>3. (l + 1) * CntSpan <= TsSpan * CntSpan  BY <1>2, IdAssumption
<1>4. (l + 1) * CntSpan = l * CntSpan + CntSpan  BY <1>2, IdAssumption
<1> QED BY <1>2, <1>3, <1>4, IdAssumption DEF FirstSuffix, IdSuffixes, Span, l

\* NewGenerator: a process whose member had no more ids than its life has room for
\* starts beyond them.
LEMMA StartsBeyond ==
  ASSUME NEW b \in Nat, NEW t \in Nat, NEW h \in Nat,
         h <= (lowbit(t, TsSpan) - lowbit(b, TsSpan)) * CntSpan
  PROVE  FirstSuffix(b) + h <= FirstSuffix(t)
<1> DEFINE x == lowbit(b, TsSpan)
<1> DEFINE y == lowbit(t, TsSpan)
<1>1. x \in Nat /\ y \in Nat /\ CntSpan \in Nat  BY FirstSuffixFits, IdAssumption
<1>2. h <= (y - x) * CntSpan  OBVIOUS
<1>3. FirstSuffix(b) = x * CntSpan /\ FirstSuffix(t) = y * CntSpan  BY DEF FirstSuffix
<1> HIDE DEF x, y
<1>4. (y - x) * CntSpan = y * CntSpan - x * CntSpan /\ x * CntSpan \in Nat /\ y * CntSpan \in Nat  BY <1>1
<1> QED BY <1>2, <1>3, <1>4

\* NewGenerator: the counters of new processes.
LEMMA IdInvInit == IdInit => IdInv
<1> SUFFICES ASSUME IdInit PROVE IdInv  OBVIOUS
<1>1. born \in [MemberIDs -> Nat]  BY IdAssumption DEF IdInit
<1>2. \A member \in MemberIDs :
        /\ suffix[member] = FirstSuffix(born[member]) /\ had[member] = 0
        /\ FirstSuffix(born[member]) \in IdSuffixes
  BY <1>1, FirstSuffixFits DEF IdInit
<1>3. Span \in Nat  BY IdAssumption
<1>4. suffix \in [MemberIDs -> Nat] /\ had \in [MemberIDs -> Nat]
  BY <1>1, <1>2, <1>3 DEF IdInit, IdSuffixes
<1>5. issued \in Seq(Issue) /\ Len(issued) = 0 /\ overrun \in SUBSET MemberIDs  BY DEF IdInit
<1>6. CounterInv  BY <1>2, <1>3 DEF CounterInv, IdSuffixes
<1> QED BY <1>1, <1>4, <1>5, <1>6 DEF IdInv, IdTypeOK, ReachedInv, IdsKeptApart

\* NewGenerator: a restart.
LEMMA IdRestart ==
  ASSUME IdInv, NEW member \in MemberIDs, NEW t \in 0..MaxNow, RestartMember(member, t)
  PROVE  IdInv'
<1>0. t \in Nat /\ FirstSuffix(t) \in Nat /\ FirstSuffix(t) < Span
  <2>1. t \in Nat /\ Span \in Nat  BY IdAssumption
  <2> QED BY <2>1, FirstSuffixFits DEF IdSuffixes
<1>1. /\ suffix' = [suffix EXCEPT ![member] = FirstSuffix(t)] /\ born' = [born EXCEPT ![member] = t]
      /\ had' = [had EXCEPT ![member] = 0] /\ issued' = issued
  BY DEF RestartMember
<1>2. overrun \subseteq overrun' /\ overrun' \in SUBSET MemberIDs
  BY DEF RestartMember, IdInv, IdTypeOK
<1>3. IdTypeOK'  BY <1>0, <1>1, <1>2 DEF IdInv, IdTypeOK
<1>4. CounterInv'  BY <1>0, <1>1, <1>2 DEF IdInv, IdTypeOK, CounterInv
<1>5. ASSUME NEW k \in MemberIDs, k \notin overrun' PROVE suffix[k] <= suffix'[k]
  <2>1. CASE k # member  BY <1>1, <2>1 DEF IdInv, IdTypeOK
  <2>2. CASE k = member
    <3>1. born[k] \in Nat /\ had[k] \in Nat  BY DEF IdInv, IdTypeOK
    <3>2. suffix[k] = FirstSuffix(born[k]) + had[k]  BY <1>2, <1>5 DEF IdInv, CounterInv
    <3>3. ~(had[k] > Lived(k, t) * CntSpan)  BY <1>5, <2>2 DEF RestartMember
    <3>4. Lived(k, t) = lowbit(t, TsSpan) - lowbit(born[k], TsSpan)  BY DEF Lived
    <3>5. lowbit(t, TsSpan) \in Nat /\ lowbit(born[k], TsSpan) \in Nat  BY <1>0, <3>1, FirstSuffixFits
    <3>6. Lived(k, t) * CntSpan \in Int  BY <3>4, <3>5, IdAssumption
    <3>7. had[k] <= Lived(k, t) * CntSpan  BY <3>1, <3>3, <3>6
    <3>8. FirstSuffix(born[k]) + had[k] <= FirstSuffix(t)  BY <1>0, <3>1, <3>4, <3>7, StartsBeyond
    <3> QED BY <1>1, <2>2, <3>2, <3>8 DEF IdInv, IdTypeOK
  <2> QED BY <2>1, <2>2
<1>6. ReachedInv'
  <2> SUFFICES ASSUME NEW i \in 1..Len(issued) PROVE MadeFrom(issued[i], suffix', overrun')
    BY ZenonT(60), <1>1 DEF ReachedInv
  <2> DEFINE r == issued[i]
  <2>0. issued[i] \in Issue  BY DEF IdInv, IdTypeOK
  <2>1. r.by \in MemberIDs  BY <2>0 DEF Issue
  <2>2. PICK s \in IdSuffixes : r.id = Id(r.by, s) /\ (r.by \notin overrun => s <= suffix[r.by])
    BY DEF IdInv, ReachedInv, MadeFrom
  <2> HIDE DEF r
  <2>3. r.by \notin overrun' => s <= suffix'[r.by]
    <3>1. suffix[r.by] \in Nat /\ suffix'[r.by] \in Nat /\ s \in Int
      BY <1>3, <2>1 DEF IdInv, IdTypeOK, IdSuffixes
    <3> QED BY <1>2, <1>5, <2>1, <2>2, <3>1
  <2>4. MadeFrom(r, suffix', overrun')  BY ZenonT(60), <2>2, <2>3 DEF MadeFrom
  <2> QED BY <2>4 DEF r
<1>7. IdsKeptApart'  BY <1>1, <1>2 DEF IdInv, IdsKeptApart
<1> QED BY <1>3, <1>4, <1>6, <1>7 DEF IdInv

\* Generator.Next
LEMMA IdNew == ASSUME IdInv, NEW member \in MemberIDs, Next(member) PROVE IdInv'
<1> DEFINE c == suffix[member] + 1
<1> DEFINE new == [by |-> member, id |-> Id(member, c)]
<1> DEFINE low == lowbit(c, Span)
<1>0. c \in Nat /\ Span \in Nat /\ low \in IdSuffixes /\ Id(member, c) = Id(member, low)
      /\ (c < Span => low = c)
  <2>1. c \in Nat /\ Span \in Nat  BY IdAssumption DEF IdInv, IdTypeOK
  <2> QED BY <2>1, IdLow
<1>1. suffix' = [suffix EXCEPT ![member] = c] /\ suffix'[member] = c
      /\ had' = [had EXCEPT ![member] = had[member] + 1] /\ born' = born
  BY DEF Next, IdInv, IdTypeOK
<1>2. issued' = Append(issued, new)  BY <1>1 DEF Next
<1>3. /\ overrun \subseteq overrun' /\ overrun' \in SUBSET MemberIDs
      /\ member \notin overrun' => c < Span
  <2>1. overrun' = IF c >= Span THEN overrun \cup {member} ELSE overrun  BY <1>1 DEF Next
  <2> HIDE DEF c
  <2> QED BY <1>0, <2>1 DEF IdInv, IdTypeOK
<1>4. new \in Issue /\ new.by = member /\ new.id = Id(member, low)
  <2>1. Id(member, low) \in Nat  BY <1>0, IdParts
  <2> QED BY <1>0, <2>1 DEF Issue
<1> HIDE DEF c, low, new
<1>5. issued \in Seq(Issue) /\ Len(issued) \in Nat  BY DEF IdInv, IdTypeOK
<1>6. /\ issued' \in Seq(Issue) /\ Len(issued') = Len(issued) + 1
      /\ issued'[Len(issued) + 1] = new
      /\ \A i \in 1..Len(issued) : issued'[i] = issued[i]
  BY <1>2, <1>4, <1>5
<1>7. IdTypeOK'  BY <1>0, <1>1, <1>3, <1>6 DEF IdInv, IdTypeOK
<1>8. CounterInv'
  <2> SUFFICES ASSUME NEW k \in MemberIDs, k \notin overrun'
               PROVE  suffix'[k] = FirstSuffix(born'[k]) + had'[k] /\ suffix'[k] < Span
    BY DEF CounterInv
  <2>1. suffix[k] = FirstSuffix(born[k]) + had[k] /\ suffix[k] < Span  BY <1>3 DEF IdInv, CounterInv
  <2>2. born[k] \in Nat /\ had[k] \in Nat /\ suffix[k] \in Nat  BY DEF IdInv, IdTypeOK
  <2>3. FirstSuffix(born[k]) \in Nat  BY <1>0, <2>2, FirstSuffixFits DEF IdSuffixes
  <2>4. CASE k # member  BY <1>1, <2>1, <2>4 DEF IdInv, IdTypeOK
  <2>5. CASE k = member
    <3>1. had'[k] = had[k] + 1 /\ suffix'[k] = suffix[k] + 1 /\ c < Span /\ suffix'[k] = c /\ born'[k] = born[k]
      BY <1>1, <1>3, <2>5 DEF IdInv, IdTypeOK, c
    <3> QED BY <2>1, <2>2, <2>3, <3>1
  <2> QED BY <2>4, <2>5
<1>9. ASSUME NEW i \in 1..Len(issued)
      PROVE  /\ issued[i].by \in MemberIDs
             /\ MadeFrom(issued[i], suffix', overrun')
             /\ issued[i].id = new.id =>
                  IF issued[i].by = member THEN member \in overrun' ELSE SamePrefix(issued[i].by, member)
  <2> DEFINE r == issued[i]
  <2>0. issued[i] \in Issue  BY DEF IdInv, IdTypeOK
  <2>1. r.by \in MemberIDs  BY <2>0 DEF Issue
  <2>2. PICK s \in IdSuffixes : r.id = Id(r.by, s) /\ (r.by \notin overrun => s <= suffix[r.by])
    BY DEF IdInv, ReachedInv, MadeFrom
  <2> HIDE DEF r
  <2>3. suffix[r.by] \in Nat /\ suffix[r.by] <= suffix'[r.by] /\ suffix'[r.by] \in Nat
    BY <1>0, <1>1, <2>1 DEF IdInv, IdTypeOK, c
  <2>4. r.by \notin overrun' => s <= suffix'[r.by]
    BY <1>0, <1>3, <2>2, <2>3 DEF IdSuffixes
  <2>5. MadeFrom(r, suffix', overrun')  BY ZenonT(60), <2>2, <2>4 DEF MadeFrom
  <2>6. ASSUME r.id = new.id, r.by = member, member \notin overrun' PROVE FALSE
    <3>1. low = c /\ c = suffix[member] + 1 /\ s <= suffix[member]  BY <1>0, <1>3, <2>2, <2>6 DEF c
    <3>2. s # low  BY <1>0, <2>3, <2>6, <3>1 DEF IdSuffixes
    <3>3. Id(member, s) # Id(member, low)  BY <1>0, <3>2, IdsDiffer
    <3> QED BY ZenonT(60), <1>4, <2>2, <2>6, <3>3
  <2>7. ASSUME r.id = new.id PROVE SamePrefix(r.by, member)
    <3>1. Id(r.by, s) = Id(member, low)  BY <1>4, <2>2, <2>7
    <3> QED BY <1>0, <2>1, <3>1, IdsDiffer
  <2>8. /\ r.by \in MemberIDs /\ MadeFrom(r, suffix', overrun')
        /\ r.id = new.id => IF r.by = member THEN member \in overrun' ELSE SamePrefix(r.by, member)
    BY ZenonT(60), <2>1, <2>5, <2>6, <2>7
  <2> QED BY <2>8 DEF r
<1>10. MadeFrom(new, suffix', overrun')
  <2>1. member \notin overrun' => low <= suffix'[member]  BY <1>0, <1>1, <1>3
  <2> QED BY ZenonT(60), <1>0, <1>4, <2>1 DEF MadeFrom
<1>11. \A i \in 1..Len(issued') : i \in 1..Len(issued) \/ i = Len(issued) + 1
  BY <1>5, <1>6
<1>12. ReachedInv'
  <2> SUFFICES ASSUME NEW i \in 1..Len(issued') PROVE MadeFrom(issued'[i], suffix', overrun')
    BY DEF ReachedInv
  <2> QED BY <1>6, <1>9, <1>10, <1>11
<1>13. IdsKeptApart'
  <2> SUFFICES ASSUME NEW i \in 1..Len(issued'), NEW j \in 1..Len(issued'), i # j,
                      issued'[i].id = issued'[j].id
               PROVE  IF issued'[i].by = issued'[j].by THEN issued'[i].by \in overrun'
                                                       ELSE SamePrefix(issued'[i].by, issued'[j].by)
    BY DEF IdsKeptApart
  <2>1. CASE i \in 1..Len(issued) /\ j \in 1..Len(issued)
    BY <1>3, <1>6, <2>1 DEF IdInv, IdsKeptApart
  <2>2. CASE i \in 1..Len(issued) /\ j = Len(issued) + 1
    BY <1>4, <1>6, <1>9, <2>2
  <2>3. CASE i = Len(issued) + 1 /\ j \in 1..Len(issued)
    <3>1. issued'[j] = issued[j] /\ issued'[i] = new /\ issued[j].id = new.id
      BY <1>6, <2>3
    <3>2. IF issued[j].by = member THEN member \in overrun' ELSE SamePrefix(issued[j].by, member)
      BY <1>9, <2>3, <3>1
    <3> QED BY <1>4, <3>1, <3>2 DEF SamePrefix
  <2> QED BY <1>11, <2>1, <2>2, <2>3
<1> QED BY <1>7, <1>8, <1>12, <1>13 DEF IdInv

\* Every step keeps the invariant.
LEMMA IdStep == IdInv /\ [IdNext]_idVars => IdInv'
<1> SUFFICES ASSUME IdInv, [IdNext]_idVars PROVE IdInv'  OBVIOUS
<1>1. ASSUME NEW member \in MemberIDs, NEW t \in 0..MaxNow, RestartMember(member, t) PROVE IdInv'
  BY <1>1, IdRestart
<1>2. ASSUME NEW member \in MemberIDs, Next(member) PROVE IdInv'
  BY <1>2, IdNew
<1>3. CASE UNCHANGED idVars
  BY ZenonT(60), <1>3 DEF idVars, IdInv, IdTypeOK, CounterInv, ReachedInv, IdsKeptApart
<1> QED BY <1>1, <1>2, <1>3 DEF IdNext

\* Generator: an id handed out twice comes from members that share their low 16 bits
\* or from one that was restarted too early, whatever the clocks show.
THEOREM IdsStayApart == IdSpec => []IdsKeptApart
<1>1. IdInv => IdsKeptApart  BY DEF IdInv
<1> QED BY <1>1, IdInvInit, IdStep, PTL DEF IdSpec

-----------------------------------------------------------------------------
(***************************************************************************)
(* netutil. The limit holds for every capacity and any number of           *)
(* goroutines. The inductive invariant says what the elements of the       *)
(* channel stand for: one for every goroutine in the inner Accept, and one *)
(* for every connection whose releaseOnce is not done.                     *)
(***************************************************************************)

Accepting == {a \in Acceptors : acc[a] = "accept"}
Unreleased == {c \in Conns : conn[c] # "free" /\ ~once[c]}

\* Accept, Close: a slot is taken exactly while it is needed.
SlotInv ==
  /\ sem \in 0..N
  /\ acc \in [Acceptors -> {"idle", "accept", "stopped"}]
  /\ conn \in [Conns -> {"free", "open", "closed"}]
  /\ once \in [Conns -> BOOLEAN]
  /\ calls \in [Conns -> [Closers -> {"none", "closed", "returned"}]]
  /\ \A c \in Conns : once[c] => conn[c] = "closed"
  /\ \A c \in Conns, g \in Closers : calls[c][g] = "closed" => conn[c] = "closed"
  /\ sem = Cardinality(Accepting) + Cardinality(Unreleased)

\* The two sets the slots are counted by are finite.
LEMMA Counted ==
  /\ IsFiniteSet(Accepting) /\ IsFiniteSet(Unreleased)
  /\ Cardinality(Accepting) \in Nat /\ Cardinality(Unreleased) \in Nat
<1>1. IsFiniteSet(Accepting)  BY ListenerAssumption, FS_Subset DEF Accepting
<1>2. IsFiniteSet(Unreleased)  BY ListenerAssumption, FS_Subset DEF Unreleased
<1> QED BY <1>1, <1>2, FS_CardinalityType

\* LimitListener: no slot is taken at first.
LEMMA SlotInit == ListenerInit => SlotInv
<1> SUFFICES ASSUME ListenerInit PROVE SlotInv  OBVIOUS
<1>1. Accepting = {} /\ Unreleased = {}  BY DEF ListenerInit, Accepting, Unreleased
<1>2. Cardinality(Accepting) = 0 /\ Cardinality(Unreleased) = 0  BY <1>1, FS_EmptySet
<1> QED BY <1>2, ListenerAssumption DEF ListenerInit, SlotInv

\* acquire and release keep the count.
LEMMA SlotStep == SlotInv /\ [ListenerNext]_listenerVars => SlotInv'
<1> SUFFICES ASSUME SlotInv, [ListenerNext]_listenerVars PROVE SlotInv'  OBVIOUS
<1> USE Counted
<1>1. ASSUME NEW a \in Acceptors, Acquire(a) PROVE SlotInv'
  <2>1. Accepting' = Accepting \cup {a} /\ a \notin Accepting /\ Unreleased' = Unreleased
    BY <1>1 DEF Acquire, Accepting, Unreleased, SlotInv
  <2>2. Cardinality(Accepting') = Cardinality(Accepting) + 1  BY ZenonT(60), <2>1, FS_AddElement
  <2>3. sem' = sem + 1 /\ sem < N /\ sem \in 0..N  BY <1>1 DEF Acquire, SlotInv
  <2>4. sem = Cardinality(Accepting) + Cardinality(Unreleased)  BY DEF SlotInv
  <2>5. Cardinality(Unreleased') = Cardinality(Unreleased)  BY <2>1
  <2>6. sem' \in 0..N  BY <2>3, ListenerAssumption
  <2>7. sem' = Cardinality(Accepting') + Cardinality(Unreleased')  BY <2>2, <2>3, <2>4, <2>5
  <2> QED BY <1>1, <2>6, <2>7 DEF Acquire, SlotInv
<1>2. ASSUME NEW a \in Acceptors, AcceptFails(a) PROVE SlotInv'
  <2>1. Accepting' = Accepting \ {a} /\ a \in Accepting /\ Unreleased' = Unreleased
    BY <1>2 DEF AcceptFails, Accepting, Unreleased, SlotInv
  <2>2. Cardinality(Accepting') = Cardinality(Accepting) - 1  BY ZenonT(60), <2>1, FS_RemoveElement
  <2> QED BY <1>2, <2>1, <2>2, ListenerAssumption DEF AcceptFails, SlotInv
<1>3. ASSUME NEW a \in Acceptors, NEW c \in Conns, Accept(a, c) PROVE SlotInv'
  <2>1. Accepting' = Accepting \ {a} /\ a \in Accepting
    BY <1>3 DEF Accept, Accepting, SlotInv
  <2>2. Unreleased' = Unreleased \cup {c} /\ c \notin Unreleased
    BY <1>3 DEF Accept, Unreleased, SlotInv
  <2>3. Cardinality(Accepting') = Cardinality(Accepting) - 1  BY ZenonT(60), <2>1, FS_RemoveElement
  <2>4. Cardinality(Unreleased') = Cardinality(Unreleased) + 1  BY ZenonT(60), <2>2, FS_AddElement
  <2>5. sem' = Cardinality(Accepting') + Cardinality(Unreleased')
    BY <1>3, <2>3, <2>4 DEF Accept, SlotInv
  <2> QED BY <1>3, <2>5 DEF Accept, SlotInv
<1>4. ASSUME NEW c \in Conns, NEW g \in Closers, CloseConn(g, c) PROVE SlotInv'
  <2>1. Accepting' = Accepting /\ Unreleased' = Unreleased
    BY <1>4 DEF CloseConn, Accepting, Unreleased, SlotInv
  <2> QED BY <1>4, <2>1 DEF CloseConn, SlotInv
<1>5. ASSUME NEW c \in Conns, NEW g \in Closers, Release(g, c) PROVE SlotInv'
  <2>1. Accepting' = Accepting  BY <1>5 DEF Release, Accepting
  <2>2. conn[c] = "closed"  BY <1>5 DEF Release, SlotInv
  <2>3. CASE once[c]
    <3>1. Unreleased' = Unreleased  BY <1>5, <2>3 DEF Release, Unreleased, SlotInv
    <3> QED BY <1>5, <2>1, <2>2, <2>3, <3>1 DEF Release, SlotInv
  <2>4. CASE ~once[c]
    <3>1. Unreleased' = Unreleased \ {c} /\ c \in Unreleased
      BY <1>5, <2>2, <2>4 DEF Release, Unreleased, SlotInv
    <3>2. Cardinality(Unreleased') = Cardinality(Unreleased) - 1  BY ZenonT(60), <3>1, FS_RemoveElement
    <3>3. sem' = sem - 1  BY <1>5, <2>4 DEF Release
    <3>4. sem' \in 0..N /\ sem' = Cardinality(Accepting') + Cardinality(Unreleased')
      BY <1>5, <2>1, <2>4, <3>2, <3>3, ListenerAssumption DEF Release, SlotInv
    <3> QED BY <1>5, <2>2, <3>4 DEF Release, SlotInv
  <2> QED BY <2>3, <2>4
<1>6. ASSUME NEW c \in Conns, Drop(c) PROVE SlotInv'
  <2>1. Accepting' = Accepting /\ Unreleased' = Unreleased
    BY <1>6 DEF Drop, Accepting, Unreleased, SlotInv
  <2> QED BY <1>6, <2>1 DEF Drop, SlotInv
<1>7. CASE CloseListener
  <2>1. Accepting' = Accepting /\ Unreleased' = Unreleased
    BY ZenonT(60), <1>7 DEF CloseListener, Accepting, Unreleased
  <2> QED BY ZenonT(60), <1>7, <2>1 DEF CloseListener, SlotInv
<1>8. CASE UNCHANGED listenerVars
  <2>1. Accepting' = Accepting /\ Unreleased' = Unreleased
    BY ZenonT(60), <1>8 DEF listenerVars, Accepting, Unreleased
  <2> QED BY ZenonT(60), <1>8, <2>1 DEF listenerVars, SlotInv
<1> QED BY <1>1, <1>2, <1>3, <1>4, <1>5, <1>6, <1>7, <1>8 DEF ListenerNext

\* The buffer of sem bounds the connections.
LEMMA SlotsLimit == SlotInv => WithinLimit
<1> SUFFICES ASSUME SlotInv PROVE WithinLimit  OBVIOUS
<1> DEFINE Open == {c \in Conns : conn[c] = "open"}
<1>1. Open \subseteq Unreleased  BY DEF SlotInv, Unreleased
<1>2. IsFiniteSet(Open) /\ Cardinality(Open) <= Cardinality(Unreleased)  BY <1>1, Counted, FS_Subset
<1>3. Cardinality(Open) \in Nat  BY <1>2, FS_CardinalityType
<1>4. sem <= N /\ sem = Cardinality(Accepting) + Cardinality(Unreleased)
  BY ListenerAssumption DEF SlotInv
<1>5. Cardinality(Open) + Cardinality(Accepting) <= N
  BY <1>2, <1>3, <1>4, Counted, ListenerAssumption
<1> QED BY <1>5 DEF WithinLimit, Accepting

\* limitListener, limitListenerConn: at most N connections are open or about to be
\* accepted, whatever goroutines accept, fail and close.
THEOREM LimitHolds == ListenerSpec => []WithinLimit
BY SlotInit, SlotStep, SlotsLimit, PTL DEF ListenerSpec

-----------------------------------------------------------------------------
(***************************************************************************)
(* transport.SelfCert, for any number of starts, crashes and failures.     *)
(***************************************************************************)

\* SelfCert writes the certificate before the key, and writes only when it found
\* no pair: so a key on disk belongs to the certificate beside it.  A file that is
\* not whole belongs to a torn pair, or is the one being written.
CertInv ==
  /\ pc \in {"stat", "generate", "cert", "encodeCert", "key", "encodeKey", "use", "down"}
  /\ pairs \in Nat
  /\ cert \in [of : Nat, whole : BOOLEAN] /\ key \in [of : Nat, whole : BOOLEAN]
  /\ key.of # 0 => cert.of = key.of
  /\ pc \in {"generate", "cert", "encodeCert", "key"} => key.of = 0
  /\ pc \in {"cert", "encodeCert", "key", "encodeKey"} => pairs > 0
  /\ pc \in {"encodeCert", "key", "encodeKey"} => cert.of = pairs
  /\ pc = "encodeKey" => key.of = pairs
  /\ pc = "use" => key.of # 0
  /\ cert.of # 0 /\ cert.of \notin torn /\ pc # "encodeCert" => cert.whole
  /\ key.of # 0 /\ key.of \notin torn /\ pc # "encodeKey" => key.whole

\* No file is there.
LEMMA CertInvInit == CertInit => CertInv
<1> SUFFICES ASSUME CertInit PROVE CertInv
  OBVIOUS
<1>1. Absent \in [of : Nat, whole : BOOLEAN] /\ Absent.of = 0
  BY DEF Absent
<1> QED BY <1>1 DEF CertInit, CertInv

\* Opening a file for the pair in memory.
LEMMA OpenedIs ==
  ASSUME pairs \in Nat
  PROVE  Opened \in [of : Nat, whole : BOOLEAN] /\ Opened.of = pairs
  BY DEF Opened

\* pem.Encode: what a file that was written in full becomes.
LEMMA WholeIs ==
  ASSUME NEW f \in [of : Nat, whole : BOOLEAN]
  PROVE  LET g == [f EXCEPT !.whole = TRUE]
         IN  g \in [of : Nat, whole : BOOLEAN] /\ g.of = f.of /\ g.whole
  BY ZenonT(60)

\* Stat, the openings and the writes, a failure, a crash and a restart keep it.
LEMMA CertStep == CertInv /\ [CertNext]_certVars => CertInv'
<1> SUFFICES ASSUME CertInv, [CertNext]_certVars PROVE CertInv'
  OBVIOUS
<1>0. /\ pairs \in Nat /\ cert \in [of : Nat, whole : BOOLEAN] /\ key \in [of : Nat, whole : BOOLEAN]
  BY DEF CertInv
<1>1. CASE Stat
  BY <1>1 DEF CertInv, Stat, PairPresent
<1>2. CASE Generate
  BY <1>2 DEF CertInv, Generate
<1>3. CASE Fail \/ Crash \/ Restart
  BY <1>3 DEF CertInv, Fail, Crash, Restart
<1>4. CASE CreateCert
  BY <1>0, <1>4, OpenedIs DEF CertInv, CreateCert
<1>5. CASE EncodeCert
  BY <1>0, <1>5, WholeIs DEF CertInv, EncodeCert
<1>6. CASE OpenKey
  BY <1>0, <1>6, OpenedIs DEF CertInv, OpenKey
<1>7. CASE EncodeKey
  BY <1>0, <1>7, WholeIs DEF CertInv, EncodeKey
<1>8. CASE UNCHANGED certVars
  BY <1>8 DEF CertInv, certVars
<1> QED BY <1>1, <1>2, <1>3, <1>4, <1>5, <1>6, <1>7, <1>8 DEF CertNext

\* SelfCert: the files it hands out were made for one pair, wherever an earlier start
\* failed or the process died, and are whole unless a write of that pair was cut short.
THEOREM PairAlwaysMatches == CertSpec => []PairMatches
<1>1. CertInv => PairMatches
  BY DEF CertInv, PairMatches
<1> QED BY <1>1, CertInvInit, CertStep, PTL DEF CertSpec

-----------------------------------------------------------------------------
(***************************************************************************)
(* osutil, for any number of handlers, registrars and callers of Exit.     *)
(***************************************************************************)

\* The sequence s begins with t.
StartsWith(s, t) == Len(t) <= Len(s) /\ \A i \in 1..Len(t) : s[i] = t[i]

\* The types of the package's state.
InterruptShape ==
  /\ interruptHandlers \in Seq(Registrars) /\ ihs \in Seq(Registrars)
  /\ ran \in Seq(Registrars) /\ before \in Seq(Registrars)
  /\ exitMu \in {"none", "handler", "exit"}
  /\ notifying \in BOOLEAN /\ notifier \in {0, 1}
  /\ handler \in {"none", "wait", "copy", "lock", "run", "kill", "killed"}
  /\ exiter \in [Exiters -> {"idle", "exit"}]
  /\ process \in {"running", "signalled", "exited", "handled"}

\* interruptExitMu is taken once, by the handlers or by a caller of Exit.
ExitMuInv ==
  /\ handler \in {"run", "kill", "killed"} <=> exitMu = "handler"
  /\ ran # <<>> => exitMu = "handler"
  /\ \A x \in Exiters : exiter[x] = "exit" => exitMu = "exit"
  /\ process = "exited" => exitMu = "exit"

\* What is registered before the signal is in the copy, and the copy is run.
CopyInv ==
  /\ StartsWith(interruptHandlers, before)
  /\ handler \in {"lock", "run", "kill", "killed"} => StartsWith(ihs, before)
  /\ StartsWith(ihs, ran)
  /\ handler \in {"kill", "killed"} => Len(ran) = Len(ihs)
  /\ process = "handled" => handler = "killed"
  /\ handler \in {"none", "wait", "copy"} => ihs = <<>>

InterruptInv == InterruptShape /\ ExitMuInv /\ CopyInv

\* Nothing is registered yet, and no signal has come.
LEMMA InterruptInvInit == InterruptInit => InterruptInv
<1> SUFFICES ASSUME InterruptInit PROVE InterruptInv
  OBVIOUS
<1>1. InterruptShape
  <2>1. <<>> \in Seq(Registrars)
    OBVIOUS
  <2>2. exiter \in [Exiters -> {"idle", "exit"}]
    BY DEF InterruptInit
  <2> QED BY ZenonT(60), <2>1, <2>2 DEF InterruptInit, InterruptShape
<1>2. ExitMuInv
  BY DEF InterruptInit, ExitMuInv
<1>3. StartsWith(<<>>, <<>>)
  BY DEF StartsWith
<1>4. CopyInv
  BY <1>3 DEF InterruptInit, CopyInv
<1> QED BY <1>1, <1>2, <1>4 DEF InterruptInv

\* Every step of a registrar, of the signal goroutine and of a caller of Exit
\* keeps the invariant.
LEMMA InterruptStep == InterruptInv /\ [InterruptNext]_interruptVars => InterruptInv'
<1> SUFFICES ASSUME InterruptInv, [InterruptNext]_interruptVars PROVE InterruptInv'
  OBVIOUS
<1> USE DEF InterruptInv, InterruptShape, ExitMuInv, CopyInv
<1>1. ASSUME NEW r \in Registrars, RegisterInterruptHandler(r) PROVE InterruptInv'
  <2>1. interruptHandlers' \in Seq(Registrars)
    BY <1>1 DEF RegisterInterruptHandler
  <2>2. StartsWith(interruptHandlers', before)
    BY <1>1 DEF RegisterInterruptHandler, StartsWith
  <2> QED BY <1>1, <2>1, <2>2 DEF RegisterInterruptHandler, StartsWith
<1>2. CASE HandleInterrupts
  BY <1>2 DEF HandleInterrupts, StartsWith
<1>3. CASE Signal
  <2>1. before' \in Seq(Registrars) /\ notifier' \in {0, 1}
    BY <1>3 DEF Signal
  <2>2. StartsWith(interruptHandlers', before')
    BY <1>3 DEF Signal, StartsWith
  <2>3. handler # "wait" => before' = before
    BY <1>3 DEF Signal
  <2> QED BY <1>3, <2>1, <2>2, <2>3 DEF Signal, StartsWith, Running
<1>4. CASE Receive
  BY <1>4 DEF Receive, StartsWith
<1>5. CASE Copy
  <2>1. ran = <<>> /\ ihs' = interruptHandlers
    BY ZenonT(60), <1>5 DEF Copy
  <2>2. StartsWith(ihs', ran')
    BY <1>5, <2>1 DEF Copy, StartsWith
  <2>3. StartsWith(ihs', before')
    BY <1>5, <2>1 DEF Copy
  <2> QED BY <1>5, <2>1, <2>2, <2>3 DEF Copy
<1>6. CASE Lock
  BY <1>6 DEF Lock, Running
<1>7. CASE RunHandler
  <2>1. ran' = Append(ran, ihs[Len(ran) + 1]) /\ Len(ran) < Len(ihs) /\ ihs' = ihs /\ before' = before
    BY <1>7 DEF RunHandler
  <2>2. ran' \in Seq(Registrars) /\ Len(ran') = Len(ran) + 1
    BY <2>1
  <2>3. StartsWith(ihs', ran')
    BY <2>1, <2>2 DEF StartsWith
  <2> QED BY <1>7, <2>1, <2>2, <2>3 DEF RunHandler
<1>8. CASE Stop
  BY ZenonT(60), <1>8 DEF Stop
<1>9. CASE Kill
  BY <1>9 DEF Kill
<1>10. ASSUME NEW x \in Exiters, ExitLock(x) PROVE InterruptInv'
  BY <1>10 DEF ExitLock, Running
<1>11. ASSUME NEW x \in Exiters, Exit(x) PROVE InterruptInv'
  BY <1>11 DEF Exit, Running
<1>12. CASE UNCHANGED interruptVars
  BY <1>12 DEF interruptVars, StartsWith
<1> QED
  BY ZenonT(60), <1>1, <1>2, <1>3, <1>4, <1>5, <1>6, <1>7, <1>8, <1>9, <1>10, <1>11, <1>12
  DEF InterruptNext, Handler

\* The copy begins with what was registered before, and all of it was run.
LEMMA HandlersWhole == InterruptInv => HandlersRunWhole
<1> SUFFICES ASSUME InterruptInv PROVE HandlersRunWhole
  OBVIOUS
<1> USE DEF InterruptInv, InterruptShape, ExitMuInv, CopyInv
<1>1. ASSUME process = "handled" PROVE StartsWith(ran, before)
  BY <1>1 DEF StartsWith
<1> QED BY <1>1 DEF HandlersRunWhole, StartsWith

\* HandleInterrupts, Exit: no call of Exit cuts the handlers short, and a process
\* that a notified signal ends has run all the handlers registered before it, in
\* their order.
THEOREM HandlersAlwaysRunWhole == InterruptSpec => []HandlersRunWhole
  BY InterruptInvInit, InterruptStep, HandlersWhole, PTL DEF InterruptSpec
=============================================================================
