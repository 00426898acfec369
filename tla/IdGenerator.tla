---------------------------- MODULE IdGenerator ----------------------------
(***************************************************************************)
(* pkg/idutil: the ids of requests, made of two bytes of the member's id,  *)
(* the time the process started (5 bytes of milliseconds) and a counter.   *)
(* Several members hand out ids; each may be restarted at any time, and    *)
(* only the clock of its machine keeps a new process from the ids of the   *)
(* one before.  A clock is read only there; it may be set back, and the    *)
(* timestamp comes round.  Next is one step: the counter is its only       *)
(* shared variable, and the addition is atomic.                            *)
(***************************************************************************)
EXTENDS Integers, Sequences

CONSTANTS
  MemberIDs,      \* ids of the members, 64-bit numbers
  PrefixSpan,     \* 2^16, the values of uint16(id)
  TsSpan,         \* 2^tsLen, the milliseconds a timestamp tells apart
  CntSpan,        \* 2^cntLen, the values of the counter
  MaxNow,         \* bound on a clock, in milliseconds
  MaxIssued       \* bound on the number of ids

Span == TsSpan * CntSpan

ASSUME IdAssumption ==
  /\ MemberIDs \subseteq Nat /\ PrefixSpan \in Nat \ {0}
  /\ TsSpan \in Nat \ {0} /\ CntSpan \in Nat \ {0} /\ Span \in Nat \ {0}
  /\ MaxNow \in Nat /\ MaxIssued \in Nat

VARIABLES
  suffix,  \* per member: Generator.suffix
  issued,  \* the ids handed out and by whom, over all processes, in order
  born,    \* history: per member, the clock when its process was started
  had,     \* history: per member, the ids its process has handed out
  overrun  \* history: the members whose ids the clock no longer keeps apart

idVars == <<suffix, issued, born, had, overrun>>

lowbit(x, span) == x % span

Prefix(m) == (m % PrefixSpan) * Span

\* Mistake: the timestamp is not moved past the counter.
FirstSuffixUnshifted(t) == lowbit(t, TsSpan)

\* NewGenerator
FirstSuffix(t) == lowbit(t, TsSpan) * CntSpan

IdInit ==
  /\ born \in [MemberIDs -> 0..MaxNow]
  /\ suffix = [m \in MemberIDs |-> FirstSuffix(born[m])] /\ issued = <<>>
  /\ had = [m \in MemberIDs |-> 0] /\ overrun = {}

Id(m, s) == Prefix(m) + lowbit(s, Span)

\* Generator.Next.  A counter that runs into the bits of the prefix loses them.
Next(m) ==
  /\ Len(issued) < MaxIssued
  /\ suffix' = [suffix EXCEPT ![m] = @ + 1]
  /\ issued' = Append(issued, [by |-> m, id |-> Id(m, suffix'[m])])
  /\ had' = [had EXCEPT ![m] = @ + 1]
  /\ overrun' = IF suffix'[m] >= Span THEN overrun \cup {m} ELSE overrun
  /\ UNCHANGED born

\* The milliseconds from the start of m's process to time t, by their timestamps:
\* negative when the clock was set back or the timestamp has come round.
Lived(m, t) == lowbit(t, TsSpan) - lowbit(born[m], TsSpan)

\* NewGenerator, in a process that takes the place of m's when the clock shows t.
\* The ids of the old one are overrun when there were more of them than the counter
\* holds for the milliseconds it lived.
RestartMember(m, t) ==
  /\ suffix' = [suffix EXCEPT ![m] = FirstSuffix(t)]
  /\ overrun' = IF had[m] > Lived(m, t) * CntSpan THEN overrun \cup {m} ELSE overrun
  /\ born' = [born EXCEPT ![m] = t] /\ had' = [had EXCEPT ![m] = 0]
  /\ UNCHANGED issued

IdNext == \E m \in MemberIDs : Next(m) \/ \E t \in 0..MaxNow : RestartMember(m, t)

IdSpec == IdInit /\ [][IdNext]_idVars

\* Two members whose ids agree in their low 16 bits: NewServer hands NewGenerator
\* no more of them.
SamePrefix(m, k) == m % PrefixSpan = k % PrefixSpan

\* Generator, "根据计数器、时间戳和nodeid生成一个唯一标识符" (makes a unique
\* identifier from the counter, the timestamp and the node's id): an id handed out
\* twice comes from two members whose ids agree in their low 16 bits, or from one
\* whose counter ran out of its 48 bits, or whose process had handed out more ids
\* than 256 for every millisecond of its life when it was restarted.  Otherwise the
\* ids of all members and all their processes differ.  wait.Register panics on an id
\* that is in use, and an answer is delivered by id.
IdsKeptApart ==
  \A i, j \in 1..Len(issued) :
    i # j /\ issued[i].id = issued[j].id =>
      IF issued[i].by = issued[j].by
        THEN issued[i].by \in overrun
        ELSE SamePrefix(issued[i].by, issued[j].by)

=============================================================================
