---------------------------- MODULE RequestProofs ----------------------------
(***************************************************************************)
(* Proofs about the requests a server takes.  The path of a write request  *)
(* (RequestWait), for any number of requests, any width of the ids and any *)
(* gap: ids do not clash, a channel gets one answer, the wait list does    *)
(* not leak, and the gap test is sound.  The statistics of the requests    *)
(* (StatsQueue), for any capacity and sizes: the ring is the window of the *)
(* last of them.                                                           *)
(***************************************************************************)
EXTENDS RequestWait, StatsQueue, WellFoundedInduction, TLAPS

-----------------------------------------------------------------------------
(* RequestWait: ids, channels and the gap test *)


PC == {"idle", "gap", "id", "register", "propose", "wait", "send nil", "panicked"}

InFlight == {"register", "propose", "wait", "send nil"}

\* How many ids ago i was issued, if the generator is at s.
Age(s, i) == IF i <= s THEN s - i ELSE s - i + IdSpan

\* Every id in use was issued in this run, and no two requests share one.  The
\* applier may still be busy with the id of a request that has given up.
IdsInUse ==
  /\ \A r \in Requests : pc[r] \in InFlight => Age(suffix, id[r]) < issued
  /\ \A i \in applier : Age(suffix, i) < issued
  /\ \A r, q \in Requests : r # q /\ pc[r] \in InFlight /\ pc[q] \in InFlight => id[r] # id[q]
  /\ \A r \in Requests : pc[r] = "register" => id[r] \notin applier

\* Who may send on a channel: it is in the map, or with the applier, or with the
\* request that took it out, and in each case it is still empty.
OneOwner ==
  /\ \A i \in registered : chan[i] = Empty /\ i \notin applier
  /\ \A i \in applier : chan[i] = Empty
  /\ \A r \in Requests : pc[r] = "send nil" => chan[id[r]] = Empty /\ id[r] \notin applier
  /\ \A r \in Requests : pc[r] \in {"propose", "wait"} =>
       chan[id[r]] = Empty \/ chan[id[r]].holds = "result"
  /\ \A r \in Requests : pc[r] # "panicked"

\* The applied index a request has read is at most the present one.
ReadBefore == \A r \in Requests : pc[r] = "gap" => ai[r] <= applied

ReqInv == RequestTypeOK /\ IdsInUse /\ OneOwner /\ NoLeak /\ ReadBefore

-----------------------------------------------------------------------------
(* The generator *)

\* idutil.Next: the counter after the last suffix is the first one again.
LEMMA NextWraps ==
  ASSUME NEW s \in IdSpace
  PROVE  (s + 1) % IdSpan = (IF s + 1 = IdSpan THEN 0 ELSE s + 1) /\ (s + 1) % IdSpan \in IdSpace
<1> USE RequestConstants DEF IdSpace
<1>1. CASE s + 1 = IdSpan
  <2>1. IdSpan % IdSpan = 0
    BY SMT
  <2> QED BY <1>1, <2>1
<1>2. CASE s + 1 # IdSpan
  <2>1. ASSUME NEW y \in 0..(IdSpan - 1) PROVE y % IdSpan = y
    BY <2>1
  <2>2. s + 1 \in 0..(IdSpan - 1)
    BY <1>2
  <2> QED BY <1>2, <2>1, <2>2
<1> QED BY <1>1, <1>2

\* Every id but the oldest gets one older, and so it is not the one issued now.
LEMMA Ages ==
  ASSUME NEW s \in IdSpace, NEW i \in IdSpace, NEW n \in Nat, n < IdSpan, Age(s, i) < n
  PROVE  Age(NextId(s), i) < n + 1 /\ i # NextId(s)
<1>1. NextId(s) = IF s + 1 = IdSpan THEN 0 ELSE s + 1
  BY NextWraps DEF NextId
<1> QED BY <1>1, RequestConstants DEF Age, IdSpace

\* The age of the id just generated.
LEMMA AgeOfNew ==
  ASSUME NEW s \in IdSpace
  PROVE  Age(s, s) = 0
  BY RequestConstants DEF Age, IdSpace

-----------------------------------------------------------------------------

\* An id may be zero.
LEMMA ZeroId == 0 \in IdSpace
  BY RequestConstants DEF IdSpace

\* The invariant holds before the first request.
LEMMA InitReq == Init => ReqInv
<1> SUFFICES ASSUME Init PROVE ReqInv
  OBVIOUS
<1>1. Empty \in Chan
  BY DEF Empty, Chan
<1>2. 0 \in IdSpace
  BY ZeroId
<1> QED BY <1>1, <1>2, RequestConstants
        DEF Init, ReqInv, RequestTypeOK, IdsInUse, OneOwner, NoLeak, ReadBefore, InFlight

-----------------------------------------------------------------------------
(* Steps of a request *)

\* Steps that leave the ids, the list and the channels alone.
LEMMA ReadAppliedStep ==
  ASSUME ReqInv, NEW r \in Requests, ReadApplied(r) PROVE ReqInv'
<1> USE DEF ReadApplied, Goto, idVars, indexVars, waitVars, ReqInv
<1>1. RequestTypeOK'
  BY DEF RequestTypeOK
<1>2. IdsInUse' /\ OneOwner'
  BY ZenonT(60) DEF RequestTypeOK, IdsInUse, OneOwner, InFlight
<1>3. NoLeak'
  <2>1. {q \in Requests : pc'[q] \in {"propose", "wait"}} = {q \in Requests : pc[q] \in {"propose", "wait"}}
    BY DEF RequestTypeOK
  <2> QED BY <2>1 DEF NoLeak
<1>4. ReadBefore'
  <2>1. applied \in 0..MaxIndex
    BY DEF RequestTypeOK
  <2>2. applied <= applied
    BY <2>1, RequestConstants
  <2> QED BY <2>2 DEF RequestTypeOK, ReadBefore
<1> QED BY <1>1, <1>2, <1>3, <1>4

\* processInternalRaftRequestOnce, the limit: refusing or going on keeps the invariant.
LEMMA CheckGapStep ==
  ASSUME ReqInv, NEW r \in Requests, CheckGap(r) PROVE ReqInv'
<1> USE DEF CheckGap, Goto, idVars, indexVars, waitVars, ReqInv
<1>1. RequestTypeOK'
  <2>1. ai' \in [Requests -> 0..MaxIndex]
    <3>1. 0 \in 0..MaxIndex
      BY RequestConstants
    <3>2. ai \in [Requests -> 0..MaxIndex] /\ ai' = [ai EXCEPT ![r] = 0]
      BY DEF RequestTypeOK
    <3> QED BY <3>1, <3>2
  <2>2. pc' \in [Requests -> PC]
    BY DEF RequestTypeOK, PC
  <2> QED BY <2>1, <2>2 DEF RequestTypeOK, PC
<1>2. IdsInUse' /\ OneOwner'
  BY ZenonT(60) DEF RequestTypeOK, IdsInUse, OneOwner, InFlight
<1>3. NoLeak'
  <2>1. {q \in Requests : pc'[q] \in {"propose", "wait"}} = {q \in Requests : pc[q] \in {"propose", "wait"}}
    BY DEF RequestTypeOK
  <2> QED BY <2>1 DEF NoLeak
<1>4. ReadBefore'
  BY DEF RequestTypeOK, ReadBefore
<1> QED BY <1>1, <1>2, <1>3, <1>4

\* Next: the new id is the youngest, all others in use are older.
LEMMA GenerateStep ==
  ASSUME ReqInv, NEW r \in Requests, GenerateID(r) PROVE ReqInv'
<1> USE DEF GenerateID, Goto, idVars, indexVars, waitVars, ReqInv
<1>1. suffix' = NextId(suffix) /\ NextId(suffix) \in IdSpace /\ suffix \in IdSpace
  BY NextWraps DEF NextId, RequestTypeOK
<1>2. issued \in Nat /\ issued < MaxIssued /\ issued < IdSpan /\ issued' = issued + 1
  <2>1. issued < MaxIssued /\ issued' = issued + 1 /\ issued \in 0..MaxIssued
    BY DEF RequestTypeOK
  <2> QED BY <2>1, RequestConstants
<1>3. RequestTypeOK'
  <2>1. id' \in [Requests -> IdSpace]
    BY <1>1 DEF RequestTypeOK
  <2>2. pc' \in [Requests -> PC]
    BY DEF RequestTypeOK, PC
  <2>3. issued' \in 0..MaxIssued
    BY <1>2, RequestConstants
  <2> QED BY <1>1, <2>1, <2>2, <2>3 DEF RequestTypeOK, PC
<1>4. \A i \in IdSpace : Age(suffix, i) < issued => Age(suffix', i) < issued' /\ i # suffix'
  BY <1>1, <1>2, Ages
<1>5. Age(suffix', suffix') < issued'
  BY <1>1, <1>2, AgeOfNew
<1>6. pc[r] = "id" /\ (pc'[r] \in InFlight => id'[r] = suffix')
  BY <1>1 DEF RequestTypeOK, InFlight
<1>7. \A q \in Requests \ {r} : pc'[q] = pc[q] /\ id'[q] = id[q]
  BY DEF RequestTypeOK
<1>8. IdsInUse'
  <2>1. \A q \in Requests : pc'[q] \in InFlight => Age(suffix', id'[q]) < issued'
    BY <1>4, <1>5, <1>6, <1>7 DEF IdsInUse, RequestTypeOK
  <2>2. \A i \in applier' : Age(suffix', i) < issued' /\ i # suffix'
    BY <1>4 DEF IdsInUse, RequestTypeOK
  <2>3. \A q \in Requests \ {r} : pc'[q] \in InFlight => id'[q] # suffix'
    BY <1>4, <1>7 DEF IdsInUse, RequestTypeOK
  <2>4. \A p, q \in Requests : p # q /\ pc'[p] \in InFlight /\ pc'[q] \in InFlight => id'[p] # id'[q]
    BY <2>3, <1>6, <1>7 DEF IdsInUse
  <2>5. \A q \in Requests : pc'[q] = "register" => id'[q] \notin applier'
    BY <2>2, <1>6, <1>7 DEF IdsInUse, InFlight
  <2> QED BY <2>1, <2>2, <2>4, <2>5 DEF IdsInUse
<1>9. OneOwner' /\ NoLeak' /\ ReadBefore'
  <2>1. pc'[r] \in {"register", "idle"}
    BY DEF RequestTypeOK
  <2> HIDE DEF GenerateID
  <2>2. UNCHANGED <<chan, registered, applier, ai, applied>>
    BY DEF GenerateID
  <2>3. OneOwner'
    BY <2>1, <2>2, <1>6, <1>7, ZenonT(60) DEF OneOwner
  <2>4. NoLeak'
    BY <2>1, <2>2, <1>6, <1>7 DEF NoLeak
  <2>5. ReadBefore'
    BY <2>1, <2>2, <1>6, <1>7 DEF ReadBefore
  <2> QED BY <2>3, <2>4, <2>5
<1> QED BY <1>3, <1>8, <1>9

\* Whose channel is in the map.
LEMMA Holder ==
  ASSUME ReqInv, NEW i \in registered
  PROVE  \E q \in Requests : pc[q] \in {"propose", "wait"} /\ id[q] = i
  BY DEF ReqInv, NoLeak

\* No other request in flight has the id of a channel in the map.
LEMMA OnlyHolder ==
  ASSUME ReqInv, NEW r \in Requests, pc[r] \in {"register", "send nil"}
  PROVE  id[r] \notin registered
<1> SUFFICES ASSUME id[r] \in registered PROVE FALSE
  OBVIOUS
<1>1. PICK q \in Requests : pc[q] \in {"propose", "wait"} /\ id[q] = id[r]
  BY Holder
<1> QED BY <1>1 DEF ReqInv, IdsInUse, InFlight

\* wait.Register: a new id, or the panic on one in use.
LEMMA RegisterStep ==
  ASSUME ReqInv, NEW r \in Requests, Register(r) PROVE ReqInv'
<1>1. pc[r] = "register" /\ pc'[r] = "propose" /\ \A q \in Requests \ {r} : pc'[q] = pc[q]
  BY DEF Register, Goto, ReqInv, RequestTypeOK
<1>2. id[r] \in IdSpace /\ chan'[id[r]] = Empty /\ \A i \in IdSpace \ {id[r]} : chan'[i] = chan[i]
  BY DEF Register, ReqInv, RequestTypeOK
<1>3. registered' = registered \cup {id[r]}
  BY DEF Register
<1>4. UNCHANGED <<indexVars, idVars, id, ai, expired, accepted, applier>>
  BY DEF Register
<1>5. RequestTypeOK'
  <2>1. Empty \in Chan
    BY DEF Empty, Chan
  <2>2. chan' \in [IdSpace -> Chan]
    BY <2>1, <1>2 DEF Register, ReqInv, RequestTypeOK
  <2>3. pc' \in [Requests -> PC]
    BY DEF Register, Goto, ReqInv, RequestTypeOK, PC
  <2> QED BY <1>2, <1>3, <1>4, <2>2, <2>3 DEF ReqInv, RequestTypeOK, PC, indexVars, idVars
<1>6. IdsInUse'
  BY <1>1, <1>4, ZenonT(60) DEF ReqInv, IdsInUse, InFlight, idVars
<1>7. OneOwner'
  <2>1. \A i \in registered' : chan'[i] = Empty /\ i \notin applier'
    BY <1>1, <1>2, <1>3, <1>4, ZenonT(60) DEF ReqInv, OneOwner, IdsInUse, RequestTypeOK
  <2>2. \A i \in applier' : chan'[i] = Empty
    BY <1>2, <1>4, ZenonT(60) DEF ReqInv, OneOwner, RequestTypeOK
  <2>3. \A q \in Requests : pc'[q] = "send nil" => chan'[id'[q]] = Empty /\ id'[q] \notin applier'
    BY <1>1, <1>2, <1>4 DEF ReqInv, OneOwner, RequestTypeOK
  <2>4. \A q \in Requests : pc'[q] \in {"propose", "wait"} =>
          chan'[id'[q]] = Empty \/ chan'[id'[q]].holds = "result"
    BY <1>1, <1>2, <1>4, ZenonT(60) DEF ReqInv, OneOwner, RequestTypeOK
  <2> QED BY <2>1, <2>2, <2>3, <2>4, <1>1 DEF ReqInv, OneOwner
<1>8. NoLeak'
  BY <1>1, <1>3, <1>4 DEF ReqInv, NoLeak
<1>9. ReadBefore'
  BY <1>1, <1>4 DEF ReqInv, ReadBefore, indexVars
<1> QED BY <1>5, <1>6, <1>7, <1>8, <1>9 DEF ReqInv

\* Expire and Propose: the list and the channels stay.
LEMMA ProposeStep ==
  ASSUME ReqInv, NEW r \in Requests, Expire(r) \/ ProposeGivesUp(r) \/ ProposeAccepted(r)
  PROVE  ReqInv'
<1>1. UNCHANGED <<indexVars, idVars, id, ai, waitVars>>
  BY DEF Expire, ProposeGivesUp, ProposeAccepted
<1>2. pc' \in [Requests -> PC] /\ \A q \in Requests :
        pc'[q] = pc[q] \/ (pc[q] = "propose" /\ pc'[q] = "wait")
  BY DEF Expire, ProposeGivesUp, ProposeAccepted, Goto, ReqInv, RequestTypeOK, PC
<1>3. expired' \in [Requests -> BOOLEAN] /\ accepted' \subseteq IdSpace
  BY ZenonT(60) DEF Expire, ProposeGivesUp, ProposeAccepted, Goto, ReqInv, RequestTypeOK
<1>4. RequestTypeOK'
  BY <1>1, <1>2, <1>3 DEF ReqInv, RequestTypeOK, PC, indexVars, idVars, waitVars
<1>5. IdsInUse'
  BY <1>1, <1>2, ZenonT(60) DEF ReqInv, IdsInUse, InFlight, idVars, waitVars
<1>6. OneOwner'
  BY <1>1, <1>2, ZenonT(60) DEF ReqInv, OneOwner, waitVars
<1>7. NoLeak'
  BY <1>1, <1>2 DEF ReqInv, NoLeak, waitVars
<1>8. ReadBefore'
  BY <1>1, <1>2 DEF ReqInv, ReadBefore, indexVars
<1> QED BY <1>4, <1>5, <1>6, <1>7, <1>8 DEF ReqInv

\* A request that leaves: facts about the others, and the types.
LEMMA Leaving ==
  ASSUME ReqInv, NEW r \in Requests, NEW to \in PC,
         GotoOrReturn(r, "wait", to) \/ GotoOrReturn(r, "send nil", to)
  PROVE  /\ pc[r] \in {"wait", "send nil"} /\ pc'[r] = to
         /\ to # "idle" => id'[r] = id[r]
         /\ \A q \in Requests \ {r} : pc'[q] = pc[q] /\ id'[q] = id[q]
         /\ pc' \in [Requests -> PC] /\ id' \in [Requests -> IdSpace]
         /\ expired' \in [Requests -> BOOLEAN]
<1>1. pc \in [Requests -> PC] /\ id \in [Requests -> IdSpace] /\ expired \in [Requests -> BOOLEAN]
  BY DEF ReqInv, RequestTypeOK, PC
<1>2. 0 \in IdSpace
  BY ZeroId
<1>3. pc[r] \in {"wait", "send nil"} /\ pc' = [pc EXCEPT ![r] = to]
  BY DEF GotoOrReturn, Goto
<1>4. id' = [id EXCEPT ![r] = IF to = "idle" THEN 0 ELSE @]
  BY DEF GotoOrReturn
<1>5. expired' \in [Requests -> BOOLEAN]
  BY <1>1 DEF GotoOrReturn
<1> QED BY <1>1, <1>2, <1>3, <1>4, <1>5

\* The select: the answer is a result, and nobody else has the channel.
LEMMA ReceiveStep ==
  ASSUME ReqInv, NEW r \in Requests, Receive(r) PROVE ReqInv'
<1>1. pc[r] = "wait" /\ chan[id[r]] # Empty /\ chan[id[r]].holds = "result" /\ id[r] \in IdSpace
  BY DEF Receive, GotoOrReturn, Goto, ReqInv, OneOwner, RequestTypeOK
<1>2. GotoOrReturn(r, "wait", "idle")
  BY <1>1 DEF Receive
<1>3. /\ pc'[r] = "idle" /\ \A q \in Requests \ {r} : pc'[q] = pc[q] /\ id'[q] = id[q]
      /\ pc' \in [Requests -> PC] /\ id' \in [Requests -> IdSpace] /\ expired' \in [Requests -> BOOLEAN]
  BY <1>2, Leaving DEF PC
<1>4. UNCHANGED <<indexVars, idVars, ai, registered, accepted, applier>>
  BY DEF Receive
<1>5. chan' \in [IdSpace -> Chan] /\ \A i \in IdSpace \ {id[r]} : chan'[i] = chan[i]
  BY <1>1, ZenonT(60) DEF Receive, ReqInv, RequestTypeOK, Chan
<1>6. id[r] \notin registered /\ id[r] \notin applier
  BY <1>1 DEF ReqInv, OneOwner
<1>7. \A q \in Requests \ {r} : pc[q] \in InFlight => id[q] # id[r]
  BY <1>1 DEF ReqInv, IdsInUse, InFlight
<1>8. RequestTypeOK'
  BY <1>3, <1>4, <1>5 DEF ReqInv, RequestTypeOK, PC, indexVars, idVars
<1>9. IdsInUse'
  BY <1>3, <1>4, ZenonT(60) DEF ReqInv, IdsInUse, InFlight, idVars
<1>10. OneOwner'
  <2>1. \A i \in registered' : chan'[i] = Empty /\ i \notin applier'
    BY <1>4, <1>5, <1>6 DEF ReqInv, OneOwner, RequestTypeOK
  <2>2. \A i \in applier' : chan'[i] = Empty
    BY <1>4, <1>5, <1>6 DEF ReqInv, OneOwner, RequestTypeOK
  <2>3. ASSUME NEW q \in Requests, pc'[q] \in InFlight
        PROVE  pc'[q] = pc[q] /\ id'[q] = id[q] /\ chan'[id'[q]] = chan[id[q]]
    <3>1. q # r /\ pc'[q] = pc[q] /\ id'[q] = id[q]
      BY <2>3, <1>3 DEF InFlight
    <3>2. id[q] \in IdSpace /\ id[q] # id[r]
      BY <2>3, <3>1, <1>7, ZenonT(60) DEF ReqInv, RequestTypeOK
    <3> QED BY <3>1, <3>2, <1>5
  <2>4. \A q \in Requests : pc'[q] = "send nil" => chan'[id'[q]] = Empty /\ id'[q] \notin applier'
    BY <2>3, <1>4, ZenonT(60) DEF ReqInv, OneOwner, InFlight
  <2>5. \A q \in Requests : pc'[q] \in {"propose", "wait"} =>
          chan'[id'[q]] = Empty \/ chan'[id'[q]].holds = "result"
    BY <2>3, ZenonT(60) DEF ReqInv, OneOwner, InFlight
  <2>6. \A q \in Requests : pc'[q] # "panicked"
    BY <1>3 DEF ReqInv, OneOwner
  <2> QED BY <2>1, <2>2, <2>4, <2>5, <2>6 DEF OneOwner
<1>11. NoLeak'
  <2> SUFFICES ASSUME NEW i \in registered'
               PROVE  \E q \in Requests : pc'[q] \in {"propose", "wait"} /\ id'[q] = i
    BY DEF NoLeak
  <2>1. PICK q \in Requests : pc[q] \in {"propose", "wait"} /\ id[q] = i
    BY <1>4, Holder
  <2> QED BY <2>1, <1>3, <1>4, <1>6
<1>12. ReadBefore'
  BY <1>3, <1>4 DEF ReqInv, ReadBefore, indexVars
<1> QED BY <1>8, <1>9, <1>10, <1>11, <1>12 DEF ReqInv

\* The select: the context is done.  The request takes its channel out of the
\* map, unless the applier has it.
LEMMA GiveUpStep ==
  ASSUME ReqInv, NEW r \in Requests, GiveUp(r) PROVE ReqInv'
<1> DEFINE to == IF id[r] \in registered THEN "send nil" ELSE "idle"
<1>1. pc[r] = "wait" /\ GotoOrReturn(r, "wait", to) /\ to \in PC
  BY DEF GiveUp, GotoOrReturn, Goto, PC
<1>2. /\ pc'[r] = to /\ (to # "idle" => id'[r] = id[r])
      /\ \A q \in Requests \ {r} : pc'[q] = pc[q] /\ id'[q] = id[q]
      /\ pc' \in [Requests -> PC] /\ id' \in [Requests -> IdSpace] /\ expired' \in [Requests -> BOOLEAN]
  BY <1>1, Leaving
<1>3. UNCHANGED <<indexVars, idVars, ai, chan, accepted, applier>> /\ registered' = registered \ {id[r]}
  BY DEF GiveUp, Deleted
<1>4. \A q \in Requests \ {r} : pc[q] \in InFlight => id[q] # id[r]
  BY <1>1 DEF ReqInv, IdsInUse, InFlight
<1>5. pc'[r] = "send nil" => id'[r] = id[r] /\ id[r] \in registered
  BY <1>2
<1>6. pc'[r] \in {"send nil", "idle"}
  BY <1>2
<1> HIDE DEF to
<1>7. RequestTypeOK'
  BY <1>2, <1>3, ZenonT(60) DEF ReqInv, RequestTypeOK, PC, indexVars, idVars
<1>8. IdsInUse'
  <2>1. \A q \in Requests : pc'[q] \in InFlight => pc[q] \in InFlight /\ id'[q] = id[q]
    BY <1>1, <1>2, <1>5, <1>6 DEF InFlight
  <2>2. pc'[r] # "register" /\ \A q \in Requests : pc'[q] = "register" => pc[q] = "register" /\ id'[q] = id[q]
    BY <1>2, <1>6
  <2>3. suffix' = suffix /\ issued' = issued /\ applier' = applier
    BY <1>3, SMTT(60) DEF idVars
  <2> QED BY <2>1, <2>2, <2>3 DEF ReqInv, IdsInUse
<1>9. OneOwner'
  BY <1>2, <1>3, <1>5, <1>6, ZenonT(60) DEF ReqInv, OneOwner
<1>10. NoLeak'
  <2> SUFFICES ASSUME NEW i \in registered'
               PROVE  \E q \in Requests : pc'[q] \in {"propose", "wait"} /\ id'[q] = i
    BY DEF NoLeak
  <2>1. PICK q \in Requests : pc[q] \in {"propose", "wait"} /\ id[q] = i
    BY <1>3, Holder
  <2> QED BY <2>1, <1>2, <1>3
<1>11. ReadBefore'
  BY <1>2, <1>3, <1>6 DEF ReqInv, ReadBefore, indexVars
<1> QED BY <1>7, <1>8, <1>9, <1>10, <1>11 DEF ReqInv

\* The request's own Trigger(id, nil) finds the channel empty.
LEMMA SendNilStep ==
  ASSUME ReqInv, NEW r \in Requests, SendNil(r) PROVE ReqInv'
<1>1. pc[r] = "send nil" /\ GotoOrReturn(r, "send nil", "idle") /\ id[r] \in IdSpace
  BY ZenonT(60) DEF SendNil, GotoOrReturn, Goto, ReqInv, RequestTypeOK
<1>2. /\ pc'[r] = "idle" /\ \A q \in Requests \ {r} : pc'[q] = pc[q] /\ id'[q] = id[q]
      /\ pc' \in [Requests -> PC] /\ id' \in [Requests -> IdSpace] /\ expired' \in [Requests -> BOOLEAN]
  BY <1>1, Leaving DEF PC
<1>3. UNCHANGED <<indexVars, idVars, ai, registered, accepted, applier>>
  BY DEF SendNil
<1>4. chan' \in [IdSpace -> Chan] /\ \A i \in IdSpace \ {id[r]} : chan'[i] = chan[i]
  BY <1>1, ZenonT(60) DEF SendNil, ReqInv, RequestTypeOK, Chan
<1>5. id[r] \notin registered /\ id[r] \notin applier
  BY <1>1, OnlyHolder, ZenonT(60) DEF ReqInv, OneOwner
<1>6. \A q \in Requests \ {r} : pc[q] \in InFlight => id[q] # id[r]
  BY <1>1, ZenonT(60) DEF ReqInv, IdsInUse, InFlight
<1>7. RequestTypeOK'
  BY <1>2, <1>3, <1>4 DEF ReqInv, RequestTypeOK, PC, indexVars, idVars
<1>8. IdsInUse'
  BY <1>2, <1>3 DEF ReqInv, IdsInUse, InFlight, idVars
<1>9. OneOwner'
  <2>1. \A i \in registered' : chan'[i] = Empty /\ i \notin applier'
    BY <1>3, <1>4, <1>5 DEF ReqInv, OneOwner, RequestTypeOK
  <2>2. \A i \in applier' : chan'[i] = Empty
    BY <1>3, <1>4, <1>5 DEF ReqInv, OneOwner, RequestTypeOK
  <2>3. ASSUME NEW q \in Requests, pc'[q] \in InFlight
        PROVE  pc'[q] = pc[q] /\ id'[q] = id[q] /\ chan'[id'[q]] = chan[id[q]]
    <3>1. q # r /\ pc'[q] = pc[q] /\ id'[q] = id[q]
      BY <2>3, <1>2 DEF InFlight
    <3>2. id[q] \in IdSpace /\ id[q] # id[r]
      BY <2>3, <3>1, <1>6 DEF ReqInv, RequestTypeOK
    <3> QED BY <3>1, <3>2, <1>4
  <2>4. \A q \in Requests : pc'[q] = "send nil" => chan'[id'[q]] = Empty /\ id'[q] \notin applier'
    BY <2>3, <1>3 DEF ReqInv, OneOwner, InFlight
  <2>5. \A q \in Requests : pc'[q] \in {"propose", "wait"} =>
          chan'[id'[q]] = Empty \/ chan'[id'[q]].holds = "result"
    BY <2>3 DEF ReqInv, OneOwner, InFlight
  <2>6. \A q \in Requests : pc'[q] # "panicked"
    BY <1>2 DEF ReqInv, OneOwner
  <2> QED BY <2>1, <2>2, <2>4, <2>5, <2>6 DEF OneOwner
<1>10. NoLeak'
  <2> SUFFICES ASSUME NEW i \in registered'
               PROVE  \E q \in Requests : pc'[q] \in {"propose", "wait"} /\ id'[q] = i
    BY DEF NoLeak
  <2>1. PICK q \in Requests : pc[q] \in {"propose", "wait"} /\ id[q] = i
    BY <1>3, Holder
  <2> QED BY <2>1, <1>2, <1>3, <1>5
<1>11. ReadBefore'
  BY <1>2, <1>3 DEF ReqInv, ReadBefore, indexVars
<1> QED BY <1>7, <1>8, <1>9, <1>10, <1>11 DEF ReqInv

-----------------------------------------------------------------------------
(* Steps of the applier *)

\* The indices only grow, and applied stays behind committed.
LEMMA IndexStep ==
  ASSUME ReqInv, UpdateCommittedIndex \/ SetAppliedIndex PROVE ReqInv'
<1>1. applied \in 0..MaxIndex /\ committed \in applied..MaxIndex /\ MaxIndex \in Nat
  BY RequestConstants DEF ReqInv, RequestTypeOK
<1>2. UNCHANGED <<idVars, pc, id, ai, expired, waitVars, accepted>>
  BY DEF UpdateCommittedIndex, SetAppliedIndex
<1>3. applied' \in 0..MaxIndex /\ committed' \in applied'..MaxIndex /\ applied <= applied'
  BY <1>1 DEF UpdateCommittedIndex, SetAppliedIndex
<1>4. RequestTypeOK'
  BY <1>2, <1>3 DEF ReqInv, RequestTypeOK, idVars, waitVars
<1>5. ReadBefore'
  <2> SUFFICES ASSUME NEW r \in Requests, pc[r] = "gap" PROVE ai[r] <= applied'
    BY <1>2 DEF ReadBefore
  <2>1. ai[r] \in 0..MaxIndex /\ ai[r] <= applied
    BY DEF ReqInv, RequestTypeOK, ReadBefore
  <2> QED BY <2>1, <1>1, <1>3
<1> QED BY <1>2, <1>4, <1>5, ZenonT(60) DEF ReqInv, IdsInUse, OneOwner, NoLeak, idVars, waitVars

\* Trigger under the lock: the channel goes from the map to the applier.
LEMMA TakeStep ==
  ASSUME ReqInv, NEW i \in IdSpace, TriggerTake(i) PROVE ReqInv'
<1>1. /\ i \in registered /\ registered' = registered \ {i} /\ applier' = applier \cup {i}
      /\ UNCHANGED <<indexVars, idVars, pc, id, ai, expired, chan, accepted>>
  BY DEF TriggerTake, Deleted
<1>2. PICK p \in Requests : pc[p] \in {"propose", "wait"} /\ id[p] = i
  BY <1>1, Holder
<1>3. \A q \in Requests : pc[q] \in {"register", "send nil"} => id[q] # i
  BY <1>1, OnlyHolder
<1>4. RequestTypeOK'
  BY <1>1, ZenonT(60) DEF ReqInv, RequestTypeOK, indexVars, idVars
<1>5. Age(suffix, i) < issued
  BY <1>2, ZenonT(60) DEF ReqInv, IdsInUse, InFlight
<1>6. IdsInUse'
  BY <1>1, <1>3, <1>5, ZenonT(60) DEF ReqInv, IdsInUse, idVars
<1>7. OneOwner'
  BY <1>1, <1>3, ZenonT(60) DEF ReqInv, OneOwner
<1>8. NoLeak' /\ ReadBefore'
  BY <1>1 DEF ReqInv, NoLeak, ReadBefore, indexVars
<1> QED BY <1>4, <1>6, <1>7, <1>8 DEF ReqInv

\* Trigger after the lock: only the applier has the channel.
LEMMA SendStep ==
  ASSUME ReqInv, NEW i \in IdSpace, TriggerSend(i) PROVE ReqInv'
<1>1. /\ i \in applier /\ applier' = applier \ {i}
      /\ UNCHANGED <<indexVars, idVars, pc, id, ai, expired, registered, accepted>>
  BY DEF TriggerSend
<1>2. chan'[i].holds = "result" /\ chan' \in [IdSpace -> Chan] /\ \A j \in IdSpace \ {i} : chan'[j] = chan[j]
  BY DEF TriggerSend, ReqInv, RequestTypeOK, Chan
<1>3. RequestTypeOK'
  BY <1>1, <1>2, ZenonT(60) DEF ReqInv, RequestTypeOK, indexVars, idVars
<1>4. IdsInUse'
  BY <1>1 DEF ReqInv, IdsInUse, idVars
<1>5. OneOwner'
  BY <1>1, <1>2, ZenonT(60) DEF ReqInv, OneOwner, RequestTypeOK
<1>6. NoLeak' /\ ReadBefore'
  BY <1>1 DEF ReqInv, NoLeak, ReadBefore, indexVars
<1> QED BY <1>3, <1>4, <1>5, <1>6 DEF ReqInv

-----------------------------------------------------------------------------

\* Every step keeps the invariant.
LEMMA ReqInductive == ReqInv /\ [Next]_vars => ReqInv'
<1> SUFFICES ASSUME ReqInv, [Next]_vars PROVE ReqInv'
  OBVIOUS
<1>1. ASSUME NEW r \in Requests, Step(r) \/ Expire(r) PROVE ReqInv'
  BY <1>1, ReadAppliedStep, CheckGapStep, GenerateStep, RegisterStep, ProposeStep, ReceiveStep,
     GiveUpStep, SendNilStep DEF Step
<1>2. CASE UpdateCommittedIndex \/ SetAppliedIndex
  BY <1>2, IndexStep
<1>3. ASSUME NEW i \in IdSpace, TriggerTake(i) \/ TriggerSend(i) PROVE ReqInv'
  BY <1>3, TakeStep, SendStep
<1>4. CASE UNCHANGED vars
  <2>1. RequestTypeOK' /\ IdsInUse'
    BY <1>4, ZenonT(60) DEF vars, ReqInv, RequestTypeOK, IdsInUse
  <2>2. OneOwner' /\ ReadBefore'
    BY <1>4 DEF vars, ReqInv, OneOwner, ReadBefore
  <2>3. NoLeak'
    BY <1>4 DEF vars, ReqInv, NoLeak
  <2> QED BY <2>1, <2>2, <2>3, SMTT(60) DEF ReqInv
<1> QED BY <1>1, <1>2, <1>3, <1>4 DEF Next

\* The inductive invariant of the request path.
THEOREM RequestInvariant == Spec => []ReqInv
  BY InitReq, ReqInductive, PTL DEF Spec

\* Every variable keeps its type.
THEOREM RequestTypeCorrect == Spec => []RequestTypeOK
<1>1. ReqInv => RequestTypeOK
  BY DEF ReqInv
<1> QED BY RequestInvariant, <1>1, PTL

\* Register never panics with "dup id", as long as no id comes round again while
\* requests of its first issue are in flight.
THEOREM IdsNeverClash == Spec => []NoDuplicateId
<1>1. ReqInv => NoDuplicateId
  <2> SUFFICES ASSUME ReqInv, NEW r \in Requests, pc[r] = "register"
               PROVE  /\ id[r] \notin registered
                      /\ \A q \in Requests \ {r} : pc[q] \in InFlight => id[q] # id[r]
    BY DEF NoDuplicateId, InFlight
  <2> QED BY OnlyHolder DEF ReqInv, IdsInUse, InFlight
<1> QED BY RequestInvariant, <1>1, PTL

\* Trigger: of the answer, a second answer and the request's own nil only one is
\* sent, and no request panics on what it reads.
THEOREM OneAnswerPerChannel == Spec => []OneSenderPerChannel
<1>1. ReqInv => OneSenderPerChannel
  BY DEF ReqInv, OneOwner, OneSenderPerChannel
<1> QED BY RequestInvariant, <1>1, PTL

\* The wait list holds only requests that wait.
THEOREM WaitListDoesNotLeak == Spec => []NoLeak
<1>1. ReqInv => NoLeak
  BY DEF ReqInv
<1> QED BY RequestInvariant, <1>1, PTL

\* The step from "gap" to "id" is a CheckGap that found the applier near enough.
LEMMA Admission ==
  ReqInv /\ [Next]_vars =>
    \A r \in Requests : pc[r] = "gap" /\ pc'[r] = "id" => committed - applied <= MaxGap
<1> SUFFICES ASSUME ReqInv, [Next]_vars, NEW r \in Requests, pc[r] = "gap", pc'[r] = "id"
             PROVE  committed - applied <= MaxGap
  OBVIOUS
<1>1. pc \in [Requests -> PC]
  BY ZenonT(60) DEF ReqInv, RequestTypeOK, PC
<1>2. PICK q \in Requests : Step(q)
  BY DEF Next, vars, Expire, UpdateCommittedIndex, SetAppliedIndex, TriggerTake, TriggerSend
<1>3. CheckGap(r)
  BY <1>1, <1>2 DEF Step, ReadApplied, CheckGap, GenerateID, Register, ProposeGivesUp, ProposeAccepted,
                    Receive, GiveUp, SendNil, GotoOrReturn, Goto
<1>4. ~(committed > ai[r] + MaxGap) /\ ai[r] <= applied
  BY <1>1, <1>3 DEF CheckGap, Goto, TooFarBehind, ReqInv, ReadBefore
<1>5. ai[r] \in 0..MaxIndex /\ applied \in 0..MaxIndex /\ committed \in applied..MaxIndex
  BY DEF ReqInv, RequestTypeOK
<1> QED BY <1>4, <1>5, RequestConstants

\* processInternalRaftRequestOnce: the gap test is sound although the indices
\* move between its two reads.
THEOREM GapTestIsSound == Spec => AdmittedWithinGap
  BY RequestInvariant, Admission, PTL DEF Spec, AdmittedWithinGap

-----------------------------------------------------------------------------
(* StatsQueue: the sum of a window, the ring, and the refinement *)

\* The time a leaf is given; the ones meant for Zenon name it.
USE SMTT(60)

\* Every set of naturals has a least element: what takes the place of induction.
LEMMA LeastNat ==
  ASSUME NEW T \in SUBSET Nat, T # {}
  PROVE  \E x \in T : \A y \in T : x <= y
<1> DEFINE R == {ss \in Nat \X Nat : ss[1] < ss[2]}
<1>1. IsWellFoundedOn(R, Nat)
  BY NatLessThanWellFounded DEF OpToRel
<1>2. PICK x \in T : \A y \in T : ~(<<y, x>> \in R)
  <2> HIDE DEF R
  <2> QED BY ZenonT(60), <1>1, WFMin
<1>3. ASSUME NEW y \in T PROVE x <= y
  <2>1. <<y, x>> \notin R
    BY <1>2
  <2>2. <<y, x>> \in Nat \X Nat
    OBVIOUS
  <2>3. ~(y < x)
    BY <2>1, <2>2
  <2> QED BY <2>3
<1> QED
  BY <1>3

\* What RequestStats are: a time and a size.
Sized == [time : Int, size : Nat]

\* s adds up the sizes of the first n requests of w.
Adds(s, w, n) ==
  /\ s \in [0..n -> Int]
  /\ s[0] = 0
  /\ \A i \in 1..n : s[i] = s[i - 1] + w[i].size

\* The sizes in a window are numbers.
LEMMA SizeIsNat == ASSUME NEW w \in Seq(Sized), NEW n \in 1..Len(w) PROVE w[n].size \in Nat
<1>1. w[n] \in Sized
  OBVIOUS
<1> QED BY <1>1 DEF Sized

\* Every window has running sums (by the least length that has none).
LEMMA AddsExists ==
  ASSUME NEW w \in Seq(Sized)
  PROVE  \E s : Adds(s, w, Len(w))
<1> DEFINE T == {n \in 0..Len(w) : ~ \E s : Adds(s, w, n)}
<1>0. Len(w) \in 0..Len(w)
  OBVIOUS
<1> SUFFICES ASSUME T # {} PROVE FALSE
  BY <1>0
<1>1. PICK n \in T : \A k \in T : n <= k
  <2>1. T \in SUBSET Nat
    OBVIOUS
  <2> HIDE DEF T
  <2> QED BY <2>1, LeastNat
<1>2. CASE n = 0
  <2>1. Adds([i \in 0..0 |-> 0], w, 0)
    BY DEF Adds
  <2> QED BY <1>2, <2>1
<1>3. CASE n # 0
  <2>1. n - 1 \in 0..Len(w) /\ n - 1 \notin T
    BY <1>1, <1>3
  <2>2. PICK s : Adds(s, w, n - 1)
    BY <2>1
  <2> DEFINE t == [i \in 0..n |-> IF i = n THEN s[n - 1] + w[n].size ELSE s[i]]
  <2>3. n \in 1..Len(w) /\ w[n].size \in Nat
    BY <1>3, SizeIsNat
  <2>4. t \in [0..n -> Int] /\ t[0] = 0
    BY <2>2, <2>3 DEF Adds
  <2>5. ASSUME NEW i \in 1..n PROVE t[i] = t[i - 1] + w[i].size
    <3>1. CASE i = n
      BY <2>3, <3>1
    <3>2. CASE i # n
      BY <2>2, <2>3, <3>2 DEF Adds
    <3> QED BY <3>1, <3>2
  <2>6. Adds(t, w, n)
    <3> HIDE DEF t
    <3> QED BY <2>4, <2>5 DEF Adds
  <2> QED BY <2>6
<1> QED BY <1>2, <1>3

\* Running sums are determined by the window (by the least place of difference).
LEMMA AddsUnique ==
  ASSUME NEW w \in Seq(Sized), NEW s, NEW t, Adds(s, w, Len(w)), Adds(t, w, Len(w))
  PROVE  s = t
<1> DEFINE T == {n \in 0..Len(w) : s[n] # t[n]}
<1>1. ASSUME T # {} PROVE FALSE
  <2>1. PICK n \in T : \A k \in T : n <= k
    <3>1. T \in SUBSET Nat
      OBVIOUS
    <3> HIDE DEF T
    <3> QED BY <1>1, <3>1, LeastNat
  <2>2. n # 0
    BY DEF Adds
  <2>3. n \in 1..Len(w) /\ n - 1 \in 0..Len(w) /\ n - 1 \notin T
    BY <2>1, <2>2
  <2> QED BY <2>1, <2>3 DEF Adds
<1>2. \A n \in 0..Len(w) : s[n] = t[n]
  BY <1>1
<1> QED BY <1>2 DEF Adds

\* The recursive definition of Sum, unfolded.
LEMMA SumIs ==
  ASSUME NEW w \in Seq(Sized), NEW s, Adds(s, w, Len(w))
  PROVE  Window!Sum(w) = s[Len(w)]
<1> DEFINE G(f) == [i \in 0..Len(w) |-> IF i = 0 THEN 0 ELSE f[i - 1] + w[i].size]
<1> DEFINE c == CHOOSE f : f = G(f)
<1>0. Len(w) \in Nat
  OBVIOUS
<1>1. s = G(s)
  BY <1>0 DEF Adds
<1>2. c = G(c)
  <2> HIDE DEF G
  <2> QED BY <1>1
<1>3. \A f : f = G(f) => Adds(f, w, Len(w))
  <2> SUFFICES ASSUME NEW f, f = G(f) PROVE Adds(f, w, Len(w))
    OBVIOUS
  <2>1. DOMAIN f = 0..Len(w) /\ f[0] = 0 /\ \A i \in 1..Len(w) : f[i] = f[i - 1] + w[i].size
    BY <1>0
  <2> HIDE DEF G
  <2>2. \A i \in 0..Len(w) : f[i] \in Int
    <3> DEFINE T == {n \in 0..Len(w) : f[n] \notin Int}
    <3> SUFFICES ASSUME T # {} PROVE FALSE
      OBVIOUS
    <3>1. PICK n \in T : \A k \in T : n <= k
      <4>1. T \in SUBSET Nat
        OBVIOUS
      <4> HIDE DEF T
      <4> QED BY <4>1, LeastNat
    <3>2. n # 0
      BY <2>1
    <3>3. n \in 1..Len(w) /\ n - 1 \in 0..Len(w) /\ n - 1 \notin T
      BY <3>1, <3>2
    <3>4. w[n].size \in Nat
      BY <3>3, SizeIsNat
    <3> QED BY <2>1, <3>3, <3>4
  <2>3. f = [i \in 0..Len(w) |-> f[i]]
    BY DEF G
  <2> QED BY ZenonT(60), <2>1, <2>2, <2>3 DEF Adds
<1>4. c = s
  <2> HIDE DEF c, G
  <2> QED BY <1>2, <1>3, AddsUnique
<1>5. Window!Sum(w) = c[Len(w)]
  BY DEF Window!Sum
<1> QED BY ZenonT(60), <1>4, <1>5

\* The sum with one more request at the end.
LEMMA SumAppend ==
  ASSUME NEW w \in Seq(Sized), NEW p \in Sized
  PROVE  Window!Sum(Append(w, p)) = Window!Sum(w) + p.size
<1> DEFINE v == Append(w, p)
<1> DEFINE n == Len(w)
<1>1. PICK s : Adds(s, w, n)
  BY AddsExists
<1>2. n \in Nat /\ v \in Seq(Sized) /\ Len(v) = n + 1 /\ v[n + 1] = p
  OBVIOUS
<1>3. \A i \in 1..n : v[i] = w[i]
  OBVIOUS
<1>4. p.size \in Nat
  BY DEF Sized
<1> DEFINE t == [i \in 0..(n + 1) |-> IF i = n + 1 THEN s[n] + p.size ELSE s[i]]
<1> HIDE DEF v, n
<1>5. t \in [0..(n + 1) -> Int] /\ t[0] = 0
  BY <1>1, <1>2, <1>4 DEF Adds
<1>6. ASSUME NEW i \in 1..(n + 1) PROVE t[i] = t[i - 1] + v[i].size
  <2>1. CASE i = n + 1
    BY <1>2, <2>1
  <2>2. CASE i # n + 1
    <3>1. i \in 1..n /\ i - 1 \in 0..n /\ i - 1 # n + 1
      BY <1>2, <2>2
    <3>2. s[i] = s[i - 1] + w[i].size
      BY <1>1, <3>1 DEF Adds
    <3>3. t[i] = s[i] /\ t[i - 1] = s[i - 1]
      BY <1>2, <3>1
    <3> QED BY <1>3, <3>1, <3>2, <3>3
  <2> QED BY <2>1, <2>2
<1>7. Adds(t, v, Len(v)) /\ t[n + 1] = s[n] + p.size
  <2>1. t[n + 1] = s[n] + p.size
    BY <1>2
  <2> HIDE DEF t
  <2> QED BY <1>2, <1>5, <1>6, <2>1 DEF Adds
<1>8. Window!Sum(v) = t[n + 1]
  <2> HIDE DEF t
  <2> QED BY <1>2, <1>7, SumIs
<1>9. Window!Sum(w) = s[n]
  BY <1>1, SumIs DEF n
<1> QED BY <1>7, <1>8, <1>9 DEF v

\* The sum without the first request.
LEMMA SumTail ==
  ASSUME NEW w \in Seq(Sized), w # <<>>
  PROVE  Window!Sum(Tail(w)) = Window!Sum(w) - w[1].size
<1> DEFINE v == Tail(w)
<1> DEFINE n == Len(w) - 1
<1>1. PICK s : Adds(s, w, Len(w))
  BY AddsExists
<1>2. n \in Nat /\ v \in Seq(Sized) /\ Len(v) = n /\ Len(w) = n + 1
  OBVIOUS
<1>3. \A i \in 1..n : v[i] = w[i + 1]
  OBVIOUS
<1>4. w[1].size \in Nat
  BY <1>2, SizeIsNat
<1> DEFINE t == [i \in 0..n |-> s[i + 1] - w[1].size]
<1> HIDE DEF v, n
<1>5. s[1] = w[1].size
  BY <1>1, <1>2, <1>4 DEF Adds
<1>6. t \in [0..n -> Int] /\ t[0] = 0
  BY <1>1, <1>2, <1>4, <1>5 DEF Adds
<1>7. ASSUME NEW i \in 1..n PROVE t[i] = t[i - 1] + v[i].size
  <2>1. s[i + 1] = s[i] + w[i + 1].size /\ s[i] \in Int
    BY <1>1, <1>2 DEF Adds
  <2>2. w[i + 1].size \in Nat
    BY <1>2, SizeIsNat
  <2>3. t[i] = s[i + 1] - w[1].size /\ t[i - 1] = s[i] - w[1].size
    BY <1>2
  <2> QED BY <1>3, <1>4, <2>1, <2>2, <2>3
<1>8. Adds(t, v, Len(v)) /\ t[n] = s[n + 1] - w[1].size
  <2>1. t[n] = s[n + 1] - w[1].size
    BY <1>2
  <2> HIDE DEF t
  <2> QED BY <1>2, <1>6, <1>7, <2>1 DEF Adds
<1>9. Window!Sum(v) = t[n]
  <2> HIDE DEF t
  <2> QED BY <1>2, <1>8, SumIs
<1>10. Window!Sum(w) = s[n + 1]
  BY <1>1, <1>2, SumIs
<1> QED BY <1>8, <1>9, <1>10 DEF v

\* The sum of a window is a number, and that of the empty one is zero.
LEMMA SumIsInt == ASSUME NEW w \in Seq(Sized) PROVE Window!Sum(w) \in Int
<1>1. PICK s : Adds(s, w, Len(w))
  BY AddsExists
<1>2. Window!Sum(w) = s[Len(w)] /\ Len(w) \in 0..Len(w)
  BY <1>1, SumIs
<1> QED BY <1>1, <1>2 DEF Adds

\* The sum of no requests.
LEMMA SumEmpty == Window!Sum(<<>>) = 0
<1>1. Adds([i \in 0..0 |-> 0], <<>>, Len(<<>>))
  BY DEF Adds
<1> QED BY <1>1, SumIs

-----------------------------------------------------------------------------

\* x modulo Capacity, for the x that occur.
Wrap(x) == IF x < Capacity THEN x ELSE x - Capacity

\* The code takes (x % queueCapacity) of a number less than twice the capacity.
LEMMA ModIsWrap == ASSUME NEW x \in 0..(2 * Capacity - 1) PROVE x % Capacity = Wrap(x)
<1> DEFINE q == x \div Capacity
<1> DEFINE r == x % Capacity
<1>1. Capacity \in Nat /\ Capacity > 0
  BY QueueAssumption
<1>2. q \in Int /\ r \in 0..(Capacity - 1) /\ x = Capacity * q + r
  BY <1>1
<1> HIDE DEF q, r
<1>3. q = 0 \/ q = 1
  <2>1. q >= 2 => Capacity * q >= Capacity * 2
    BY <1>1, <1>2
  <2>2. q <= -1 => Capacity * q <= Capacity * (-1)
    BY <1>1, <1>2
  <2> QED BY <1>1, <1>2, <2>1, <2>2
<1>4. r = Wrap(x)
  BY <1>1, <1>2, <1>3 DEF Wrap
<1> QED BY <1>4 DEF r

\* The requests lie behind one another from front on, and back is the last one.
RingInv ==
  /\ clock \in 0..MaxTime
  /\ items \in [0..(Capacity - 1) -> Sized]
  /\ size \in 0..Capacity /\ front \in 0..(Capacity - 1) /\ back \in -1..(Capacity - 1)
  /\ Wrap(front + size) = Wrap(back + 1)
  /\ totalReqSize = Window!Sum(Contents)

\* The n entries of the ring from the front, in order.
Ring(it, f, n) == [i \in 1..n |-> it[(f + i - 1) % Capacity]]

\* The entries of the window are requests, each at its place.
LEMMA RingIs ==
  ASSUME NEW it \in [0..(Capacity - 1) -> Sized], NEW f \in 0..(Capacity - 1), NEW n \in 0..Capacity
  PROVE  /\ Ring(it, f, n) \in Seq(Sized) /\ Len(Ring(it, f, n)) = n
         /\ \A i \in 1..n : Ring(it, f, n)[i] = it[Wrap(f + i - 1)]
<1> USE QueueAssumption
<1>1. ASSUME NEW i \in 1..n
      PROVE  (f + i - 1) % Capacity = Wrap(f + i - 1) /\ Wrap(f + i - 1) \in 0..(Capacity - 1)
  <2>1. f + i - 1 \in 0..(2 * Capacity - 1)
    OBVIOUS
  <2>2. (f + i - 1) % Capacity = Wrap(f + i - 1)
    BY <2>1, ModIsWrap
  <2>3. Wrap(f + i - 1) \in 0..(Capacity - 1)
    BY <2>1 DEF Wrap
  <2> QED BY <2>2, <2>3
<1>2. \A i \in 1..n : it[(f + i - 1) % Capacity] \in Sized
  BY <1>1
<1>3. Ring(it, f, n) \in [1..n -> Sized] /\ n \in Nat
  BY <1>2 DEF Ring
<1>4. \A i \in 1..n : Ring(it, f, n)[i] = it[Wrap(f + i - 1)]
  BY ZenonT(60), <1>1 DEF Ring
<1>5. Ring(it, f, n) \in Seq(Sized) /\ Len(Ring(it, f, n)) = n
  BY <1>3
<1> QED BY <1>4, <1>5

\* Insert into a ring that has room, and into a full one.
LEMMA RingGrows ==
  ASSUME NEW it \in [0..(Capacity - 1) -> Sized], NEW f \in 0..(Capacity - 1), NEW n \in 0..(Capacity - 1),
         NEW p \in Sized
  PROVE  Ring([it EXCEPT ![Wrap(f + n)] = p], f, n + 1) = Append(Ring(it, f, n), p)
<1> USE QueueAssumption
<1> DEFINE b == Wrap(f + n)
<1> DEFINE jt == [it EXCEPT ![b] = p]
<1> DEFINE old == Ring(it, f, n)
<1> DEFINE new == Ring(jt, f, n + 1)
<1>1. b \in 0..(Capacity - 1) /\ n \in 0..Capacity /\ n + 1 \in 0..Capacity
  BY DEF Wrap
<1>2. jt \in [0..(Capacity - 1) -> Sized] /\ jt[b] = p /\ \A k \in 0..(Capacity - 1) : k # b => jt[k] = it[k]
  BY <1>1
<1>3. old \in Seq(Sized) /\ Len(old) = n /\ \A i \in 1..n : old[i] = it[Wrap(f + i - 1)]
  BY ZenonT(60), <1>1, RingIs
<1> HIDE DEF jt
<1>4. new \in Seq(Sized) /\ Len(new) = n + 1 /\ \A i \in 1..(n + 1) : new[i] = jt[Wrap(f + i - 1)]
  BY ZenonT(60), <1>1, <1>2, RingIs
<1> HIDE DEF old, new
<1>5. ASSUME NEW i \in 1..n PROVE new[i] = old[i]
  <2>1. Wrap(f + i - 1) # b /\ Wrap(f + i - 1) \in 0..(Capacity - 1)
    BY DEF Wrap
  <2> QED BY <1>2, <1>3, <1>4, <2>1
<1>6. new[n + 1] = p
  <2>1. Wrap(f + (n + 1) - 1) = b
    OBVIOUS
  <2> QED BY <1>2, <1>4, <2>1
<1>7. new = Append(old, p)
  BY <1>3, <1>4, <1>5, <1>6
<1> QED BY ZenonT(60), <1>7 DEF old, new, jt

\* Insert into a full ring: the oldest request makes room for the new one.
LEMMA RingMoves ==
  ASSUME NEW it \in [0..(Capacity - 1) -> Sized], NEW f \in 0..(Capacity - 1), NEW p \in Sized
  PROVE  Ring([it EXCEPT ![f] = p], Wrap(f + 1), Capacity) = Tail(Append(Ring(it, f, Capacity), p))
<1> USE QueueAssumption
<1> DEFINE jt == [it EXCEPT ![f] = p]
<1> DEFINE g == Wrap(f + 1)
<1> DEFINE old == Ring(it, f, Capacity)
<1> DEFINE new == Ring(jt, g, Capacity)
<1>1. g \in 0..(Capacity - 1) /\ Capacity \in 0..Capacity
  BY DEF Wrap
<1>2. jt \in [0..(Capacity - 1) -> Sized] /\ jt[f] = p /\ \A k \in 0..(Capacity - 1) : k # f => jt[k] = it[k]
  OBVIOUS
<1>3. old \in Seq(Sized) /\ Len(old) = Capacity /\ \A i \in 1..Capacity : old[i] = it[Wrap(f + i - 1)]
  BY ZenonT(60), <1>1, RingIs
<1>4. new \in Seq(Sized) /\ Len(new) = Capacity /\ \A i \in 1..Capacity : new[i] = jt[Wrap(g + i - 1)]
  <2> HIDE DEF jt, g
  <2> QED BY ZenonT(60), <1>1, <1>2, RingIs
<1> HIDE DEF old, new, jt
<1>5. ASSUME NEW i \in 1..(Capacity - 1) PROVE new[i] = old[i + 1]
  <2>1. Wrap(g + i - 1) = Wrap(f + i) /\ Wrap(f + i) # f /\ Wrap(f + i) \in 0..(Capacity - 1)
    BY DEF Wrap
  <2>2. old[i + 1] = it[Wrap(f + i)]
    <3>1. i + 1 \in 1..Capacity /\ f + (i + 1) - 1 = f + i
      OBVIOUS
    <3> QED BY <1>3, <3>1
  <2>3. new[i] = jt[Wrap(g + i - 1)]
    BY <1>4
  <2> QED BY <1>2, <2>1, <2>2, <2>3
<1>6. new[Capacity] = p
  <2>1. Wrap(g + Capacity - 1) = f
    BY DEF Wrap
  <2> QED BY <1>1, <1>2, <1>4, <2>1
<1> DEFINE long == Append(old, p)
<1>7. /\ long \in Seq(Sized) /\ Len(long) = Capacity + 1 /\ long[Capacity + 1] = p
      /\ \A i \in 1..Capacity : long[i] = old[i]
  BY <1>3
<1> HIDE DEF long
<1>8. Tail(long) \in Seq(Sized) /\ Len(Tail(long)) = Capacity /\ \A i \in 1..Capacity : Tail(long)[i] = long[i + 1]
  BY <1>7
<1>9. ASSUME NEW i \in 1..Capacity PROVE new[i] = Tail(long)[i]
  <2>1. CASE i = Capacity
    BY <1>6, <1>7, <1>8, <2>1
  <2>2. CASE i # Capacity
    BY <1>5, <1>7, <1>8, <2>2
  <2> QED BY ZenonT(60), <2>1, <2>2
<1>10. new = Tail(long)
  BY <1>4, <1>8, <1>9
<1> QED BY ZenonT(60), <1>10 DEF new, jt, long, old

-----------------------------------------------------------------------------

\* The ring of a new server: empty, as the window is.
LEMMA RingInvInit == StatsInit => RingInv /\ Window!Init
<1> SUFFICES ASSUME StatsInit PROVE RingInv /\ Window!Init
  OBVIOUS
<1> USE QueueAssumption
<1>1. items \in [0..(Capacity - 1) -> Sized]
  BY DEF StatsInit, NoRequest, Sized
<1>2. Contents = <<>>
  BY DEF StatsInit, Contents
<1>3. Wrap(front + size) = Wrap(back + 1) /\ clock \in 0..MaxTime
  BY DEF StatsInit, Wrap
<1>4. totalReqSize = Window!Sum(Contents)
  BY <1>2, SumEmpty DEF StatsInit
<1> QED BY <1>1, <1>2, <1>3, <1>4 DEF StatsInit, RingInv, Window!Init

\* Insert keeps the ring and is an insertion into the window.
LEMMA InsertStep ==
  ASSUME RingInv, NEW s \in Sizes, Insert([time |-> clock, size |-> s])
  PROVE  RingInv' /\ Window!Next
<1> USE QueueAssumption
<1> DEFINE p == [time |-> clock, size |-> s]
<1>1. p \in Sized /\ p \in Request /\ p.size = s
  BY DEF RingInv, Sized, Request
<1> HIDE DEF p
<1>2. back + 1 \in 0..(2 * Capacity - 1) /\ Wrap(back + 1) \in 0..(Capacity - 1)
  BY DEF RingInv, Wrap
<1>3. back' = Wrap(front + size)
  <2>1. (back + 1) % Capacity = Wrap(back + 1)
    BY ZenonT(60), <1>2, ModIsWrap
  <2> QED BY <2>1 DEF Insert, RingInv
<1>4. items' = [items EXCEPT ![Wrap(front + size)] = p] /\ items' \in [0..(Capacity - 1) -> Sized]
  BY ZenonT(60), <1>1, <1>2, <1>3 DEF Insert, RingInv, p
<1>5. Contents = Ring(items, front, size) /\ Contents' = Ring(items', front', size')
  BY DEF Contents, Ring
<1>6. Contents \in Seq(Sized) /\ Len(Contents) = size
  BY <1>5, RingIs DEF RingInv
<1>7. clock' \in 0..MaxTime
  BY DEF Insert, RingInv
<1>8. CASE size # Capacity
  <2>1. size' = size + 1 /\ front' = front /\ totalReqSize' = totalReqSize + s /\ size \in 0..(Capacity - 1)
    <3>1. size \in 0..(Capacity - 1) /\ totalReqSize - 0 = totalReqSize
      BY <1>6, <1>8, SumIsInt DEF RingInv
    <3> QED BY <1>8, <3>1 DEF Insert, p
  <2>2. Contents' = Append(Contents, p)
    <3>1. items \in [0..(Capacity - 1) -> Sized] /\ front \in 0..(Capacity - 1)
      BY DEF RingInv
    <3>2. Ring([items EXCEPT ![Wrap(front + size)] = p], front, size + 1) = Append(Ring(items, front, size), p)
      BY ZenonT(60), <1>1, <2>1, <3>1, RingGrows
    <3> QED BY ZenonT(60), <1>4, <1>5, <2>1, <3>2
  <2>3. totalReqSize' = Window!Sum(Contents')
    BY <1>1, <1>6, <2>1, <2>2, SumAppend DEF RingInv
  <2>4. Wrap(front' + size') = Wrap(back' + 1) /\ back' \in -1..(Capacity - 1) /\ size' \in 0..Capacity
    BY <1>3, <2>1 DEF RingInv, Wrap
  <2>5. Len(Append(Contents, p)) = size + 1
    BY <1>6
  <2>6. Window!Insert(p)
    BY <2>1, <2>2, <2>5 DEF Window!Insert
  <2>7. RingInv'
    BY <1>4, <1>7, <2>1, <2>3, <2>4 DEF RingInv
  <2> QED BY <1>1, <2>3, <2>6, <2>7 DEF Window!Next
<1>9. CASE size = Capacity
  <2>1. Wrap(front + size) = front
    BY <1>9 DEF RingInv, Wrap
  <2>2. back' = front /\ size' = Capacity /\ totalReqSize' = totalReqSize - items[front].size + s
    BY <1>1, <1>3, <1>9, <2>1 DEF Insert, p
  <2>3. front' = Wrap(front + 1)
    <3>1. front' = (front + 1) % Capacity
      BY <1>9, <2>2 DEF Insert
    <3>2. front + 1 \in 0..(2 * Capacity - 1)
      BY DEF RingInv
    <3> QED BY ZenonT(60), <3>1, <3>2, ModIsWrap
  <2>4. Contents' = Tail(Append(Contents, p))
    <3>1. items \in [0..(Capacity - 1) -> Sized] /\ front \in 0..(Capacity - 1)
      BY DEF RingInv
    <3>2. Ring([items EXCEPT ![front] = p], Wrap(front + 1), Capacity) = Tail(Append(Ring(items, front, Capacity), p))
      BY ZenonT(60), <1>1, <3>1, RingMoves
    <3> QED BY ZenonT(60), <1>4, <1>5, <1>9, <2>1, <2>2, <2>3, <3>2
  <2> DEFINE long == Append(Contents, p)
  <2>5. long \in Seq(Sized) /\ Len(long) = Capacity + 1 /\ long[1] = Contents[1] /\ long # <<>>
    <3>1. p \in Sized /\ Contents \in Seq(Sized) /\ Len(Contents) = Capacity /\ Capacity \in Nat \ {0}
      BY <1>1, <1>6, <1>9
    <3> QED BY <3>1
  <2>6. Contents[1] = items[front]
    <3>1. size \in 0..Capacity /\ 1 \in 1..size /\ Wrap(front + 1 - 1) = front
      BY <1>9 DEF RingInv, Wrap
    <3>2. items \in [0..(Capacity - 1) -> Sized] /\ front \in 0..(Capacity - 1)
      BY DEF RingInv
    <3>3. Ring(items, front, size)[1] = items[Wrap(front + 1 - 1)]
      BY ZenonT(60), <3>1, <3>2, RingIs
    <3> QED BY <1>5, <3>1, <3>3
  <2>7. Window!Sum(long) = totalReqSize + s
    BY <1>1, <1>6, SumAppend DEF RingInv
  <2> HIDE DEF long
  <2>8. Window!Sum(Contents') = Window!Sum(long) - items[front].size
    BY ZenonT(60), <2>4, <2>5, <2>6, SumTail DEF long
  <2>9. totalReqSize' = Window!Sum(Contents')
    <3>1. totalReqSize \in Int /\ s \in Int /\ items[front].size \in Int
      BY <1>6, SumIsInt DEF RingInv, Sized
    <3> QED BY <2>2, <2>7, <2>8, <3>1
  <2>10. /\ Wrap(front' + size') = Wrap(back' + 1)
         /\ back' \in -1..(Capacity - 1) /\ size' \in 0..Capacity /\ front' \in 0..(Capacity - 1)
    BY <2>2, <2>3 DEF RingInv, Wrap
  <2>11. Window!Insert(p)
    BY <2>4, <2>5 DEF Window!Insert, long
  <2>12. RingInv'
    BY <1>4, <1>7, <2>9, <2>10 DEF RingInv
  <2> QED BY <1>1, <2>9, <2>11, <2>12 DEF Window!Next
<1> QED BY <1>8, <1>9

\* Rate and the clock: the queue is cleared or left alone.
LEMMA ClearStep == ASSUME RingInv, Clear, clock' = clock PROVE RingInv' /\ Window!Next
<1> USE QueueAssumption
<1>1. Contents' = <<>>
  BY DEF Clear, Contents
<1>2. totalReqSize' = Window!Sum(Contents')
  BY <1>1, SumEmpty DEF Clear
<1>3. /\ items' \in [0..(Capacity - 1) -> Sized] /\ clock' \in 0..MaxTime
      /\ size' \in 0..Capacity /\ front' \in 0..(Capacity - 1) /\ back' \in -1..(Capacity - 1)
      /\ Wrap(front' + size') = Wrap(back' + 1)
  BY DEF Clear, RingInv, Wrap
<1> QED BY <1>1, <1>2, <1>3 DEF RingInv, Window!Next, Window!Clear

\* A step that leaves the ring alone keeps both.
LEMMA RingStays ==
  ASSUME RingInv, UNCHANGED queueVars, clock' \in 0..MaxTime
  PROVE  RingInv' /\ UNCHANGED <<Contents, totalReqSize>>
<1>1. Contents' = Contents /\ totalReqSize' = totalReqSize
  BY DEF queueVars, Contents
<1>2. /\ items' = items /\ size' = size /\ front' = front /\ back' = back
  BY DEF queueVars
<1> QED BY <1>1, <1>2 DEF RingInv

\* Every step keeps the ring and is a step of the window or leaves it alone.
LEMMA RingStep ==
  RingInv /\ [StatsNext]_statsVars => RingInv' /\ [Window!Next]_<<Contents, totalReqSize>>
<1> SUFFICES ASSUME RingInv, [StatsNext]_statsVars
             PROVE  RingInv' /\ [Window!Next]_<<Contents, totalReqSize>>
  OBVIOUS
<1>1. CASE Elapse
  BY <1>1, RingStays, QueueAssumption DEF Elapse, RingInv
<1>2. ASSUME NEW s \in Sizes, Insert([time |-> clock, size |-> s])
      PROVE  RingInv' /\ Window!Next
  BY <1>2, InsertStep
<1>3. ASSUME NEW r \in Raters, FrontAndBack(r) \/ Rate(r)
      PROVE  RingInv' /\ [Window!Next]_<<Contents, totalReqSize>>
  <2>1. clock' = clock /\ clock' \in 0..MaxTime
    BY <1>3 DEF FrontAndBack, Rate, RingInv
  <2>2. CASE UNCHANGED queueVars
    BY <2>1, <2>2, RingStays
  <2>3. CASE Clear
    BY <2>1, <2>3, ClearStep
  <2> QED BY <1>3, <2>2, <2>3 DEF FrontAndBack, Rate
<1>4. CASE UNCHANGED statsVars
  <2>1. UNCHANGED queueVars /\ clock' \in 0..MaxTime
    BY <1>4 DEF statsVars, RingInv
  <2> QED BY <2>1, RingStays
<1> QED BY ZenonT(60), <1>1, <1>2, <1>3, <1>4 DEF StatsNext

\* statsQueue: the ring is the window of the last requests, for every capacity.
THEOREM QueueKeepsWindow == StatsSpec => KeepsWindow
<1>1. RingInv /\ [StatsNext]_statsVars => RingInv'
  BY RingStep
<1>2. RingInv /\ [StatsNext]_statsVars => [Window!Next]_<<Contents, totalReqSize>>
  BY RingStep
<1>3. StatsInit => RingInv
  BY RingInvInit
<1>4. StatsInit => Window!Init
  BY RingInvInit
<1> QED BY <1>1, <1>2, <1>3, <1>4, PTL DEF StatsSpec, KeepsWindow, Window!Spec
=============================================================================
