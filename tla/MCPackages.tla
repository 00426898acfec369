----------------------------- MODULE MCPackages -----------------------------
(***************************************************************************)
(* The small packages that the server is built from, in one instance:      *)
(* pkg/wait (deadlines), pkg/idutil, pkg/osutil, pkg/transport (limited    *)
(* listener, self-signed certificates) and v2stats.  They share no state,  *)
(* and every property is about one of them, so each behaviour lets one     *)
(* package, unit, run and the others stand still.                          *)
(***************************************************************************)
EXTENDS WaitTime, IdGenerator, Interrupts, LimitListener, SelfCert, StatsQueue

VARIABLE unit

packagesVars == <<unit, waitVars, idVars, interruptVars, listenerVars, certVars, statsVars>>

PackagesInit ==
  /\ unit \in {"wait", "idutil", "osutil", "limit_listen", "listener", "v2stats"}
  /\ WaitInit /\ IdInit /\ InterruptInit /\ ListenerInit /\ CertInit /\ StatsInit
  /\ isInit => unit = "osutil"
  /\ (\E id \in MemberIDs : born[id] # 0) => unit = "idutil"

PackagesNext ==
  \/ /\ unit = "wait" /\ WaitNext
     /\ UNCHANGED <<unit, idVars, interruptVars, listenerVars, certVars, statsVars>>
  \/ /\ unit = "idutil" /\ IdNext
     /\ UNCHANGED <<unit, waitVars, interruptVars, listenerVars, certVars, statsVars>>
  \/ /\ unit = "osutil" /\ InterruptNext
     /\ UNCHANGED <<unit, waitVars, idVars, listenerVars, certVars, statsVars>>
  \/ /\ unit = "limit_listen" /\ ListenerNext
     /\ UNCHANGED <<unit, waitVars, idVars, interruptVars, certVars, statsVars>>
  \/ /\ unit = "listener" /\ CertNext
     /\ UNCHANGED <<unit, waitVars, idVars, interruptVars, listenerVars, statsVars>>
  \/ /\ unit = "v2stats" /\ StatsNext
     /\ UNCHANGED <<unit, waitVars, idVars, interruptVars, listenerVars, certVars>>

\* The fairness of Interrupts and of LimitListener, for the unit that runs.
PackagesFairness ==
  /\ WF_interruptVars(unit = "osutil" /\ Handler)
  /\ \A x \in Exiters : WF_interruptVars(unit = "osutil" /\ Exit(x))
  /\ \A a \in Acceptors :
       /\ WF_listenerVars(unit = "limit_listen" /\ Acquire(a))
       /\ WF_listenerVars(unit = "limit_listen" /\ closed /\ AcceptFails(a))
  /\ \A c \in Conns, g \in Closers : WF_listenerVars(unit = "limit_listen" /\ Release(g, c))
  /\ \A c \in Conns :
       WF_listenerVars(unit = "limit_listen" /\ conn[c] = "open" /\ \E g \in Closers : CloseConn(g, c))

PackagesSpec == PackagesInit /\ [][PackagesNext]_packagesVars /\ PackagesFairness
=============================================================================
