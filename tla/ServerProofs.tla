---------------------------- MODULE ServerProofs ----------------------------
(***************************************************************************)
(* Proofs about the parts of a server: its goroutines from Start to the    *)
(* end of run (ServerLifecycle), the start of the process around them      *)
(* (Startup), the data directory under crashes and under several processes *)
(* (DataDir), and the backend with its locks and goroutines (Backend), for *)
(* any number of URLs, processes, crashes and callers.                     *)
(***************************************************************************)
EXTENDS Startup, DataDir, Backend, Integers, TLAPS

\* The time a leaf is given; the ones meant for Zenon name it.
USE SMTT(60)

-----------------------------------------------------------------------------
(* ServerLifecycle: goAttach and run *)

\* Start and goAttach: a job is being attached until its deferred RUnlock.
ShapeOK ==
  /\ start \in [pc : {"start", "rlock", "check", "add", "runlock"},
                jobs : Seq({"adjustTicks", "publish"})]
  /\ start.pc \in {"check", "add", "runlock"} => start.jobs # <<>>
  /\ wgMu \in [reader : BOOLEAN, writer : {"none", "waiting", "held"}]
  /\ wg \in Int

\* Who holds wgMu: goAttach from its RLock to its deferred RUnlock, run from its
\* Lock to its Unlock, never both.
LockInv ==
  /\ start.pc \in {"check", "add", "runlock"} => wgMu.reader
  /\ wgMu.writer = "held" => ~wgMu.reader
  /\ run = "close" => wgMu.writer = "held"

\* What goAttach has read of stopping is still true when it adds.
NotYetStopping == start.pc = "add" => ~stopping

\* The inductive invariant.
GroupInv == ShapeOK /\ LockInv /\ NotYetStopping

\* Before Start nobody has wgMu.
LEMMA InitGroup == LifecycleInit => GroupInv
<1>1. Jobs \in Seq({"adjustTicks", "publish"})
  BY DEF Jobs
<1> QED BY <1>1 DEF LifecycleInit, GroupInv, ShapeOK, LockInv, NotYetStopping

\* Start and goAttach: the reader.
LEMMA StarterStep == GroupInv /\ Starter => GroupInv'
<1> SUFFICES ASSUME GroupInv, Starter PROVE GroupInv'
  OBVIOUS
<1> USE DEF GroupInv, ShapeOK, LockInv, NotYetStopping
<1>1. CASE Start
  BY <1>1 DEF Start
<1>2. CASE AttachRLock
  BY ZenonT(60), <1>2 DEF AttachRLock
<1>3. CASE AttachCheck
  BY <1>3 DEF AttachCheck
<1>4. CASE AttachAdd
  BY <1>4 DEF AttachAdd
<1>5. CASE AttachRUnlock
  <2>1. start.jobs \in Seq({"adjustTicks", "publish"}) /\ start.jobs # <<>>
    BY <1>5 DEF AttachRUnlock
  <2>2. Tail(start.jobs) \in Seq({"adjustTicks", "publish"})
    BY <2>1
  <2> QED BY ZenonT(60), <1>5, <2>2 DEF AttachRUnlock
<1> QED BY <1>1, <1>2, <1>3, <1>4, <1>5 DEF Starter

\* run: the writer.
LEMMA RunStep == GroupInv /\ Run => GroupInv'
<1> SUFFICES ASSUME GroupInv, Run PROVE GroupInv'
  OBVIOUS
<1> USE DEF GroupInv, ShapeOK, LockInv, NotYetStopping
<1>1. CASE RunReceives
  BY <1>1 DEF RunReceives
<1>2. CASE RunLock
  BY <1>2 DEF RunLock
<1>3. CASE RunClose
  BY <1>3 DEF RunClose
<1>4. CASE RunCancel
  BY <1>4 DEF RunCancel
<1> QED BY <1>1, <1>2, <1>3, <1>4 DEF Run

\* The attached goroutines and stopWithDelay touch neither wgMu nor stopping.
LEMMA GroupInductive == GroupInv /\ [LifecycleNext]_lifecycleVars => GroupInv'
<1> SUFFICES ASSUME GroupInv, [LifecycleNext]_lifecycleVars PROVE GroupInv'
  OBVIOUS
<1>1. CASE AdjustTicks
  BY <1>1 DEF AdjustTicks, GroupInv, ShapeOK, LockInv, NotYetStopping
<1>2. CASE Publish
  BY <1>2 DEF Publish, GroupInv, ShapeOK, LockInv, NotYetStopping
<1>3. ASSUME NEW t \in Stoppers, StopDelay(t) \/ StopSend(t) PROVE GroupInv'
  BY <1>3 DEF StopDelay, StopSend, GroupInv, ShapeOK, LockInv, NotYetStopping
<1>4. CASE UNCHANGED lifecycleVars
  BY <1>4 DEF lifecycleVars, GroupInv, ShapeOK, LockInv, NotYetStopping
<1> QED BY StarterStep, RunStep, <1>1, <1>2, <1>3, <1>4 DEF LifecycleNext

\* Only AttachAdd adds to the group, and then stopping is open.
LEMMA AddNotStopping == GroupInv /\ [LifecycleNext]_lifecycleVars => (wg' > wg => ~stopping)
<1> SUFFICES ASSUME GroupInv, LifecycleNext, wg' > wg, wg \in Int PROVE ~stopping
  BY DEF GroupInv, ShapeOK, lifecycleVars
<1>1. CASE AttachAdd
  BY <1>1 DEF AttachAdd, GroupInv, NotYetStopping
<1>2. CASE Start \/ AttachRLock \/ AttachCheck \/ AttachRUnlock
  BY <1>2 DEF Start, AttachRLock, AttachCheck, AttachRUnlock
<1>3. CASE Run
  BY <1>3 DEF Run, RunReceives, RunLock, RunClose, RunCancel
<1>4. CASE AdjustTicks \/ Publish
  BY <1>4 DEF AdjustTicks, Publish
<1>5. CASE \E t \in Stoppers : StopDelay(t) \/ StopSend(t)
  BY <1>5 DEF StopDelay, StopSend
<1> QED BY <1>1, <1>2, <1>3, <1>4, <1>5 DEF LifecycleNext, Starter

\* goAttach, run: "now safe to add since waitgroup wait has not started yet" is
\* true however goAttach and the end of run interleave.
THEOREM NothingAddedAfterStopping == LifecycleSpec => NoAddAfterStopping
  BY InitGroup, GroupInductive, AddNotStopping, PTL DEF LifecycleSpec, NoAddAfterStopping

-----------------------------------------------------------------------------
(* Startup: listeners, channels and the server *)

\* StartEtcd before configureClientListeners has a listener.
BeforeClients == {"identify", "validate", "peerTLS", "peers", "clientTLS"}

\* StartEtcd before it starts the server.
BeforeServer == BeforeClients \cup {"clients", "listened", "newServer", "failed"}

\* The position in the list of URLs, the contexts and the goroutines that serve.
StartupTypeOK ==
  /\ i \in Nat \ {0} /\ LCUrls \in UrlLists
  /\ sctxs \in [Addrs -> [secure : BOOLEAN, insecure : BOOLEAN]]
  /\ goroutine \in [Goroutines -> {"off", "waiting", "serving", "errHandler", "done"}]

\* configureClientListeners: a client address has a context as long as it has an
\* open listener, but for the one between net.Listen and the defer, and all those
\* with a context are closed by a deferred function.
ListensOn(a) == <<"client", a>> \in listening
HasContext(a) == sctxs[a] # NoCtx

ListenersInv ==
  /\ pc \in BeforeClients => \A a \in Addrs : ~HasContext(a)
  /\ pc \in BeforeClients => deferred = {}
  /\ pc \notin {"listened", "exited"} => \A a \in Addrs : ListensOn(a) <=> HasContext(a)
  /\ pc \in {"clients", "listened"} => deferred = {<<"client", a>> : a \in {b \in Addrs : HasContext(b)}}
  /\ pc = "listened" =>
       /\ i <= Len(LCUrls) /\ ~HasContext(Url.addr)
       /\ \A a \in Addrs : ListensOn(a) <=> HasContext(a) \/ a = Url.addr

\* StartEtcd: its deferred function closes channels only of a start that never got
\* to the goroutines that serve.
ClosedInv ==
  /\ pc \notin {"handle", "wait", "exited"} => closedC = {}
  /\ pc \in BeforeServer \/ closedC # {} => \A g \in Goroutines : goroutine[g] = "off"
  /\ closedC \subseteq Addrs

\* The inductive invariant.
StartupInv == StartupTypeOK /\ ListenersInv /\ ClosedInv

\* An address without a context.
LEMMA NoCtxIs == NoCtx \in [secure : BOOLEAN, insecure : BOOLEAN]
  BY DEF NoCtx

\* The URL at a position of the list.
LEMMA UrlIs ==
  ASSUME StartupInv, i <= Len(LCUrls)
  PROVE  i \in DOMAIN LCUrls /\ Url.addr \in Addrs /\ Network \in {"tcp", "unix"}
<1>1. LCUrls \in UrlLists /\ i \in Nat \ {0}
  BY DEF StartupInv, StartupTypeOK
<1>2. LCUrls \in Seq([addr : {LCUrls[k].addr : k \in DOMAIN LCUrls}, scheme : {"http", "https", "unix", "unixs"}])
  BY <1>1, UrlsAssumption
<1>3. i \in DOMAIN LCUrls
  BY <1>1, <1>2
<1> QED BY <1>1, <1>3 DEF Addrs, Url, Network

\* startEtcdOrProxyV2 begins with no listener and no goroutine.
LEMMA StartupInvInit == Init => StartupInv
  BY NoCtxIs DEF Init, StartupInv, StartupTypeOK, ListenersInv, ClosedInv, BeforeClients, ListensOn, HasContext

\* The steps that open or close no listener and start no goroutine.
LEMMA QuietStep ==
  ASSUME StartupInv, UNCHANGED <<LCUrls, listenVars, closedC, goroutine>>,
         pc' \in BeforeServer => pc \in BeforeServer,
         pc' \in BeforeClients => pc \in BeforeClients,
         pc' \in {"clients", "listened"} => pc' = pc \/ (pc' = "clients" /\ pc \in BeforeClients),
         pc \in {"listened", "exited"} => pc' = pc \/ pc' = "exited",
         pc \in {"handle", "wait", "exited"} => pc' \in {"handle", "wait", "exited"}
  PROVE  StartupInv'
<1> USE DEF StartupInv, StartupTypeOK, ListenersInv, ClosedInv, ListensOn, HasContext, Url, listenVars
<1>1. StartupTypeOK' /\ ClosedInv'
  OBVIOUS
<1>2. ListenersInv'
  <2>1. CASE pc' = "clients" /\ pc \in BeforeClients
    <3>1. {a \in Addrs : HasContext(a)} = {}
      BY <2>1
    <3> QED BY <2>1, <3>1 DEF BeforeClients
  <2>2. CASE ~(pc' = "clients" /\ pc \in BeforeClients)
    BY <2>2
  <2> QED BY <2>1, <2>2
<1> QED BY <1>1, <1>2

\* configureClientListeners: the URL's address gets a context.
LEMMA SchemeStep ==
  ASSUME StartupInv, i <= Len(LCUrls), AddScheme
  PROVE  /\ sctxs' \in [Addrs -> [secure : BOOLEAN, insecure : BOOLEAN]] /\ i' \in Nat \ {0}
         /\ \A a \in Addrs : HasContext(a)' <=> HasContext(a) \/ a = Url.addr
<1> DEFINE addr == Url.addr
<1>1. addr \in Addrs
  BY UrlIs
<1>2. sctxs \in [Addrs -> [secure : BOOLEAN, insecure : BOOLEAN]] /\ i \in Nat \ {0}
  BY DEF StartupInv, StartupTypeOK
<1>3. sctxs[addr] \in [secure : BOOLEAN, insecure : BOOLEAN]
  BY <1>1, <1>2
<1>4. Secure \in BOOLEAN
  BY DEF Secure
<1> DEFINE c == [secure |-> sctxs[addr].secure \/ Secure, insecure |-> sctxs[addr].insecure \/ ~Secure]
<1>5. c \in [secure : BOOLEAN, insecure : BOOLEAN]
  BY <1>3, <1>4
<1>6. c # NoCtx
  BY ZenonT(60), <1>3, <1>4 DEF NoCtx
<1>7. sctxs' = [sctxs EXCEPT ![addr] = c] /\ i' = i + 1
  BY ZenonT(60) DEF AddScheme
<1> HIDE DEF c, addr
<1>8. sctxs' \in [Addrs -> [secure : BOOLEAN, insecure : BOOLEAN]] /\ i' \in Nat \ {0}
  BY <1>1, <1>2, <1>5, <1>7
<1>9. \A a \in Addrs : HasContext(a)' <=> HasContext(a) \/ a = addr
  BY ZenonT(60), <1>1, <1>2, <1>6, <1>7 DEF HasContext
<1> QED BY <1>8, <1>9 DEF addr

\* configureClientListeners: an address that is known.
LEMMA ClientMergeStep == ASSUME StartupInv, ClientMerge PROVE StartupInv'
<1>1. pc = "clients" /\ pc' = pc /\ i <= Len(LCUrls) /\ AddScheme /\ HasContext(Url.addr)
      /\ LCUrls' = LCUrls /\ listening' = listening /\ deferred' = deferred
      /\ closedC' = closedC /\ goroutine' = goroutine
  BY DEF ClientMerge, Contexts, HasContext, confVars, serveVars
<1>2. /\ sctxs' \in [Addrs -> [secure : BOOLEAN, insecure : BOOLEAN]] /\ i' \in Nat \ {0}
      /\ \A a \in Addrs : HasContext(a)' <=> HasContext(a)
  BY <1>1, SchemeStep
<1>3. {b \in Addrs : HasContext(b)'} = {b \in Addrs : HasContext(b)}
  BY <1>2
<1>4. ListenersInv'
  <2> HIDE DEF HasContext
  <2> QED BY <1>1, <1>2, <1>3 DEF StartupInv, ListenersInv, ListensOn, BeforeClients
<1>5. StartupTypeOK' /\ ClosedInv'
  BY <1>1, <1>2 DEF StartupInv, StartupTypeOK, ClosedInv
<1> QED BY <1>4, <1>5 DEF StartupInv

\* configureClientListeners: net.Listen.
LEMMA ClientListenStep == ASSUME StartupInv, ClientListen PROVE StartupInv'
<1>1. pc = "clients" /\ pc' = "listened" /\ i <= Len(LCUrls)
      /\ listening' = listening \cup {<<"client", Url.addr>>}
      /\ LCUrls' = LCUrls /\ i' = i /\ sctxs' = sctxs /\ deferred' = deferred
      /\ closedC' = closedC /\ goroutine' = goroutine
  BY DEF ClientListen, MainGoes, confVars, serveVars
<1>2. Url.addr \in Addrs
  BY <1>1, UrlIs
<1>3. ~HasContext(Url.addr)
  BY <1>2 DEF ClientListen, Contexts, HasContext
<1>4. Url' = Url
  BY <1>1 DEF Url
<1>5. \A a \in Addrs : ListensOn(a)' <=> ListensOn(a) \/ a = Url.addr
  BY <1>1 DEF ListensOn
<1>6. \A a : HasContext(a)' <=> HasContext(a)
  BY <1>1 DEF HasContext
<1>7. ListenersInv'
  BY <1>1, <1>3, <1>4, <1>5, <1>6 DEF StartupInv, ListenersInv, BeforeClients, HasContext
<1>8. StartupTypeOK' /\ ClosedInv'
  BY <1>1 DEF StartupInv, StartupTypeOK, ClosedInv, BeforeServer
<1> QED BY <1>7, <1>8 DEF StartupInv

\* configureClientListeners: the deferred functions close what is open.
LEMMA ClientsFailStep == ASSUME StartupInv, ClientListenFails PROVE StartupInv'
<1>1. pc = "clients" /\ pc' = "failed" /\ i' = i /\ LCUrls' = LCUrls /\ listening' = listening \ deferred
      /\ sctxs' = [a \in Addrs |-> NoCtx] /\ closedC' = closedC /\ goroutine' = goroutine
  BY DEF ClientListenFails, ClientsFail, confVars, serveVars
<1>2. \A a \in Addrs : ListensOn(a) => <<"client", a>> \in deferred
  BY <1>1 DEF StartupInv, ListenersInv
<1>3. \A a \in Addrs : ~ListensOn(a)' /\ ~HasContext(a)'
  <2>1. \A a \in Addrs : <<"client", a>> \notin listening'
    BY ZenonT(60), <1>1, <1>2 DEF ListensOn
  <2>2. \A a \in Addrs : sctxs'[a] = NoCtx
    BY <1>1
  <2> QED BY ZenonT(60), <2>1, <2>2 DEF ListensOn, HasContext
<1>4. ListenersInv'
  BY <1>1, <1>3 DEF ListenersInv, BeforeClients
<1>5. StartupTypeOK' /\ ClosedInv'
  BY <1>1, NoCtxIs DEF StartupInv, StartupTypeOK, ClosedInv, BeforeServer
<1> QED BY <1>4, <1>5 DEF StartupInv

\* configureClientListeners: NewKeepAliveListener does not fail, and the defer follows.
LEMMA ClientDeferStep == ASSUME StartupInv, ClientDefer PROVE StartupInv'
<1>1. pc = "listened" /\ i <= Len(LCUrls)
  BY DEF ClientDefer, StartupInv, ListenersInv
<1>2. Url.addr \in Addrs /\ ~KeepAliveFails
  BY <1>1, UrlIs DEF KeepAliveFails, KeepAliveScheme
<1>3. pc' = "clients" /\ deferred' = deferred \cup {<<"client", Url.addr>>} /\ AddScheme /\ listening' = listening
      /\ LCUrls' = LCUrls /\ closedC' = closedC /\ goroutine' = goroutine
  BY <1>2 DEF ClientDefer, confVars, serveVars
<1>4. /\ sctxs' \in [Addrs -> [secure : BOOLEAN, insecure : BOOLEAN]] /\ i' \in Nat \ {0}
      /\ \A a \in Addrs : HasContext(a)' <=> HasContext(a) \/ a = Url.addr
  BY <1>1, <1>3, SchemeStep
<1>5. \A a \in Addrs : ListensOn(a)' <=> HasContext(a)'
  <2>1. \A a \in Addrs : ListensOn(a) <=> HasContext(a) \/ a = Url.addr
    BY <1>1 DEF StartupInv, ListenersInv
  <2>2. \A a \in Addrs : ListensOn(a)' <=> ListensOn(a)
    BY <1>3 DEF ListensOn
  <2> QED BY ZenonT(60), <1>4, <2>1, <2>2
<1>6. deferred' = {<<"client", a>> : a \in {b \in Addrs : HasContext(b)'}}
  <2>1. {b \in Addrs : HasContext(b)'} = {b \in Addrs : HasContext(b)} \cup {Url.addr}
    BY <1>2, <1>4
  <2>2. deferred = {<<"client", a>> : a \in {b \in Addrs : HasContext(b)}}
    BY <1>1 DEF StartupInv, ListenersInv
  <2> QED BY <1>3, <2>1, <2>2
<1>7. ListenersInv'
  BY <1>3, <1>5, <1>6 DEF ListenersInv, BeforeClients
<1>8. StartupTypeOK' /\ ClosedInv'
  BY <1>1, <1>3, <1>4 DEF StartupInv, StartupTypeOK, ClosedInv, BeforeServer
<1> QED BY <1>7, <1>8 DEF StartupInv

\* The main goroutine, from identifyDataDirOrDie to its last select.
LEMMA MainKeeps == ASSUME StartupInv, Main PROVE StartupInv'
<1> USE DEF MainGoes, confVars, serveVars, BeforeServer, BeforeClients
<1>1. CASE Identify \/ Validate \/ PeerTLS \/ PeerListenFails \/ ClientTLS
  BY <1>1, QuietStep DEF Identify, Validate, PeerTLS, PeerListenFails, ClientTLS
<1>2. CASE FDLimitTooLow \/ NewServer \/ StartServer \/ Await \/ Handle \/ WaitErr
  BY <1>2, QuietStep DEF FDLimitTooLow, NewServer, StartServer, embedVars, Await, Handle, WaitErr
<1>3. CASE PeerListen \/ PeersReturn
  <2>1. \A a \in Addrs : <<"client", a>> \in listening' <=> <<"client", a>> \in listening
    BY <1>3 DEF PeerListen, PeersReturn
  <2> QED BY <1>3, <2>1 DEF PeerListen, PeersReturn, StartupInv, StartupTypeOK, ListenersInv, ClosedInv,
                            ListensOn, HasContext
<1>4. CASE ClientMerge
  BY <1>4, ClientMergeStep
<1>5. CASE ClientListen
  BY <1>5, ClientListenStep
<1>6. CASE ClientListenFails
  BY <1>6, ClientsFailStep
<1>7. CASE ClientDefer
  BY <1>7, ClientDeferStep
<1>8. CASE ClientsReturn
  BY <1>8 DEF ClientsReturn, StartupInv, StartupTypeOK, ListenersInv, ClosedInv, ListensOn, HasContext
<1>9. CASE StartFailed
  BY <1>9 DEF StartFailed, StartupInv, StartupTypeOK, ListenersInv, ClosedInv, listenVars, Contexts,
              ListensOn, HasContext
<1>10. CASE ServePeers \/ ServeClients
  BY <1>10 DEF ServePeers, ServeClients, StartupInv, StartupTypeOK, ListenersInv, ClosedInv, listenVars,
               ListensOn, HasContext
<1> QED BY <1>1, <1>2, <1>3, <1>4, <1>5, <1>6, <1>7, <1>8, <1>9, <1>10 DEF Main

\* The goroutines that serve: one that is off stays off.
LEMMA GoroutineStep ==
  ASSUME StartupInv, UNCHANGED <<LCUrls, pc, listenVars, closedC>>,
         goroutine' \in [Goroutines -> {"off", "waiting", "serving", "errHandler", "done"}],
         \E g \in Goroutines : goroutine[g] # "off"
  PROVE  StartupInv'
  BY DEF StartupInv, StartupTypeOK, ListenersInv, ClosedInv, listenVars, ListensOn, HasContext, Url

\* The main goroutine, the server and the goroutines that serve.
LEMMA StartupStep == StartupInv /\ [Next]_vars => StartupInv'
<1> SUFFICES ASSUME StartupInv, [Next]_vars PROVE StartupInv'
  OBVIOUS
<1>1. CASE UNCHANGED vars
  BY <1>1, QuietStep DEF vars, embedVars, serveVars, confVars
<1>2. CASE ServerStep
  BY <1>2, QuietStep DEF ServerStep, embedVars, serveVars, confVars
<1>3. ASSUME NEW l \in Peers \cup Clients, ListenerFails(l) PROVE StartupInv'
  BY <1>3, QuietStep DEF ListenerFails, confVars
<1>4. ASSUME NEW a \in Addrs, Serve(a) \/ GatewayFails(a) PROVE StartupInv'
  <2>1. <<"serve", a>> \in Goroutines
    BY DEF Goroutines, Parts
  <2>2. goroutine' \in [Goroutines -> {"off", "waiting", "serving", "errHandler", "done"}]
    BY <1>4 DEF Serve, GatewayFails, StartupInv, StartupTypeOK
  <2> QED BY <1>4, <2>1, <2>2, GoroutineStep DEF Serve, GatewayFails, confVars
<1>5. ASSUME NEW g \in Goroutines, ServeReturns(g) \/ ErrHandler(g) PROVE StartupInv'
  <2>1. goroutine' \in [Goroutines -> {"off", "waiting", "serving", "errHandler", "done"}]
    BY <1>5 DEF ServeReturns, ErrHandler, StartupInv, StartupTypeOK
  <2> QED BY <1>5, <2>1, GoroutineStep DEF ServeReturns, ErrHandler, confVars
<1> QED BY <1>1, <1>2, <1>3, <1>4, <1>5, MainKeeps DEF Next

\* StartEtcd: the invariant holds, whichever step of a start fails.
LEMMA StartupAlways == Spec => []StartupInv
<1> QED BY StartupInvInit, StartupStep, PTL DEF Spec

\* configureClientListeners: no client listener is left open without a context,
\* whichever URL failed; so none is after a start that failed there.
THEOREM ListenersAreClosed == Spec => []ClientListenersClosed
<1>1. StartupInv => ClientListenersClosed
  BY DEF StartupInv, ListenersInv, ClientListenersClosed, Contexts, Clients, ListensOn, HasContext
<1> QED BY <1>1, StartupAlways, PTL

\* StartEtcd, serve: no goroutine can send on a serversC that is closed.
THEOREM ServersCNeverSentClosed == Spec => []NoSendOnClosedChannel
<1>1. StartupInv => NoSendOnClosedChannel
  <2> SUFFICES ASSUME StartupInv, NEW a \in closedC PROVE goroutine[<<"serve", a>>] = "off"
    BY ZenonT(60) DEF NoSendOnClosedChannel
  <2>1. a \in Addrs /\ \A g \in Goroutines : goroutine[g] = "off"
    BY DEF StartupInv, ClosedInv
  <2>2. <<"serve", a>> \in Goroutines
    BY <2>1 DEF Goroutines, Parts
  <2> QED BY <2>1, <2>2
<1> QED BY <1>1, StartupAlways, PTL

\* StartEtcd: whatever the start does around it, the server it runs takes the
\* steps of an EtcdServer.
THEOREM StartupRunsServer == Spec => LifecycleSpec
<1>1. Init => LifecycleInit
  BY Zenon DEF Init
<1>2. [Next]_vars => [LifecycleNext]_lifecycleVars
  BY ZenonT(60) DEF Next, vars, Main, Identify, Validate, PeerTLS, PeerListen, PeerListenFails, PeersReturn, ClientTLS,
     ClientMerge, ClientListen, ClientListenFails, FDLimitTooLow, ClientDefer, ClientsReturn, NewServer, StartFailed, StartServer, ServePeers, ServeClients,
     Await, Handle, WaitErr, ServerStep, Serve, GatewayFails, ListenerFails, ServeReturns, ErrHandler, LifecycleNext
<1> QED BY <1>1, <1>2, PTL DEF Spec, LifecycleSpec

-----------------------------------------------------------------------------
(* DataDir: the lock on db and the temporary directory *)

\* wal.Create at work in its temporary directory.
Creating == {Mkdir("wal.tmp"), WriteTouch("wal.tmp"), RemoveTouch("wal.tmp"), At("readDir"), At("lockFile")}
\* The log is there.
Logged == {Mkdir("member"), WriteTouch("member"), RemoveTouch("member"), At("running")}
\* From the lock on db on.
Holding == {At("create")} \cup Creating \cup Logged
\* The directory of the member is there.
Placed == {WriteTouch("snap"), RemoveTouch("snap"), At("openBackend")}

\* Where a process can be at all.
Stages == {"idle", "openBackend", "create", "readDir", "lockFile", "running", "error", "panicked"}
\* A step of NewServer, or one of TouchDirAll.
Spots ==
  {At(s) : s \in Stages} \cup {Mkdir(d) : d \in Touched} \cup {WriteTouch(d) : d \in Touched}
  \cup {RemoveTouch(d) : d \in Touched}

\* Every process is at one of them, and takes the directory for something.
DirTypeOK == place \in [Procs -> Spots] /\ dirType \in [Procs -> {"none", "dirMember", "dirEmpty"}]

\* openBackend, wal.Create: whoever touches the log holds the lock on db.
LockHeld == \A p \in Procs : place[p] \in Holding => dbLock = p

\* CreateDirAll: the temporary directory is empty until 0.wal is created in it, and
\* 0.wal stays there.
TmpInv ==
  \A p \in Procs :
    /\ place[p] \in Creating => Wal("wal.tmp") \notin disk
    /\ place[p] \in Creating \ {RemoveTouch("wal.tmp")} => Touch("wal.tmp") \notin disk
    /\ place[p] \in Logged => walFile = p /\ Wal("wal.tmp") \in disk

\* NewServer: the directory of the member is made before the database in it.
MemberInv ==
  /\ Db \in disk => Dir("member") \in disk
  /\ \A p \in Procs : place[p] \in Placed => Dir("member") \in disk

\* The inductive invariant.
DirInv == DirTypeOK /\ LockHeld /\ TmpInv /\ MemberInv /\ CreateNeverPanics

\* A step of p that leaves the log alone keeps what is said of the others.
LEMMA DirFrame ==
  ASSUME DirInv, NEW p \in Procs, NEW to \in Spots, place' = [place EXCEPT ![p] = to],
         dirType' \in [Procs -> {"none", "dirMember", "dirEmpty"}],
         \A q \in Procs : q # p /\ dbLock = q => dbLock' = q,
         \A q \in Procs : q # p /\ walFile = q => walFile' = q \/ dbLock = p,
         dbLock # p => /\ Wal("wal.tmp") \in disk' <=> Wal("wal.tmp") \in disk
                       /\ Touch("wal.tmp") \in disk' => Touch("wal.tmp") \in disk,
         Db \in disk' => Db \in disk \/ Dir("member") \in disk',
         Dir("member") \in disk => Dir("member") \in disk',
         to \in Holding => dbLock' = p,
         to \in Creating => Wal("wal.tmp") \notin disk',
         to \in Creating \ {RemoveTouch("wal.tmp")} => Touch("wal.tmp") \notin disk',
         to \in Logged => walFile' = p /\ Wal("wal.tmp") \in disk',
         to \in Placed => Dir("member") \in disk',
         to # At("panicked")
  PROVE  DirInv'
<1> USE DEF DirInv
<1>1. place'[p] = to /\ (\A q \in Procs : q # p => place'[q] = place[q]) /\ place' \in [Procs -> Spots]
  BY DEF DirTypeOK
<1>2. ASSUME NEW q \in Procs, q # p, place[q] \in Holding PROVE dbLock = q /\ dbLock # p
  BY <1>2 DEF LockHeld
<1>3. LockHeld'
  BY <1>1, <1>2 DEF LockHeld, Holding, Creating, Logged
<1>4. ASSUME NEW q \in Procs, q # p
      PROVE  /\ place[q] \in Creating => Wal("wal.tmp") \notin disk'
             /\ place[q] \in Creating \ {RemoveTouch("wal.tmp")} => Touch("wal.tmp") \notin disk'
             /\ place[q] \in Logged => walFile' = q /\ Wal("wal.tmp") \in disk'
  <2>1. Creating \subseteq Holding /\ Logged \subseteq Holding
    BY DEF Holding
  <2> QED BY <1>2, <1>4, <2>1 DEF TmpInv
<1>5. DirTypeOK'
  BY <1>1 DEF DirTypeOK
<1>6. TmpInv'
  BY <1>1, <1>4 DEF TmpInv
<1>7. MemberInv'
  BY <1>1 DEF MemberInv
<1>8. CreateNeverPanics'
  BY <1>1 DEF CreateNeverPanics
<1> QED BY <1>3, <1>5, <1>6, <1>7, <1>8

\* Every place is one of those.
LEMMA AreSpots ==
  /\ \A s \in Stages : At(s) \in Spots
  /\ \A d \in Touched : Mkdir(d) \in Spots /\ WriteTouch(d) \in Spots /\ RemoveTouch(d) \in Spots
  BY DEF Spots

\* An empty disk, and nobody has started.
LEMMA DirInvInit == DirInit => DirInv
<1> SUFFICES ASSUME DirInit PROVE DirInv
  OBVIOUS
<1>1. \A p \in Procs : place[p] = At("idle")
  BY DEF DirInit
<1>0. At("idle") \in Spots
  BY AreSpots DEF Stages
<1>2. At("idle") \notin Holding \cup Placed \cup {At("panicked")}
  BY DEF At, Mkdir, WriteTouch, RemoveTouch, Holding, Creating, Logged, Placed
<1>3. DirTypeOK
  BY <1>0 DEF DirInit, DirTypeOK
<1>4. Db \notin disk
  BY DEF DirInit
<1> QED BY <1>1, <1>2, <1>3, <1>4 DEF DirInv, LockHeld, TmpInv, MemberInv, CreateNeverPanics, Holding

\* identifyDataDirOrDie only looks.
LEMMA IdentifyStep == ASSUME DirInv, NEW p \in Procs, IdentifyDataDir(p) PROVE DirInv'
<1> DEFINE to == Mkdir("data")
<1>0. to \in Spots
  BY AreSpots DEF Stages, Touched, AfterTouch
<1>1. to \notin Holding \cup Placed \cup {At("panicked")}
  BY DEF At, Mkdir, WriteTouch, RemoveTouch, Holding, Creating, Logged, Placed
<1>2. place' = [place EXCEPT ![p] = to] /\ UNCHANGED <<disk, walFile, dbLock>>
  BY DEF IdentifyDataDir, Advance
<1>3. dirType' \in [Procs -> {"none", "dirMember", "dirEmpty"}]
  BY DEF IdentifyDataDir, DirInv, DirTypeOK
<1> HIDE DEF to
<1> QED BY ZenonT(60), <1>0, <1>1, <1>2, <1>3, DirFrame DEF DirInv, MemberInv, Holding

\* TouchDirAll: MkdirAll creates directories, never a file.
LEMMA MkdirStep == ASSUME DirInv, NEW p \in Procs, NEW dir \in Touched, MkdirAll(p, dir) PROVE DirInv'
<1> DEFINE to == WriteTouch(dir)
<1>0. to \in Spots
  BY AreSpots DEF Stages, Touched, AfterTouch
<1>1. to # At("panicked")
  BY DEF At, Mkdir, WriteTouch, RemoveTouch, Touched
<1>2. /\ place[p] = Mkdir(dir) /\ place' = [place EXCEPT ![p] = to] /\ UNCHANGED <<walFile, dbLock, dirType>>
      /\ disk' = disk \cup WithParents(dir)
  BY DEF MkdirAll, Advance
<1>3. WithParents(dir) \subseteq {Dir("data"), Dir("member"), Dir(dir)} /\ (dir # "data" => Dir("member") \in WithParents(dir))
  BY DEF WithParents, Touched
<1>4. /\ Wal("wal.tmp") \in disk' <=> Wal("wal.tmp") \in disk
      /\ Touch("wal.tmp") \in disk' <=> Touch("wal.tmp") \in disk
      /\ Db \in disk' <=> Db \in disk
      /\ disk \subseteq disk'
  BY <1>2, <1>3 DEF Dir, Touch, Wal, Db, Touched
<1>5. dir # "data" => Dir("member") \in disk'
  BY <1>2, <1>3
<1>6. /\ to \in Creating => place[p] \in Creating \ {RemoveTouch("wal.tmp")}
      /\ to \in Logged => place[p] \in Logged
      /\ to \in Placed => dir # "data"
      /\ to # At("create")
  BY <1>2 DEF At, Mkdir, WriteTouch, RemoveTouch, Creating, Logged, Placed, Touched
<1> HIDE DEF to
<1>7. to \in Holding => dbLock = p
  BY <1>6 DEF DirInv, LockHeld, Holding
<1>8. dirType' \in [Procs -> {"none", "dirMember", "dirEmpty"}]
  BY <1>2 DEF DirInv, DirTypeOK
<1> QED BY ZenonT(60), <1>0, <1>1, <1>2, <1>4, <1>5, <1>6, <1>7, <1>8, DirFrame DEF DirInv, TmpInv

\* IsDirWriteable: a .touch appears in wal.tmp only for whoever has the lock.
LEMMA WriteStep == ASSUME DirInv, NEW p \in Procs, NEW dir \in Touched, WriteFile(p, dir) PROVE DirInv'
<1> DEFINE to == RemoveTouch(dir)
<1>0. to \in Spots
  BY AreSpots DEF Stages, Touched, AfterTouch
<1>1. to # At("panicked")
  BY DEF At, Mkdir, WriteTouch, RemoveTouch, Touched
<1>2. /\ place[p] = WriteTouch(dir) /\ place' = [place EXCEPT ![p] = to] /\ UNCHANGED <<walFile, dbLock, dirType>>
      /\ disk' = disk \cup {Touch(dir)}
  BY DEF WriteFile, Advance
<1>3. /\ Wal("wal.tmp") \in disk' <=> Wal("wal.tmp") \in disk
      /\ dir # "wal.tmp" => (Touch("wal.tmp") \in disk' <=> Touch("wal.tmp") \in disk)
      /\ Db \in disk' <=> Db \in disk
      /\ disk \subseteq disk'
  BY <1>2 DEF Dir, Touch, Wal, Db, Touched
<1>4. /\ to \in Creating => place[p] \in Creating /\ to = RemoveTouch("wal.tmp")
      /\ to \in Logged => place[p] \in Logged
      /\ to \in Placed => place[p] \in Placed
      /\ to # At("create")
      /\ dir = "wal.tmp" => place[p] \in Creating
  BY <1>2 DEF At, Mkdir, WriteTouch, RemoveTouch, Creating, Logged, Placed, Touched
<1> HIDE DEF to
<1>5. (to \in Holding => dbLock = p) /\ (dir = "wal.tmp" => dbLock = p)
  BY <1>4 DEF DirInv, LockHeld, Holding
<1>6. dirType' \in [Procs -> {"none", "dirMember", "dirEmpty"}]
  BY <1>2 DEF DirInv, DirTypeOK
<1> QED BY ZenonT(60), <1>0, <1>1, <1>2, <1>3, <1>4, <1>5, <1>6, DirFrame DEF DirInv, TmpInv, MemberInv

\* IsDirWriteable: the file it wrote is gone, or the start fails and gives up db.
LEMMA RemoveStep == ASSUME DirInv, NEW p \in Procs, NEW dir \in Touched, Remove(p, dir) PROVE DirInv'
<1> DEFINE to == IF Touch(dir) \in disk THEN AfterTouch(dir) ELSE At("error")
<1>0. to \in Spots
  BY AreSpots DEF Stages, Touched, AfterTouch
<1>1. to # At("panicked")
  BY DEF At, Mkdir, WriteTouch, RemoveTouch, Touched, AfterTouch
<1>2. /\ place[p] = RemoveTouch(dir) /\ place' = [place EXCEPT ![p] = to] /\ UNCHANGED <<walFile, dirType>>
      /\ disk' = disk \ {Touch(dir)}
      /\ dbLock' = IF dbLock = p /\ Touch(dir) \notin disk THEN NoProc ELSE dbLock
  BY DEF Remove
<1>3. /\ Wal("wal.tmp") \in disk' <=> Wal("wal.tmp") \in disk
      /\ Touch("wal.tmp") \in disk' => Touch("wal.tmp") \in disk
      /\ dir = "wal.tmp" => Touch("wal.tmp") \notin disk'
      /\ Db \in disk' <=> Db \in disk
      /\ Dir("member") \in disk' <=> Dir("member") \in disk
  BY <1>2 DEF Dir, Touch, Wal, Db, Touched
<1>4. /\ to \in Creating => dir = "wal.tmp" /\ place[p] \in Creating
      /\ to \in Logged => place[p] \in Logged
      /\ to \in Placed => place[p] \in Placed
      /\ to # At("create")
      /\ to \in Creating \cup Logged => Touch(dir) \in disk
  BY <1>2 DEF At, Mkdir, WriteTouch, RemoveTouch, Creating, Logged, Placed, Touched, AfterTouch
<1> HIDE DEF to
<1>5. to \in Holding => dbLock' = p
  BY <1>2, <1>4 DEF DirInv, LockHeld, Holding
<1>6. dirType' \in [Procs -> {"none", "dirMember", "dirEmpty"}]
  BY <1>2 DEF DirInv, DirTypeOK
<1> QED BY ZenonT(60), <1>0, <1>1, <1>2, <1>3, <1>4, <1>5, <1>6, DirFrame DEF DirInv, TmpInv, MemberInv

\* bbolt: the lock on db is free when it is taken, and the directory is there.
LEMMA OpenStep == ASSUME DirInv, NEW p \in Procs, OpenBackend(p) PROVE DirInv'
<1> DEFINE to == At("create")
<1>0. to \in Spots
  BY AreSpots DEF Stages, Touched, AfterTouch
<1>1. to \notin Creating \cup Logged \cup Placed \cup {At("panicked")}
  BY DEF At, Mkdir, WriteTouch, RemoveTouch, Creating, Logged, Placed
<1>2. /\ place[p] = At("openBackend") /\ place' = [place EXCEPT ![p] = to] /\ UNCHANGED <<walFile, dirType>>
      /\ disk' = disk \cup {Db} /\ dbLock = NoProc /\ dbLock' = p
  BY DEF OpenBackend, Advance
<1>3. Dir("member") \in disk
  BY <1>2 DEF DirInv, MemberInv, Placed
<1>4. /\ Wal("wal.tmp") \in disk' <=> Wal("wal.tmp") \in disk
      /\ Touch("wal.tmp") \in disk' <=> Touch("wal.tmp") \in disk
      /\ disk \subseteq disk'
  BY <1>2 DEF Dir, Touch, Wal, Db
<1> HIDE DEF to
<1>5. dirType' \in [Procs -> {"none", "dirMember", "dirEmpty"}]
  BY <1>2 DEF DirInv, DirTypeOK
<1> QED BY ZenonT(60), <1>0, <1>1, <1>2, <1>3, <1>4, <1>5, DirAssumption, DirFrame

\* NewServer: the deferred Close gives back a lock that was its own.
LEMMA FailStep == ASSUME DirInv, NEW p \in Procs, BootstrapFails(p) PROVE DirInv'
<1> DEFINE to == At("error")
<1>0. to \in Spots
  BY AreSpots DEF Stages, Touched, AfterTouch
<1>1. to \notin Holding \cup Placed \cup {At("panicked")}
  BY DEF At, Mkdir, WriteTouch, RemoveTouch, Holding, Creating, Logged, Placed
<1>2. /\ place[p] = At("create") /\ place' = [place EXCEPT ![p] = to] /\ UNCHANGED <<disk, walFile, dirType>>
  BY DEF BootstrapFails, Advance
<1>3. dbLock = p
  BY <1>2 DEF DirInv, LockHeld, Holding
<1> HIDE DEF to
<1>4. dirType' \in [Procs -> {"none", "dirMember", "dirEmpty"}]
  BY <1>2 DEF DirInv, DirTypeOK
<1> QED BY ZenonT(60), <1>0, <1>1, <1>2, <1>3, <1>4, DirFrame DEF Holding

\* wal.Create: the temporary directory goes with all it holds.
LEMMA CreateStep == ASSUME DirInv, NEW p \in Procs, Create(p) PROVE DirInv'
<1> DEFINE to == Mkdir("wal.tmp")
<1>0. to \in Spots
  BY AreSpots DEF Stages, Touched, AfterTouch
<1>1. to \notin Logged \cup Placed \cup {At("panicked")}
  BY DEF At, Mkdir, WriteTouch, RemoveTouch, Logged, Placed
<1>2. /\ place[p] = At("create") /\ place' = [place EXCEPT ![p] = to] /\ UNCHANGED <<dbLock, dirType>>
      /\ disk' = disk \ ({Dir("wal.tmp")} \cup Content("wal.tmp"))
  BY DEF Create, Advance
<1>3. dbLock = p
  BY <1>2 DEF DirInv, LockHeld, Holding
<1>4. /\ Wal("wal.tmp") \notin disk' /\ Touch("wal.tmp") \notin disk'
      /\ Db \in disk' => Db \in disk
      /\ Dir("member") \in disk => Dir("member") \in disk'
  BY <1>2 DEF Dir, Touch, Wal, Db, Content
<1> HIDE DEF to
<1>5. dirType' \in [Procs -> {"none", "dirMember", "dirEmpty"}]
  BY <1>2 DEF DirInv, DirTypeOK
<1> QED BY ZenonT(60), <1>0, <1>1, <1>2, <1>3, <1>4, <1>5, DirFrame DEF DirInv, MemberInv

\* CreateDirAll: nothing is in the temporary directory.
LEMMA ReadDirStep == ASSUME DirInv, NEW p \in Procs, ReadDir(p) PROVE DirInv'
<1> DEFINE to == At("lockFile")
<1>0. to \in Spots
  BY AreSpots DEF Stages, Touched, AfterTouch
<1>1. to \notin Logged \cup Placed \cup {At("panicked")}
  BY DEF At, Mkdir, WriteTouch, RemoveTouch, Logged, Placed
<1>2. place[p] \in Creating \ {RemoveTouch("wal.tmp")}
  BY DEF At, Mkdir, WriteTouch, RemoveTouch, ReadDir, Creating
<1>3. Wal("wal.tmp") \notin disk /\ Touch("wal.tmp") \notin disk /\ dbLock = p
  BY <1>2 DEF DirInv, TmpInv, LockHeld, Holding
<1>4. Content("wal.tmp") = {}
  BY <1>3 DEF Content
<1>5. place' = [place EXCEPT ![p] = to] /\ UNCHANGED <<disk, walFile, dbLock, dirType>>
  BY <1>4 DEF ReadDir
<1> HIDE DEF to
<1>6. dirType' \in [Procs -> {"none", "dirMember", "dirEmpty"}]
  BY <1>5 DEF DirInv, DirTypeOK
<1> QED BY ZenonT(60), <1>0, <1>1, <1>3, <1>5, <1>6, DirFrame DEF DirInv, MemberInv

\* wal.Create: 0.wal appears, opened by whoever has the lock.
LEMMA LockFileStep == ASSUME DirInv, NEW p \in Procs, LockFile(p) PROVE DirInv'
<1> DEFINE to == Mkdir("member")
<1>0. to \in Spots
  BY AreSpots DEF Stages, Touched, AfterTouch
<1>1. to \notin Creating \cup Placed \cup {At("panicked")}
  BY DEF At, Mkdir, WriteTouch, RemoveTouch, Creating, Placed
<1>2. /\ place[p] = At("lockFile") /\ place' = [place EXCEPT ![p] = to] /\ UNCHANGED <<dbLock, dirType>>
      /\ disk' = disk \cup {Wal("wal.tmp")} /\ walFile' = p
  BY DEF LockFile, Advance
<1>3. dbLock = p
  BY <1>2 DEF DirInv, LockHeld, Holding, Creating
<1>4. Db \in disk' => Db \in disk
  BY <1>2 DEF Dir, Touch, Wal, Db
<1> HIDE DEF to
<1>5. dirType' \in [Procs -> {"none", "dirMember", "dirEmpty"}]
  BY <1>2 DEF DirInv, DirTypeOK
<1> QED BY ZenonT(60), <1>0, <1>1, <1>2, <1>3, <1>4, <1>5, DirFrame DEF DirInv, MemberInv

\* A crash frees the lock of the process that dies, and of no other.
LEMMA CrashStep == ASSUME DirInv, NEW p \in Procs, Crash(p) PROVE DirInv'
<1> DEFINE to == At("idle")
<1>0. to \in Spots
  BY AreSpots DEF Stages, Touched, AfterTouch
<1>1. to \notin Holding \cup Placed \cup {At("panicked")}
  BY DEF At, Mkdir, WriteTouch, RemoveTouch, Holding, Creating, Logged, Placed
<1>2. /\ place' = [place EXCEPT ![p] = to] /\ UNCHANGED <<disk, dirType>>
      /\ dbLock' = IF dbLock = p THEN NoProc ELSE dbLock
      /\ walFile' = IF walFile = p THEN NoProc ELSE walFile
  BY DEF Crash
<1> HIDE DEF to
<1>3. dirType' \in [Procs -> {"none", "dirMember", "dirEmpty"}]
  BY <1>2 DEF DirInv, DirTypeOK
<1> QED BY ZenonT(60), <1>0, <1>1, <1>2, <1>3, DirFrame DEF Holding

\* The steps of a start, of any process.
LEMMA DirStep == DirInv /\ [DirNext]_dirVars => DirInv'
<1> SUFFICES ASSUME DirInv, [DirNext]_dirVars PROVE DirInv'
  OBVIOUS
<1>1. CASE UNCHANGED dirVars
  BY <1>1 DEF dirVars, DirInv, DirTypeOK, LockHeld, TmpInv, MemberInv, CreateNeverPanics
<1>2. ASSUME NEW p \in Procs, IdentifyDataDir(p) \/ Step(p) \/ Crash(p) PROVE DirInv'
  BY <1>2, IdentifyStep, MkdirStep, WriteStep, RemoveStep, OpenStep, FailStep, CreateStep, ReadDirStep,
     LockFileStep, CrashStep DEF Step
<1> QED BY <1>1, <1>2 DEF DirNext

\* NewServer, startNode: the invariant holds, whichever processes start and crash.
LEMMA DirAlways == DirSpec => []DirInv
<1> QED BY DirInvInit, DirStep, PTL DEF DirSpec

\* wal.Create, CreateDirAll: wherever earlier starts crashed, and however many
\* processes start, the temporary directory is empty when the log is created.
THEOREM LogCanBeCreated == DirSpec => []CreateNeverPanics
<1>1. DirInv => CreateNeverPanics
  BY DEF DirInv
<1> QED BY <1>1, DirAlways, PTL

\* openBackend, wal.Create: a running server has the lock on db and its log.
THEOREM LogIsKept == DirSpec => []RunningKeepsItsLog
<1>1. DirInv => RunningKeepsItsLog
  BY DEF DirInv, LockHeld, TmpInv, RunningKeepsItsLog, Holding, Logged
<1> QED BY <1>1, DirAlways, PTL

\* A step of NewServer is one of a process that has started, and moves no other.
LEMMA StepMoves ==
  ASSUME NEW q \in Procs, Step(q), DOMAIN place = Procs
  PROVE  place[q] # At("idle") /\ \A r \in Procs : r # q => place'[r] = place[r]
<1> DEFINE Moves == place[q] # At("idle") /\ \A r \in Procs : r # q => place'[r] = place[r]
<1>1. ASSUME NEW dir \in Touched, MkdirAll(q, dir) PROVE Moves
  BY <1>1 DEF MkdirAll, Advance, At, Mkdir
<1>2. ASSUME NEW dir \in Touched, WriteFile(q, dir) PROVE Moves
  BY <1>2 DEF WriteFile, Advance, At, WriteTouch
<1>3. ASSUME NEW dir \in Touched, Remove(q, dir) PROVE Moves
  BY <1>3 DEF Remove, At, RemoveTouch
<1>4. ASSUME OpenBackend(q) PROVE Moves
  BY <1>4 DEF OpenBackend, Advance, At
<1>5. ASSUME BootstrapFails(q) \/ Create(q) PROVE Moves
  BY <1>5 DEF BootstrapFails, Create, Advance, At
<1>6. ASSUME ReadDir(q) PROVE Moves
  BY <1>6 DEF ReadDir, At
<1>7. ASSUME LockFile(q) PROVE Moves
  BY <1>7 DEF LockFile, Advance, At
<1>8. Moves
  <2> HIDE DEF Moves
  <2> QED BY ZenonT(60), <1>1, <1>2, <1>3, <1>4, <1>5, <1>6, <1>7 DEF Step
<1> QED BY <1>8

\* identifyDataDirOrDie: once there is a database, every start finds a member.
THEOREM LaterStartsAreMembers == DirSpec => SecondStartIsMember
<1>1. ASSUME DirInv, [DirNext]_dirVars, NEW p \in Procs, Db \in disk, place[p] = At("idle"), place'[p] # At("idle")
      PROVE  dirType'[p] = "dirMember"
  <2>1. PICK q \in Procs : IdentifyDataDir(q) \/ Step(q) \/ Crash(q)
    BY <1>1 DEF DirNext, dirVars
  <2>2. DOMAIN place = Procs /\ DOMAIN dirType = Procs /\ Dir("member") \in disk
    BY <1>1 DEF DirInv, DirTypeOK, MemberInv
  <2>3. \A r \in Procs : r # q => place'[r] = place[r]
    <3>1. CASE IdentifyDataDir(q) \/ Crash(q)
      BY <2>2, <3>1 DEF IdentifyDataDir, Crash, Advance
    <3> QED BY <2>1, <2>2, <3>1, StepMoves
  <2>4. q = p
    BY <1>1, <2>3
  <2>5. ~Crash(p)
    BY <1>1 DEF Crash
  <2>6. IdentifyDataDir(p)
    BY <1>1, <2>1, <2>2, <2>4, <2>5, StepMoves
  <2> QED BY <2>2, <2>6 DEF IdentifyDataDir
<1>2. DirInv /\ [DirNext]_dirVars =>
        [\A p \in Procs : Db \in disk /\ place[p] = At("idle") /\ place'[p] # At("idle") => dirType'[p] = "dirMember"]_dirVars
  BY <1>1
<1> QED BY <1>2, DirAlways, PTL DEF DirSpec, SecondStartIsMember

-----------------------------------------------------------------------------
(* Backend: locks and Close *)

\* Where a user can be.
UserTypeOK ==
  user \in [Users -> {"idle", "commit", "readLock", "unlock", "unlockTx", "begin", "snapshot", "stopping", "fatal"}]

\* Commit: batchTx's lock is held from CommitLock to the return, readTx's within it.
CommitInv ==
  \A u \in Users :
    /\ user[u] \in {"readLock", "unlock", "unlockTx"} <=> txLock = u
    /\ user[u] = "unlock" <=> readLock = u

\* run, Close: who waits for donec goes on only when run has ended.
RunInv ==
  /\ donec => runner = "ended"
  /\ main \in {"dbClose", "closed"} => donec
  /\ runner # "none" <=> opener \in {"send", "ended"}
  /\ main \notin {"select", "receive"} => opener = "ended"

\* backend.Close: the database is closed, and begins to be, only after run has ended.
RunEndsBeforeDb == main \in {"dbClose", "closed"} => runner = "ended"

\* batchTxBuffered.Commit: whoever has batchTx's lock finds readTx's free or has it
\* already, so the second lock is never waited for.
SecondLockIsFree == \A u \in Users : user[u] = "readLock" => readLock = Nobody

\* The inductive invariant.
BackendInv ==
  /\ UserTypeOK /\ CommitInv /\ RunInv
  /\ readLock \in Users \cup {Nobody} /\ txLock \in Users \cup {Nobody}

\* openBackend begins with no lock held and no transaction.
LEMMA BackendInvInit == BackendInit => BackendInv
  BY UsersAssumption DEF BackendInit, BackendInv, UserTypeOK, CommitInv, RunInv

\* openBackend, run and Close leave the users alone.
LEMMA MainStep ==
  ASSUME BackendInv,
         NewBackend \/ OpenPanics \/ Timeout \/ Receive \/ RunTimer \/ RunReset \/ RunStops \/ Close \/ CloseWait \/ CloseDb
  PROVE  BackendInv'
<1>1. UNCHANGED <<lockVars, snapVars>>
  BY DEF NewBackend, OpenPanics, Timeout, Receive, RunTimer, RunReset, RunStops, Close, CloseWait, CloseDb
<1>2. UserTypeOK' /\ CommitInv' /\ readLock' \in Users \cup {Nobody} /\ txLock' \in Users \cup {Nobody}
  BY <1>1 DEF BackendInv, UserTypeOK, CommitInv, lockVars, snapVars
<1>3. RunInv'
  BY DEF BackendInv, RunInv, NewBackend, OpenPanics, Timeout, Receive, RunTimer, RunReset, RunStops, Close, CloseWait, CloseDb,
     openVars, runVars
<1> QED BY <1>2, <1>3 DEF BackendInv

\* ForceCommit and Snapshot, of any user.
LEMMA UserStepKeeps ==
  ASSUME BackendInv, NEW u \in Users, Commit(u) \/ UserStep(u) \/ WatcherStops(u) PROVE BackendInv'
<1> USE UsersAssumption
<1>1. UNCHANGED <<openVars, runVars, db>>
  BY ZenonT(60) DEF Commit, UserStep, WatcherStops, CommitLock, CommitReadLock, CommitUnlock, CommitReturns, Begin, BeginFails,
     SnapshotClose, Rollback
<1>2. RunInv'
  BY <1>1 DEF BackendInv, RunInv, openVars, runVars
<1>3. UserTypeOK'
  BY ZenonT(60) DEF BackendInv, UserTypeOK, Commit, UserStep, WatcherStops, CommitLock, CommitReadLock, CommitUnlock,
     CommitReturns, Begin, BeginFails, SnapshotClose, Rollback, Goto
<1>4. CommitInv' /\ readLock' \in Users \cup {Nobody} /\ txLock' \in Users \cup {Nobody}
  <2> USE DEF BackendInv, UserTypeOK, CommitInv
  <2>1. CASE Commit(u) \/ BeginFails(u) \/ SnapshotClose(u) \/ WatcherStops(u) \/ Begin(u) \/ Rollback(u)
    BY <2>1 DEF Commit, BeginFails, SnapshotClose, WatcherStops, Begin, Rollback, Goto, lockVars
  <2>2. CASE CommitLock(u)
    BY <2>2 DEF CommitLock, Goto
  <2>3. CASE CommitReadLock(u)
    BY <2>3 DEF CommitReadLock, Goto
  <2>4. CASE CommitUnlock(u)
    BY <2>4 DEF CommitUnlock, Goto
  <2>5. CASE CommitReturns(u)
    BY <2>5 DEF CommitReturns, Goto
  <2> QED BY ZenonT(60), <2>1, <2>2, <2>3, <2>4, <2>5 DEF UserStep
<1> QED BY <1>2, <1>3, <1>4 DEF BackendInv

\* The goroutine of NewServer, openBackend and run, and the users.
LEMMA BackendStep == BackendInv /\ [BackendNext]_backendVars => BackendInv'
<1>1. BackendInv /\ UNCHANGED backendVars => BackendInv'
  BY DEF backendVars, openVars, runVars, lockVars, snapVars, BackendInv, UserTypeOK, CommitInv, RunInv
<1> QED BY <1>1, MainStep, UserStepKeeps DEF BackendNext

\* newBackend: the invariant holds, however the goroutines interleave.
LEMMA BackendAlways == BackendSpec => []BackendInv
<1> QED BY BackendInvInit, BackendStep, PTL DEF BackendSpec

\* batchTxBuffered.Commit: no one waits for readTx's lock with batchTx's in hand.
THEOREM SecondLockAlwaysFree == BackendSpec => []SecondLockIsFree
<1>1. BackendInv => SecondLockIsFree
  BY UsersAssumption DEF BackendInv, CommitInv, UserTypeOK, SecondLockIsFree
<1> QED BY <1>1, BackendAlways, PTL

\* backend.Close, run: by the time the database is closed, run has ended.
THEOREM RunEndsFirst == BackendSpec => []RunEndsBeforeDb
<1>1. BackendInv => RunEndsBeforeDb
  BY DEF BackendInv, RunInv, RunEndsBeforeDb
<1> QED BY <1>1, BackendAlways, PTL
=============================================================================
