------------------------------- MODULE Startup -------------------------------
(***************************************************************************)
(* A start of the etcd process: startEtcdOrProxyV2 and startEtcd of        *)
(* etcdmain, StartEtcd of embed, the goroutines that serve the listeners,  *)
(* and the server of ServerLifecycle, which the main goroutine starts and  *)
(* waits for.  Every step that can fail may fail.                          *)
(*                                                                         *)
(* External: the network (a listener opens or not, and may fail later),    *)
(* NewServer's outcome, and cmux: when its listener fails, so do the       *)
(* listeners matched from it.  TLS material is either there or not.        *)
(* Signals are the subject of Interrupts.                                  *)
(***************************************************************************)
EXTENDS ServerLifecycle, FiniteSets

CONSTANTS
  LPUrls,     \* number of peer URLs to listen on
  UrlLists    \* lists of client URLs to listen on, of records [addr, scheme]

ASSUME UrlsAssumption ==
  /\ LPUrls \in Nat
  /\ \A urls \in UrlLists :
       urls \in Seq([addr : {urls[k].addr : k \in DOMAIN urls}, scheme : {"http", "https", "unix", "unixs"}])

VARIABLES
  pc,        \* the main goroutine
  which,     \* what identifyDataDirOrDie finds
  proxy,     \* was the process started as a proxy
  tls,       \* is there a certificate for clients
  LCUrls,    \* --listen-client-urls
  i,         \* position in the list of URLs being opened
  listening, \* open listeners
  deferred,  \* listeners that a deferred function of configureClientListeners closes
  sctxs,     \* per client address: does it serve secure, insecure traffic
  closedC,   \* the addresses whose serversC is closed
  goroutine, \* per goroutine that serves: where it is
  failed,    \* listeners that have failed
  errc,      \* number of errors in the channel
  keeps      \* does main have errc and the channel of StopNotify

confVars == <<which, proxy, tls, LCUrls>>
listenVars == <<i, listening, deferred, sctxs>>
serveVars == <<goroutine, failed, errc>>
embedVars == <<pc, confVars, listenVars, closedC, serveVars, keeps>>
vars == <<embedVars, lifecycleVars>>

Addrs == UNION {{urls[k].addr : k \in DOMAIN urls} : urls \in UrlLists}
Peers == {<<"peer", k>> : k \in 1..LPUrls}
Clients == {<<"client", a>> : a \in Addrs}
NoCtx == [secure |-> FALSE, insecure |-> FALSE]
Contexts == {a \in Addrs : sctxs[a] # NoCtx}   \* e.sctxs

\* What runs for a client address: serve itself, the gRPC and the HTTP server.
Parts == {"serve", "grpc", "http"}
Goroutines == Peers \cup {<<p, a>> : p \in Parts, a \in Addrs}
ListenerOf(g) == IF g[1] = "peer" THEN g ELSE <<"client", g[2]>>

Init ==
  /\ pc = "identify" /\ which \in {"dirEmpty", "dirMember", "dirProxy"}
  /\ proxy \in BOOLEAN /\ tls \in BOOLEAN /\ LCUrls \in UrlLists
  /\ i = 1 /\ listening = {} /\ deferred = {} /\ sctxs = [a \in Addrs |-> NoCtx] /\ closedC = {}
  /\ goroutine = [g \in Goroutines |-> "off"]
  /\ failed = {} /\ errc = 0 /\ keeps = FALSE
  /\ LifecycleInit

MainGoes(from, to) == pc = from /\ pc' = to

\* startEtcdOrProxyV2 looks at the data directory.
Identify ==
  /\ pc = "identify"
  /\ pc' = IF which = "dirMember" \/ (which = "dirEmpty" /\ ~proxy) THEN "validate" ELSE "handle"
  /\ UNCHANGED <<confVars, listenVars, closedC, serveVars, keeps, lifecycleVars>>

\* Validate of the configuration, before there is anything to clean up.
Validate ==
  /\ pc = "validate" /\ pc' \in {"peerTLS", "handle"}
  /\ UNCHANGED <<confVars, listenVars, closedC, serveVars, keeps, lifecycleVars>>

\* configurePeerListeners: cipher suites, then one listener per URL.  PeerSelfCert
\* does nothing.
PeerTLS ==
  /\ pc = "peerTLS" /\ pc' \in {"peers", "failed"}
  /\ UNCHANGED <<confVars, listenVars, closedC, serveVars, keeps, lifecycleVars>>

PeerListen ==
  /\ pc = "peers" /\ i <= LPUrls
  /\ listening' = listening \cup {<<"peer", i>>} /\ i' = i + 1
  /\ UNCHANGED <<pc, confVars, deferred, sctxs, closedC, serveVars, keeps, lifecycleVars>>

\* return nil, err: the deferred loop over peers finds nil and closes nothing.
PeerListenFails ==
  /\ MainGoes("peers", "failed") /\ i <= LPUrls
  /\ UNCHANGED <<confVars, listenVars, closedC, serveVars, keeps, lifecycleVars>>

PeersReturn ==
  /\ MainGoes("peers", "clientTLS") /\ i > LPUrls
  /\ i' = 1
  /\ UNCHANGED <<confVars, listening, deferred, sctxs, closedC, serveVars, keeps, lifecycleVars>>

\* configureClientListeners: cipher suites.  When no certificate can be made for
\* automatic TLS, the process ends (logger.Fatal).
ClientTLS ==
  /\ pc = "clientTLS" /\ pc' \in {"clients", "failed", "exited"}
  /\ UNCHANGED <<confVars, listenVars, closedC, serveVars, keeps, lifecycleVars>>

Url == LCUrls[i]
Secure == Url.scheme \in {"https", "unixs"}
Network == IF Url.scheme \in {"unix", "unixs"} THEN "unix" ELSE "tcp"
Refused == Secure /\ ~tls   \* https without a certificate

\* return nil, err: the deferred functions run, and the map is not returned.
ClientsFail ==
  /\ pc' = "failed"
  /\ listening' = listening \ deferred /\ deferred' = {}
  /\ sctxs' = [a \in Addrs |-> NoCtx]
  /\ UNCHANGED i

\* sctx.secure, sctx.insecure, merged into a context that is there.
AddScheme ==
  /\ sctxs' = [sctxs EXCEPT ![Url.addr] = [secure |-> @.secure \/ Secure, insecure |-> @.insecure \/ ~Secure]]
  /\ i' = i + 1

\* The address is known: one more scheme.
ClientMerge ==
  /\ pc = "clients" /\ i <= Len(LCUrls) /\ ~Refused /\ Url.addr \in Contexts
  /\ AddScheme
  /\ UNCHANGED <<pc, confVars, listening, deferred, closedC, serveVars, keeps, lifecycleVars>>

\* The address is new: net.Listen.
ClientListen ==
  /\ MainGoes("clients", "listened") /\ i <= Len(LCUrls) /\ ~Refused /\ Url.addr \notin Contexts
  /\ listening' = listening \cup {<<"client", Url.addr>>}
  /\ UNCHANGED <<confVars, i, deferred, sctxs, closedC, serveVars, keeps, lifecycleVars>>

\* A refused URL, or net.Listen fails.
ClientListenFails ==
  /\ pc = "clients" /\ i <= Len(LCUrls)
  /\ Refused \/ Url.addr \notin Contexts
  /\ ClientsFail
  /\ UNCHANGED <<confVars, closedC, serveVars, keeps, lifecycleVars>>

\* The limit on file descriptors is too low: logger.Fatal.
FDLimitTooLow ==
  /\ MainGoes("listened", "exited")
  /\ UNCHANGED <<confVars, listenVars, closedC, serveVars, keeps, lifecycleVars>>

\* Mistake: the scheme of the URL is passed, as the parameter's name suggests.
KeepAliveSchemeOfUrl == Url.scheme

\* What configureClientListeners passes as scheme, and nil as the TLS configuration.
KeepAliveScheme == Network

\* NewKeepAliveListener fails on TLS without a configuration.
KeepAliveFails == Network = "tcp" /\ KeepAliveScheme = "https"

\* The listener is wrapped, the function that closes it is deferred, and the context
\* enters the map.  An error before the defer leaves the listener open.
ClientDefer ==
  /\ pc = "listened"
  /\ IF KeepAliveFails
     THEN ClientsFail
     ELSE /\ pc' = "clients"
          /\ deferred' = deferred \cup {<<"client", Url.addr>>}
          /\ AddScheme /\ UNCHANGED listening
  /\ UNCHANGED <<confVars, closedC, serveVars, keeps, lifecycleVars>>

\* return sctxs, nil: the deferred functions find no error.
ClientsReturn ==
  /\ MainGoes("clients", "newServer") /\ i > Len(LCUrls)
  /\ deferred' = {}
  /\ UNCHANGED <<confVars, i, listening, sctxs, closedC, serveVars, keeps, lifecycleVars>>

NewServer ==
  /\ pc = "newServer" /\ pc' \in {"server.Start", "failed"}
  /\ UNCHANGED <<confVars, listenVars, closedC, serveVars, keeps, lifecycleVars>>

\* The deferred function of StartEtcd: serversC of e.sctxs are closed; e.Close is
\* empty.
StartFailed ==
  /\ MainGoes("failed", "handle")
  /\ closedC' = Contexts
  /\ UNCHANGED <<confVars, listenVars, serveVars, keeps, lifecycleVars>>

\* EtcdServer.Start runs in the main goroutine.
StartServer ==
  /\ pc = "server.Start" /\ Starter
  /\ UNCHANGED embedVars

ServePeers ==
  /\ MainGoes("server.Start", "serveClients") /\ start.jobs = <<>> /\ start.pc = "rlock"
  /\ goroutine' = [g \in Goroutines |-> IF g \in Peers THEN "serving" ELSE goroutine[g]]
  /\ UNCHANGED <<confVars, listenVars, closedC, failed, errc, keeps, lifecycleVars>>

\* Mistake: serveClients reports an error after it has started its goroutines.
ServeClientsThenFails ==
  /\ pc = "serveClients" /\ pc' \in {"await", "failed"}
  /\ goroutine' = [g \in Goroutines |->
                     IF g[1] = "serve" /\ g[2] \in Contexts THEN "waiting" ELSE goroutine[g]]
  /\ UNCHANGED <<confVars, listenVars, closedC, failed, errc, keeps, lifecycleVars>>

ServeClients ==
  /\ MainGoes("serveClients", "await")
  /\ goroutine' = [g \in Goroutines |->
                     IF g[1] = "serve" /\ g[2] \in Contexts THEN "waiting" ELSE goroutine[g]]
  /\ UNCHANGED <<confVars, listenVars, closedC, failed, errc, keeps, lifecycleVars>>

\* startEtcd waits for the server.  Its channels reach main's variables only in
\* the case dirMember.
Await ==
  /\ MainGoes("await", "handle") /\ (readych \/ done)
  /\ keeps' = (which = "dirMember")
  /\ UNCHANGED <<confVars, listenVars, closedC, serveVars, lifecycleVars>>

\* HandleInterrupts and notifySystemd, whatever startEtcd returned.
Handle ==
  /\ MainGoes("handle", "wait")
  /\ UNCHANGED <<confVars, listenVars, closedC, serveVars, keeps, lifecycleVars>>

\* The last select of main.  A nil channel is never ready.
WaitErr ==
  /\ MainGoes("wait", "exited") /\ keeps /\ errc > 0
  /\ errc' = errc - 1
  /\ UNCHANGED <<confVars, listenVars, closedC, goroutine, failed, keeps, lifecycleVars>>

Main ==
  \/ Identify \/ Validate \/ PeerTLS \/ PeerListen \/ PeerListenFails \/ PeersReturn
  \/ ClientTLS \/ ClientMerge \/ ClientListen \/ ClientListenFails \/ FDLimitTooLow \/ ClientDefer
  \/ ClientsReturn \/ NewServer
  \/ StartFailed \/ StartServer \/ ServePeers \/ ServeClients \/ Await \/ Handle \/ WaitErr

Running == pc # "exited"

\* serve, and two more goroutines for insecure traffic.
Launched(a) ==
  {<<"serve", a>>} \cup {<<p, a>> : p \in IF sctxs[a].insecure THEN {"grpc", "http"} ELSE {}}

\* serve goes on when the server is ready; *servers is sent on serversC, which
\* has room for two.
Serve(a) ==
  /\ Running /\ goroutine[<<"serve", a>>] = "waiting" /\ readych
  /\ goroutine' = [g \in Goroutines |-> IF g \in Launched(a) THEN "serving" ELSE goroutine[g]]
  /\ UNCHANGED <<pc, confVars, listenVars, closedC, failed, errc, keeps, lifecycleVars>>

\* registerGateway fails: serve returns the error and stops the gRPC server.
GatewayFails(a) ==
  /\ Running /\ goroutine[<<"serve", a>>] = "waiting" /\ readych /\ sctxs[a].insecure
  /\ goroutine' = [goroutine EXCEPT ![<<"serve", a>>] = "errHandler", ![<<"grpc", a>>] = "errHandler"]
  /\ UNCHANGED <<pc, confVars, listenVars, closedC, failed, errc, keeps, lifecycleVars>>

\* External: a listener in use fails.
ListenerFails(l) ==
  /\ Running /\ l \in listening \ failed /\ \E g \in Goroutines : ListenerOf(g) = l /\ goroutine[g] = "serving"
  /\ failed' = failed \cup {l}
  /\ UNCHANGED <<pc, confVars, listenVars, closedC, goroutine, errc, keeps, lifecycleVars>>

\* Serve returns to the goroutine, which calls errHandler.
ServeReturns(g) ==
  /\ Running /\ goroutine[g] = "serving" /\ ListenerOf(g) \in failed
  /\ goroutine' = [goroutine EXCEPT ![g] = "errHandler"]
  /\ UNCHANGED <<pc, confVars, listenVars, closedC, failed, errc, keeps, lifecycleVars>>

\* make(chan error, len(e.Peers)+len(e.Clients)+2*len(e.sctxs)); e.Clients is nil.
ErrcCapacity == LPUrls + 2 * Cardinality(Contexts)

\* Mistake: errHandler has a default case, and it is always taken.
DropErr(g) ==
  /\ Running /\ goroutine[g] = "errHandler"
  /\ goroutine' = [goroutine EXCEPT ![g] = "done"]
  /\ UNCHANGED <<pc, confVars, listenVars, closedC, failed, errc, keeps, lifecycleVars>>

\* errHandler: stopc is closed by nobody, so it waits for room in errc.
ErrHandler(g) ==
  /\ Running /\ goroutine[g] = "errHandler" /\ errc < ErrcCapacity
  /\ goroutine' = [goroutine EXCEPT ![g] = "done"]
  /\ errc' = errc + 1
  /\ UNCHANGED <<pc, confVars, listenVars, closedC, failed, keeps, lifecycleVars>>

ServerStep ==
  /\ Running
  /\ \/ AdjustTicks \/ Publish \/ Run
     \/ \E t \in Stoppers : StopDelay(t) \/ StopSend(t)
  /\ UNCHANGED embedVars

Next ==
  \/ Main
  \/ ServerStep
  \/ \E a \in Addrs : Serve(a) \/ GatewayFails(a)
  \/ \E l \in Peers \cup Clients : ListenerFails(l)
  \/ \E g \in Goroutines : ServeReturns(g) \/ ErrHandler(g)

Spec == Init /\ [][Next]_vars

\* Goroutines that can run are run.  Listeners need not fail.
Fairness ==
  /\ WF_vars(Main)
  /\ WF_vars(Running /\ (AdjustTicks \/ Publish) /\ UNCHANGED embedVars)
  /\ WF_vars(Running /\ Run /\ UNCHANGED embedVars)
  /\ \A a \in Addrs : WF_vars(Serve(a) \/ GatewayFails(a))
  /\ \A g \in Goroutines : WF_vars(ServeReturns(g) \/ ErrHandler(g))

FairSpec == Spec /\ Fairness

-----------------------------------------------------------------------------

\* configureClientListeners: when it returns an error, and so no contexts, every
\* client listener it had opened is closed again, whichever URL failed and at
\* whichever call: no error is returned between net.Listen and the defer that closes
\* what it opened.
ClientListenersClosed ==
  pc \in {"failed", "handle", "wait"} /\ Contexts = {} => listening \cap Clients = {}

\* StartEtcd: serversC is closed only for contexts that no goroutine serves; serve
\* would panic when it sends on a closed channel.
NoSendOnClosedChannel ==
  \A a \in closedC : goroutine[<<"serve", a>>] = "off"

\* errHandler, startEtcdOrProxyV2: a process that was started on an existing data
\* directory ends when one of its listeners fails, although the goroutines that
\* report errors outnumber the places in errc.
RestartedEndsOnError ==
  pc = "wait" /\ keeps /\ failed # {} ~> ~Running

\* startEtcdOrProxyV2, last select: "阻塞 监听是否有错误或停止了 / 有则退出程序"
\* (block until there is an error or it has stopped, then leave the program).
ErrorEndsProcess == pc = "wait" /\ failed # {} ~> ~Running

=============================================================================
