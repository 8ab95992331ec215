------------------------- MODULE InterceptorProcess -------------------------
(***************************************************************************)
(* The interceptor from its start to its exit (interceptor/main.go): the   *)
(* goroutines of main's errgroup, the HTTP servers and the goroutines that *)
(* shut them down (pkg/http/server.go), the readiness probe                *)
(* (interceptor/handler/probe.go), and requests from the accepted          *)
(* connection to the answer, with the routing, the port lookup and the     *)
(* dials, as far as these depend on what has started or is about to end.   *)
(*                                                                         *)
(* The routing table is here whether it has published a memory, which then *)
(* has the route of every app.  Waiting for endpoints is one step:         *)
(* ForwardWait has it in detail, as Interceptor has the table and the      *)
(* counts.  Signals, the API server, net/http and client-go are external;  *)
(* so are clients, who may leave at any time.                              *)
(***************************************************************************)
EXTENDS DialRetry, CertStore

CONSTANTS Configs,    \* the configurations: which optional goroutines there
                      \* are, the certificate files and the default
          ServerNames \* names that clients ask for

ASSUME ProcessAssumption ==
    /\ NoName \notin ServerNames
    /\ \A c \in Configs : c.parts \subseteq {"metrics", "tls", "pprof"} /\ IsFiniteSet(c.store)

VARIABLES
    config,     \* the configuration
    process,    \* where main is
    ctxDone,    \* the context of the errgroup is done
    goroutine,  \* the goroutines of the errgroup
    shut,       \* servers that were told to shut down
    certs,      \* uriDomainsToCerts
    memory,     \* the routing table has published a memory
    probing,    \* proxies whose probe loop runs
    healthy,    \* proxies whose probe is healthy
    request,    \* the requests
    ready       \* a probe was answered with 200 (history)

mainVars == <<process, ctxDone, goroutine, shut, certs>>
probeVars == <<probing, healthy, ready>>
vars == <<config, mainVars, memory, probeVars, request, dialVars>>

Proxies == {"proxy"} \cup (config.parts \cap {"tls"})
Servers == Proxies \cup {"admin"} \cup (config.parts \cap {"metrics"})
Goroutines == Servers \cup {"endpoints", "table"} \cup (config.parts \cap {"pprof"})

NoRequest == [at |-> "none"]

TypeOK ==
    /\ DialTypeOK
    /\ config \in Configs
    /\ process \in {"setup", "running", "exited"}
    /\ {ctxDone, memory, ready} \subseteq BOOLEAN
    /\ goroutine \in [Goroutines -> {"sync", "opening", "running", "closing", "ended"}]
    /\ shut \subseteq Servers
    /\ \A n \in DOMAIN certs : certs[n] \in config.default \cup CertFiles(config.store)
    /\ healthy \subseteq Proxies /\ probing \subseteq Proxies
    /\ request \in [Requests -> {NoRequest} \cup
                      [at : {"accepted"}, proxy : Proxies] \cup [at : {"routed", "dialling"}]]

Init ==
    /\ DialInit
    /\ config \in Configs
    /\ process = "setup" /\ ctxDone = FALSE
    /\ goroutine = [p \in Goroutines |-> IF p \in Proxies THEN "sync"
                                         ELSE IF p \in {"endpoints", "table"} THEN "running"
                                         ELSE "opening"]
    /\ shut = {} /\ certs = <<>> /\ memory = FALSE
    /\ probing = {} /\ healthy = {} /\ ready = FALSE
    /\ request = [r \in Requests |-> NoRequest]
-----------------------------------------------------------------------------
(* main up to the errgroup: the configuration is valid and the clients can *)
(* be made, or the deferred os.Exit ends the process.                      *)
Setup ==
    /\ process = "setup"
    /\ process' \in {"running", "exited"}
    /\ UNCHANGED <<config, ctxDone, goroutine, shut, certs, memory, probeVars,
                   request, dialVars>>

Running == process = "running"

(* The first signal, which SetupSignalHandler turns into a cancellation.   *)
Signal ==
    /\ Running /\ ~ctxDone
    /\ ctxDone' = TRUE
    /\ UNCHANGED <<config, process, goroutine, shut, certs, memory, probeVars,
                   request, dialVars>>

(* A goroutine returns; an error that IsIgnoredErr does not know cancels   *)
(* the context of the others.                                              *)
Ends(p, error) ==
    /\ goroutine' = [goroutine EXCEPT ![p] = "ended"]
    /\ ctxDone' = (ctxDone \/ error)

(* endpointsCache.Start returns when the context is done.  Only then the   *)
(* informer of Services is started, too late to list any.                  *)
EndpointsEnd ==
    /\ Running /\ ctxDone /\ goroutine["endpoints"] = "running"
    /\ Ends("endpoints", FALSE)
    /\ UNCHANGED <<config, process, shut, certs, memory, probeVars, request,
                   dialVars>>

(* refreshMemory publishes its first memory.                               *)
TableSync ==
    /\ Running /\ goroutine["table"] = "running" /\ ~memory
    /\ memory' = TRUE
    /\ UNCHANGED <<config, mainVars, probeVars, request, dialVars>>

(* Start of the table returns the error of the context, which is ignored.  *)
TableEnd ==
    /\ Running /\ ctxDone /\ goroutine["table"] = "running"
    /\ Ends("table", FALSE)
    /\ UNCHANGED <<config, process, shut, certs, memory, probeVars, request,
                   dialVars>>
-----------------------------------------------------------------------------
(* Faulty variant: every informer is waited for, started or not.           *)
CachesSyncedAll == ctxDone

(* WaitForCacheSync of the factory for Services: it waits for informers    *)
(* that were started, until they are synced or the context is done.        *)
CachesSynced == goroutine["endpoints"] # "ended" \/ ctxDone

(* runProxyServer up to ServeContext, which starts the goroutine that      *)
(* shuts the server down.  The TLS proxy loads its certificates first; if  *)
(* a file cannot be read or does not fit, os.Exit ends the process.        *)
RunProxyServer(p) ==
    /\ Running /\ goroutine[p] = "sync" /\ CachesSynced
    /\ \/ /\ p = "tls" => Loads(config.store)
          /\ goroutine' = [goroutine EXCEPT ![p] = "opening"]
          /\ probing' = probing \cup {p}
          /\ IF p = "tls" THEN \E order \in Orders(config.default, config.store) : certs' = AddCerts(order)
             ELSE UNCHANGED certs
          /\ UNCHANGED process
       \/ p = "tls" /\ process' = "exited" /\ UNCHANGED <<goroutine, certs, probing>>
    /\ UNCHANGED <<config, ctxDone, shut, memory, healthy, ready, request, dialVars>>

(* Faulty variant: a server shut down before it listens serves all the     *)
(* same.                                                                   *)
ListenAfterShutdown(p) ==
    /\ Running /\ goroutine[p] = "opening"
    /\ \/ Ends(p, TRUE)
       \/ goroutine' = [goroutine EXCEPT ![p] = "running"] /\ UNCHANGED ctxDone
    /\ UNCHANGED <<config, process, shut, certs, memory, probeVars, request, dialVars>>

(* ListenAndServe: the server was shut down before it came here, the port  *)
(* cannot be had, or it serves.                                            *)
Listen(p) ==
    /\ Running /\ goroutine[p] = "opening"
    /\ \/ Ends(p, p \notin shut)
       \/ /\ p \notin shut
          /\ goroutine' = [goroutine EXCEPT ![p] = "running"]
          /\ UNCHANGED ctxDone
    /\ UNCHANGED <<config, process, shut, certs, memory, probeVars, request, dialVars>>

(* The goroutine of ServeContext calls Shutdown, which closes the listener *)
(* and waits for the open requests.                                        *)
Shutdown(p) ==
    /\ Running /\ ctxDone
    /\ p \notin shut /\ goroutine[p] \in {"opening", "running"}
    /\ shut' = shut \cup {p}
    /\ goroutine' = IF goroutine[p] = "running" THEN [goroutine EXCEPT ![p] = "closing"]
                    ELSE goroutine
    /\ UNCHANGED <<config, process, ctxDone, certs, memory, probeVars, request, dialVars>>

(* ListenAndServe returns ErrServerClosed as soon as the listener is       *)
(* closed, whatever requests are open.                                     *)
ServeReturns(p) ==
    /\ Running /\ goroutine[p] = "closing"
    /\ Ends(p, FALSE)
    /\ UNCHANGED <<config, process, shut, certs, memory, probeVars, request, dialVars>>

(* The server for profiles fails to listen, or serves for ever: nothing    *)
(* shuts it down.                                                          *)
Pprof ==
    /\ Running /\ "pprof" \in config.parts /\ goroutine["pprof"] = "opening"
    /\ \/ Ends("pprof", TRUE)
       \/ goroutine' = [goroutine EXCEPT !["pprof"] = "running"] /\ UNCHANGED ctxDone
    /\ UNCHANGED <<config, process, shut, certs, memory, probeVars, request, dialVars>>

(* Wait returns when every goroutine has, and main ends.                   *)
Exit ==
    /\ Running /\ \A p \in Goroutines : goroutine[p] = "ended"
    /\ process' = "exited"
    /\ UNCHANGED <<config, ctxDone, goroutine, shut, certs, memory, probeVars, request,
                   dialVars>>
-----------------------------------------------------------------------------
(* Faulty variant: a probe that cannot check says it is healthy.           *)
CheckOptimistic(p) ==
    /\ Running /\ p \in probing
    /\ healthy' = healthy \cup {p}
    /\ UNCHANGED <<config, mainVars, memory, probing, ready, request, dialVars>>

(* check of a probe, at once and then every second: is there a memory?     *)
Check(p) ==
    /\ Running /\ p \in probing
    /\ healthy' = IF memory THEN healthy \cup {p} ELSE healthy \ {p}
    /\ UNCHANGED <<config, mainVars, memory, probing, ready, request, dialVars>>

ProbeStop(p) ==
    /\ Running /\ ctxDone /\ p \in probing
    /\ probing' = probing \ {p}
    /\ UNCHANGED <<config, mainVars, memory, healthy, ready, request, dialVars>>
-----------------------------------------------------------------------------
(* A server takes a connection, with TLS when there is a certificate.      *)
Accept(r, p) ==
    /\ Running /\ p \in Proxies /\ goroutine[p] = "running"
    /\ request[r] = NoRequest
    /\ p = "tls" => \E n \in ServerNames \cup {NoName} : Shown(certs, config.default, n) # {}
    /\ request' = [request EXCEPT ![r] = [at |-> "accepted", proxy |-> p]]
    /\ UNCHANGED <<config, mainVars, memory, probeVars, dialVars>>

(* The handler has answered.                                               *)
Answered(r) == request' = [request EXCEPT ![r] = NoRequest]

(* The request is a probe, which has no route: 200 or 503.                 *)
ServeProbe(r) ==
    /\ Running /\ request[r].at = "accepted"
    /\ Answered(r)
    /\ ready' = (ready \/ request[r].proxy \in healthy)
    /\ UNCHANGED <<config, mainVars, memory, probing, healthy, dialVars>>

(* Without a memory there is no route to any app: 404.                     *)
NotFound(r) ==
    /\ Running /\ request[r].at = "accepted" /\ ~memory
    /\ Answered(r)
    /\ UNCHANGED <<config, mainVars, memory, probeVars, dialVars>>

Route(r) ==
    /\ Running /\ request[r].at = "accepted" /\ memory
    /\ request' = [request EXCEPT ![r] = [at |-> "routed"]]
    /\ UNCHANGED <<config, mainVars, memory, probeVars, dialVars>>

(* The port is looked up (in a cache of Services that is empty, then at    *)
(* the API server) and the workload is waited for: 500, 502 or a dial.     *)
NotForwarded(r) ==
    /\ Running /\ request[r].at = "routed"
    /\ Answered(r)
    /\ UNCHANGED <<config, mainVars, memory, probeVars, dialVars>>

Forward(r) ==
    /\ Running /\ request[r].at = "routed"
    /\ request' = [request EXCEPT ![r] = [at |-> "dialling"]]
    /\ DialStart(r)
    /\ UNCHANGED <<config, mainVars, memory, probeVars>>

Dial(r) ==
    /\ Running
    /\ DialConnects(r) \/ DialFails(r) \/ DialWakes(r) \/ DialCancelled(r)
    /\ UNCHANGED <<config, mainVars, memory, probeVars, request>>

(* The workload answers, or the error handler of the proxy: 502.           *)
Respond(r) ==
    /\ Running /\ dial[r].at \in {"conn", "error"}
    /\ Answered(r) /\ DialEnd(r)
    /\ UNCHANGED <<config, mainVars, memory, probeVars>>
-----------------------------------------------------------------------------
RequestStep(r) ==
    \/ ServeProbe(r) \/ NotFound(r) \/ Route(r) \/ NotForwarded(r) \/ Forward(r) \/ Dial(r)
    \/ Respond(r)

MainStep ==
    \/ EndpointsEnd \/ TableEnd \/ Pprof \/ Exit
    \/ \E p \in Proxies : RunProxyServer(p)
    \/ \E p \in Servers : Listen(p) \/ Shutdown(p) \/ ServeReturns(p)

Next ==
    \/ Setup \/ Signal \/ TableSync \/ MainStep
    \/ \E p \in Proxies : Check(p) \/ ProbeStop(p)
    \/ \E r \in Requests : RequestStep(r) \/ \E p \in Proxies : Accept(r, p)

Spec == Init /\ [][Next]_vars

(* The Go scheduler runs the goroutines of main, those that shut servers   *)
(* down and the handlers of requests; dials and timers come to an end.     *)
(* That one of the goroutines of main runs is enough, since none of them   *)
(* has more than a few steps.  Nothing is assumed of signals and clients.  *)
Fairness == WF_vars(MainStep) /\ \A r \in Requests : WF_vars(RequestStep(r))

FairSpec == Spec /\ Fairness
-----------------------------------------------------------------------------
(* When the context is done, by a signal or because a goroutine failed,    *)
(* the process comes to its end, also when the context is done before a    *)
(* server listens (ServeContext, eg.Wait).  The server for profiles, which *)
(* nothing stops, is the exception.                                        *)
ExitsWhenDone == ctxDone /\ "pprof" \notin config.parts ~> process = "exited"

(* The proxy comes to serve although the informer of Services is not       *)
(* started before the context is done: its WaitForCacheSync has nothing to *)
(* wait for.                                                               *)
StartsServing ==
    process = "running" ~> goroutine["proxy"] = "running" \/ ctxDone \/ process = "exited"

NotFoundUnlessReady == \A r \in Requests : NotFound(r) => ~ready

(* Once a probe was answered with 200, on either proxy, no app is answered *)
(* with 404: readiness is a check that is up to a second old, of a table   *)
(* that both proxies share (Probe, HealthCheck).                           *)
ReadyMeansRouted == [][NotFoundUnlessReady]_vars

AllCerts == config.default \cup CertFiles(config.store)
Having(name) == {c \in AllCerts : name \in c.names}
Named == {c \in AllCerts : c.names # {}}

ShownForName(name) ==
    LET shown == Shown(certs, config.default, name)
    IN  IF Having(name) = {} THEN shown = config.default
        ELSE shown \subseteq Having(name) /\ shown # {}

ShownWithoutName ==
    LET shown == Shown(certs, config.default, NoName)
    IN  IF Named = {} THEN shown = config.default
        ELSE shown \subseteq Named /\ shown # {}

CertsServe == ShownWithoutName /\ \A n \in ServerNames : ShownForName(n)

(* In whatever order the store was loaded, a client that asks for a name   *)
(* in one of the certificates is shown a certificate with that name, and a *)
(* client that asks for another name is shown the default.  A client that  *)
(* sends no name is shown some certificate that has names, not necessarily *)
(* the default, and the default only if there is no other choice           *)
(* (getTLSConfig, which fills Certificates as well).                       *)
CertHasName == "tls" \in config.parts /\ goroutine["tls"] = "running" => CertsServe

GivesUpAfterBackoff ==
    \A r \in Requests :
      DialWakes(r) /\ dial'[r].at = "error" => dial[r].slept = PowerOf2[Steps] - 1

(* A call gives up by itself only after it has slept through the whole     *)
(* backoff, which no other call has shortened or lengthened: 1, 2, 4, ...  *)
(* connect timeouts (DialContextWithRetry).                                *)
GivesUpOnSchedule == [][GivesUpAfterBackoff]_vars

(* CHANGELOG.md:184, "Provide graceful shutdown for http servers on SIGINT *)
(* and SIGTERM": main does not end while a request is open (ServeContext,  *)
(* eg.Wait).  That every server was told to shut down, and none failed,    *)
(* says that a signal was the cause.                                       *)
GracefulShutdown ==
    process = "exited" /\ shut = Servers /\ "pprof" \notin config.parts
        /\ (\A p \in Goroutines : goroutine[p] = "ended")
      => \A r \in Requests : request[r] = NoRequest

(* Every accepted request is answered, unless the process ends: dials are  *)
(* not retried for ever (newForwardingHandler, DialContextWithRetry).      *)
RequestEnds ==
    \A r \in Requests :
      request[r].at = "accepted" ~> request[r] = NoRequest \/ process = "exited"
-----------------------------------------------------------------------------
(* The inductive invariant.  The certificates are those of the             *)
(* configuration from the moment the TLS proxy has loaded them, before it  *)
(* listens; and what makes a probe healthy is never taken back.            *)
IInv ==
    /\ TypeOK
    /\ DialInv
    /\ "tls" \in config.parts /\ goroutine["tls"] # "sync" => CertsServe
    /\ ready \/ healthy # {} => memory
=============================================================================
