---------------------- MODULE InterceptorProcessProofs ----------------------
(***************************************************************************)
(* Proofs about InterceptorProcess, for any configurations, requests and   *)
(* number of dials: the certificates that clients are shown, the probe and *)
(* the backoff of the dials.                                               *)
(***************************************************************************)
EXTENDS InterceptorProcess, SetTheorems
-----------------------------------------------------------------------------
(* g has the first powers of 2.                                            *)
IsPower(g, n) ==
    g \in [0..n -> Nat] /\ g[0] = 1 /\ \A k \in 0..n : k > 0 => g[k] = 2 * g[k - 1]

(* There are such functions of any length.                                 *)
LEMMA PowersExist == \A n \in Nat : \E g : IsPower(g, n)
<1> DEFINE S == {n \in Nat : ~\E g : IsPower(g, n)}
<1> SUFFICES ASSUME S # {} PROVE FALSE
  OBVIOUS
<1>1. PICK m \in S : \A x \in S : m <= x
  <2>1. S \subseteq Nat
    OBVIOUS
  <2> HIDE DEF S
  <2> QED
    BY <2>1, LeastNat
<1>2. CASE m = 0
  <2>1. IsPower([k \in 0..0 |-> 1], 0)
    BY DEF IsPower
  <2> QED
    BY <1>2, <2>1
<1>3. CASE m # 0
  <2>1. m - 1 \in Nat /\ m - 1 \notin S
    BY <1>1, <1>3
  <2>2. PICK g : IsPower(g, m - 1)
    BY <2>1
  <2> DEFINE h == [k \in 0..m |-> IF k = m THEN 2 * g[m - 1] ELSE g[k]]
  <2>3. g \in [0..m-1 -> Nat] /\ g[0] = 1 /\ \A k \in 0..m-1 : k > 0 => g[k] = 2 * g[k - 1]
    BY <2>2 DEF IsPower
  <2>4. h \in [0..m -> Nat] /\ h[0] = 1
    BY <1>3, <2>1, <2>3
  <2>5. ASSUME NEW k \in 0..m, k > 0 PROVE h[k] = 2 * h[k - 1]
    <3>1. k - 1 \in 0..m /\ k - 1 # m /\ h[k - 1] = g[k - 1]
      BY <2>1, <2>5
    <3> QED
      BY <2>1, <2>3, <2>5, <3>1
  <2>6. IsPower(h, m)
    BY <2>4, <2>5 DEF IsPower
  <2> QED
    BY <2>6
<1> QED
  BY <1>2, <1>3

(* They agree where both are defined.                                      *)
LEMMA PowersUnique ==
    ASSUME NEW n \in Nat, NEW m \in Nat, n <= m, NEW g, NEW h, IsPower(g, n), IsPower(h, m)
    PROVE  g[n] = h[n]
<1> DEFINE S == {k \in 0..n : g[k] # h[k]}
<1> SUFFICES ASSUME S # {} PROVE FALSE
  OBVIOUS
<1>1. PICK k \in S : \A x \in S : k <= x
  <2>1. S \subseteq Nat
    OBVIOUS
  <2> HIDE DEF S
  <2> QED
    BY <2>1, LeastNat
<1>2. CASE k = 0
  BY <1>1, <1>2 DEF IsPower
<1>3. CASE k # 0
  <2>1. k \in 0..n /\ k \in 0..m /\ k > 0 /\ k - 1 \in 0..n /\ ~(k <= k - 1)
    BY <1>3
  <2>2. g[k - 1] = h[k - 1]
    BY <1>1, <2>1
  <2> QED
    BY <1>1, <2>1, <2>2 DEF IsPower
<1> QED
  BY <1>2, <1>3

(* PowerOf2 is what its recursive definition says.                         *)
LEMMA PowerOf2Facts ==
    /\ PowerOf2[0] = 1
    /\ \A n \in Nat : PowerOf2[n] \in Nat
    /\ \A n \in Nat : PowerOf2[n + 1] = 2 * PowerOf2[n]
<1> DEFINE G(n) == CHOOSE g : IsPower(g, n)
           F == [n \in Nat |-> G(n)[n]]
<1>1. \A n \in Nat : IsPower(G(n), n)
  BY PowersExist
<1> HIDE DEF G
<1>2. \A n \in Nat : F[n] \in Nat /\ F[n] = G(n)[n]
  BY <1>1 DEF IsPower
<1>3. F[0] = 1
  BY <1>1 DEF IsPower
<1>4. ASSUME NEW n \in Nat, n # 0 PROVE F[n] = 2 * F[n - 1]
  <2>1. n - 1 \in Nat /\ n - 1 <= n /\ n \in 0..n /\ n > 0
    BY <1>4
  <2>2. G(n)[n] = 2 * G(n)[n - 1]
    BY <1>1, <2>1 DEF IsPower
  <2>3. G(n - 1)[n - 1] = G(n)[n - 1]
    BY <1>1, <2>1, PowersUnique
  <2> QED
    BY <1>2, <2>1, <2>2, <2>3
<1> HIDE DEF F
<1>5. F = [n \in Nat |-> IF n = 0 THEN 1 ELSE 2 * F[n - 1]]
  <2>1. DOMAIN F = Nat /\ F = [n \in Nat |-> F[n]]
    BY DEF F
  <2> QED
    BY <1>3, <1>4, <2>1
<1>6. PowerOf2 = [n \in Nat |-> IF n = 0 THEN 1 ELSE 2 * PowerOf2[n - 1]]
  BY <1>5 DEF PowerOf2
<1>7. PowerOf2[0] = 1 /\ \A n \in Nat : PowerOf2[n + 1] = 2 * PowerOf2[n]
  BY <1>6
<1>8. \A n \in Nat : PowerOf2[n] \in Nat
  <2> DEFINE S == {n \in Nat : PowerOf2[n] \notin Nat}
  <2> SUFFICES ASSUME S # {} PROVE FALSE
    OBVIOUS
  <2>1. PICK m \in S : \A x \in S : m <= x
    <3>1. S \subseteq Nat
      OBVIOUS
    <3> HIDE DEF S
    <3> QED
      BY <3>1, LeastNat
  <2>2. m # 0
    BY <1>7
  <2>3. m - 1 \in Nat /\ ~(m <= m - 1) /\ (m - 1) + 1 = m
    BY <2>2
  <2>4. PowerOf2[m - 1] \in Nat
    BY <2>1, <2>3
  <2>5. PowerOf2[(m - 1) + 1] = 2 * PowerOf2[m - 1]
    BY <1>7, <2>3
  <2> QED
    BY <2>3, <2>4, <2>5
<1> QED
  BY <1>7, <1>8
-----------------------------------------------------------------------------
(* The dials: a call that is set to a state on schedule keeps DialInv.     *)
LEMMA DialSet ==
    ASSUME DialInv, NEW r \in Requests, NEW d \in Idle \cup Calling,
           dial' = [dial EXCEPT ![r] = d], UNCHANGED backoff,
           d \in Calling => OnSchedule(d)
    PROVE  DialInv'
<1>1. backoff' = DefaultBackoff /\ DialTypeOK'
  BY DEF DialInv, DialTypeOK
<1>2. d.at \in {"try", "sleep"} => OnSchedule(d)
  BY DEF Idle, Calling
<1>3. ASSUME NEW q \in Requests, dial'[q].at \in {"try", "sleep"} PROVE OnSchedule(dial'[q])
  <2>1. CASE q = r
    <3>1. dial'[q] = d
      BY <2>1 DEF DialInv, DialTypeOK
    <3> QED
      BY <1>2, <1>3, <3>1
  <2>2. CASE q # r
    <3>1. dial'[q] = dial[q]
      BY <2>2 DEF DialInv, DialTypeOK
    <3> QED
      BY <1>3, <3>1 DEF DialInv
  <2> QED
    BY <2>1, <2>2
<1>4. \A q \in Requests : (dial[q].at \in {"try", "sleep"} => OnSchedule(dial[q]))'
  BY <1>3 DEF OnSchedule, Taken
<1> QED
  BY <1>1, <1>4 DEF DialInv

LEMMA DialStarts == DialInit => DialInv
<1> SUFFICES ASSUME DialInit PROVE DialInv
  OBVIOUS
<1>1. backoff \in Backoffs
  BY DialAssumption DEF DialInit, DefaultBackoff, Backoffs
<1>2. \A r \in Requests : dial[r] = NoDial /\ dial[r].at = "none" /\ dial[r] \in Idle
  BY DEF DialInit, NoDial, Idle
<1>3. DialTypeOK
  BY <1>1, <1>2 DEF DialInit, DialTypeOK
<1> QED
  BY <1>2, <1>3 DEF DialInv, DialInit

(* A call takes its steps of the backoff one by one, and on its own copy.  *)
LEMMA DialKeeps ==
    ASSUME DialInv, NEW r \in Requests,
           \/ DialStart(r) \/ DialConnects(r) \/ DialFails(r) \/ DialWakes(r)
           \/ DialCancelled(r) \/ DialEnd(r)
    PROVE  DialInv'
<1> DEFINE d == dial[r]
<1>1. Steps \in Nat \ {0} /\ dial[r] \in Idle \cup Calling
  BY DialAssumption DEF DialInv, DialTypeOK
<1>2. ASSUME dial[r].at \in {"try", "sleep"}
      PROVE  /\ d \in Calling /\ OnSchedule(d)
             /\ d.i \in 0..Steps-1 /\ d.slept \in Nat
             /\ d.backoff \in Backoffs /\ d.backoff.steps \in Nat /\ d.backoff.duration \in Nat
  BY <1>1, <1>2 DEF DialInv, Idle, Calling, Backoffs
<1>3. CASE DialStart(r)
  <2> DEFINE e == [at |-> "try", i |-> 0, backoff |-> backoff, slept |-> 0]
  <2>1. backoff \in Backoffs /\ backoff = DefaultBackoff
    BY DEF DialInv, DialTypeOK
  <2>2. e \in Calling
    BY <1>1, <2>1 DEF Calling
  <2>3. OnSchedule(e)
    BY <1>1, <2>1, PowerOf2Facts DEF OnSchedule, Taken, DefaultBackoff
  <2>4. dial' = [dial EXCEPT ![r] = e] /\ UNCHANGED backoff
    BY <1>3 DEF DialStart
  <2> HIDE DEF e
  <2> QED
    BY <2>2, <2>3, <2>4, DialSet
<1>4. CASE DialConnects(r) \/ DialCancelled(r) \/ DialEnd(r)
  <2>1. \E e \in Idle : dial' = [dial EXCEPT ![r] = e] /\ UNCHANGED backoff
    BY <1>4 DEF DialConnects, DialCancelled, DialEnd, Idle, NoDial
  <2>2. \A e \in Idle : e \notin Calling
    BY DEF Idle, Calling
  <2> QED
    BY <2>1, <2>2, DialSet
<1>5. CASE DialFails(r)
  <2> DEFINE e == [at |-> "sleep", i |-> dial[r].i, backoff |-> Step(dial[r].backoff),
                   slept |-> dial[r].slept + dial[r].backoff.duration]
  <2>1. d.at = "try" /\ Taken(d) = d.i /\ Taken(e) = d.i + 1 /\ d.i \in Nat /\ d.i < Steps
    BY <1>1, <1>2, <1>5 DEF DialFails, Taken
  <2>2. /\ d.backoff.steps = Steps - d.i /\ d.backoff.duration = PowerOf2[d.i]
        /\ d.slept = PowerOf2[d.i] - 1 /\ PowerOf2[d.i + 1] = 2 * PowerOf2[d.i]
    BY <1>2, <2>1, PowerOf2Facts DEF OnSchedule
  <2>3. Step(d.backoff) = [steps |-> d.backoff.steps - 1, duration |-> 2 * d.backoff.duration]
    BY <1>1, <1>2, <2>1, <2>2 DEF Step
  <2>4. Step(d.backoff) \in Backoffs
    BY <1>1, <1>2, <2>1, <2>2, <2>3 DEF Backoffs
  <2>5. e \in Calling
    BY <1>2, <2>1, <2>4 DEF Calling
  <2>6. OnSchedule(e)
    BY <1>1, <1>2, <2>1, <2>2, <2>3, PowerOf2Facts DEF OnSchedule
  <2>7. dial' = [dial EXCEPT ![r] = e] /\ UNCHANGED backoff
    BY <1>5 DEF DialFails
  <2> HIDE DEF e
  <2> QED
    BY <2>5, <2>6, <2>7, DialSet
<1>6. CASE DialWakes(r) /\ d.i + 1 < Steps
  <2> DEFINE e == [at |-> "try", i |-> dial[r].i + 1, backoff |-> dial[r].backoff,
                   slept |-> dial[r].slept]
  <2>1. d.at = "sleep" /\ Taken(d) = d.i + 1 /\ Taken(e) = d.i + 1
    BY <1>2, <1>6 DEF DialWakes, Taken
  <2>2. e \in Calling
    BY <1>1, <1>2, <1>6, <2>1 DEF Calling
  <2>3. OnSchedule(e)
    BY <1>2, <2>1 DEF OnSchedule
  <2>4. dial' = [dial EXCEPT ![r] = e] /\ UNCHANGED backoff
    BY <1>6 DEF DialWakes
  <2> HIDE DEF e
  <2> QED
    BY <2>2, <2>3, <2>4, DialSet
<1>7. CASE DialWakes(r) /\ ~(d.i + 1 < Steps)
  <2>1. dial' = [dial EXCEPT ![r] = [at |-> "error"]] /\ UNCHANGED backoff
    BY <1>7 DEF DialWakes
  <2>2. [at |-> "error"] \in Idle /\ [at |-> "error"] \notin Calling
    BY DEF Idle, Calling
  <2> QED
    BY <2>1, <2>2, DialSet
<1> QED
  BY <1>3, <1>4, <1>5, <1>6, <1>7
-----------------------------------------------------------------------------
(* The parts of the inductive invariant.                                   *)
Phases == {"sync", "opening", "running", "closing", "ended"}

MainOK ==
    /\ config \in Configs /\ process \in {"setup", "running", "exited"} /\ ctxDone \in BOOLEAN
    /\ goroutine \in [Goroutines -> Phases] /\ shut \subseteq Servers

CertsOK ==
    /\ \A n \in DOMAIN certs : certs[n] \in config.default \cup CertFiles(config.store)
    /\ "tls" \in config.parts /\ goroutine["tls"] # "sync" => CertsServe

ProbeOK ==
    /\ memory \in BOOLEAN /\ ready \in BOOLEAN
    /\ healthy \subseteq Proxies /\ probing \subseteq Proxies
    /\ ready \/ healthy # {} => memory

Accepted == [at : {"accepted"}, proxy : Proxies]

RequestsOK == request \in [Requests -> {NoRequest} \cup Accepted \cup [at : {"routed", "dialling"}]]

LEMMA Parts == IInv <=> MainOK /\ CertsOK /\ ProbeOK /\ RequestsOK /\ DialInv
<1>1. TypeOK <=> /\ DialTypeOK /\ MainOK /\ memory \in BOOLEAN /\ ready \in BOOLEAN
                 /\ \A n \in DOMAIN certs : certs[n] \in config.default \cup CertFiles(config.store)
                 /\ healthy \subseteq Proxies /\ probing \subseteq Proxies /\ RequestsOK
  BY Zenon DEF TypeOK, MainOK, Phases, RequestsOK, Accepted
<1> QED
  BY Zenon, <1>1 DEF IInv, DialInv, CertsOK, ProbeOK

LEMMA PartsLater == (MainOK /\ CertsOK /\ ProbeOK /\ RequestsOK /\ DialInv)' => IInv'
<1>1. TypeOK' <=> (/\ DialTypeOK /\ MainOK /\ memory \in BOOLEAN /\ ready \in BOOLEAN
                   /\ \A n \in DOMAIN certs : certs[n] \in config.default \cup CertFiles(config.store)
                   /\ healthy \subseteq Proxies /\ probing \subseteq Proxies /\ RequestsOK)'
  BY Zenon DEF TypeOK, MainOK, Phases, RequestsOK, Accepted
<1> QED
  BY Zenon, <1>1 DEF IInv, DialInv, CertsOK, ProbeOK

(* The certificates are loaded in some order, and whichever has a name     *)
(* last is one that has it.                                                *)
LEMMA CertsAdded ==
    ASSUME NEW default, NEW store, IsFiniteSet(store), NEW order \in Orders(default, store),
           NEW n
    PROVE  /\ n \in DOMAIN AddCerts(order) =>
                /\ AddCerts(order)[n] \in default \cup CertFiles(store)
                /\ n \in AddCerts(order)[n].names
           /\ \A c \in default \cup CertFiles(store) : n \in c.names => n \in DOMAIN AddCerts(order)
<1> DEFINE all == default \cup CertFiles(store)
           having == {c \in all : n \in c.names}
           N == Cardinality(CertFiles(store))
           ranks == {order[c] : c \in having}
<1>1. N \in Nat
  <2>1. CertFiles(store) \subseteq store
    BY DEF CertFiles, LastOf
  <2> QED
    BY <2>1, FS_Subset, FS_CardinalityType
<1> HIDE DEF N
<1>2. DOMAIN order = all /\ \A c \in all : order[c] \in 0..N
  BY DEF Orders, Injection, N
<1>3. DOMAIN AddCerts(order) = UNION {c.names : c \in all}
  BY <1>2 DEF AddCerts
<1>4. ASSUME n \in DOMAIN AddCerts(order)
      PROVE  AddCerts(order)[n] \in all /\ n \in AddCerts(order)[n].names
  <2> DEFINE Last(c) == n \in c.names /\ \A d \in all : n \in d.names => order[d] <= order[c]
  <2>1. \E c \in all : Last(c)
    <3>1. ranks # {} /\ ranks \subseteq 0..N /\ ranks \subseteq Int
      BY <1>2, <1>3, <1>4
    <3>2. IsFiniteSet(ranks)
      <4>1. IsFiniteSet(0..N)
        BY <1>1, FS_Interval
      <4> HIDE DEF ranks
      <4> QED
        BY <3>1, <4>1, FS_Subset
    <3>3. Max(ranks) \in ranks /\ \A x \in ranks : x <= Max(ranks)
      <4> HIDE DEF ranks
      <4> QED
        BY <3>1, <3>2, MaxOf
    <3> QED
      BY <3>3
  <2>2. AddCerts(order)[n] = CHOOSE c \in all : Last(c)
    BY <1>2, <1>3, <1>4 DEF AddCerts
  <2> QED
    BY <2>1, <2>2
<1> QED
  BY <1>3, <1>4
-----------------------------------------------------------------------------
LEMMA Starts == Init => IInv
<1> SUFFICES ASSUME Init PROVE IInv
  OBVIOUS
<1>1. DialInv
  BY DialStarts DEF Init
<1>2. MainOK
  BY Zenon DEF Init, MainOK, Phases
<1>3. CertsOK
  <2>1. DOMAIN certs = {}
    BY DEF Init
  <2>2. ASSUME "tls" \in config.parts PROVE goroutine["tls"] = "sync"
    BY <2>2 DEF Init, Goroutines, Servers, Proxies
  <2> QED
    BY <2>1, <2>2 DEF CertsOK
<1>4. ProbeOK /\ RequestsOK
  BY Zenon DEF Init, ProbeOK, RequestsOK
<1> QED
  BY <1>1, <1>2, <1>3, <1>4, Parts

(* The configuration does not change, nor what there is because of it.     *)
LEMMA ConfigStays ==
    ASSUME [Next]_vars
    PROVE  /\ config' = config
           /\ Proxies' = Proxies /\ Servers' = Servers /\ Goroutines' = Goroutines
<1>1. config' = config
  BY Zenon DEF Next, MainStep, RequestStep, Setup, Signal, TableSync, EndpointsEnd, TableEnd,
     Pprof, Exit, RunProxyServer, Listen, Shutdown, ServeReturns, Check, ProbeStop, ServeProbe,
     NotFound, Route, NotForwarded, Forward, Dial, Respond, Accept, vars
<1> QED
  BY <1>1 DEF Proxies, Servers, Goroutines

(* What main and its goroutines do is what MainStep, Setup, Signal and     *)
(* TableSync do; all others leave it alone.                                *)
LEMMA MainRests ==
    ASSUME NEW r, NEW p, RequestStep(r) \/ Accept(r, p) \/ Check(p) \/ ProbeStop(p)
    PROVE  UNCHANGED mainVars
BY Zenon DEF RequestStep, ServeProbe, NotFound, Route, NotForwarded, Forward, Dial, Respond,
   Accept, Check, ProbeStop

LEMMA MainRestsToo == TableSync \/ UNCHANGED vars => UNCHANGED mainVars
BY Zenon DEF TableSync, vars

(* How a goroutine goes on.                                                *)
Goes(p, phase) == goroutine' = [goroutine EXCEPT ![p] = phase]

(* The steps of main but for those of a proxy before it opens its server.  *)
LEMMA MainGoes ==
    ASSUME MainOK, Setup \/ Signal \/ EndpointsEnd \/ TableEnd \/ Pprof \/ Exit
                     \/ \E p \in Servers : Listen(p) \/ Shutdown(p) \/ ServeReturns(p)
    PROVE  /\ UNCHANGED <<certs, memory, probeVars, request, dialVars>>
           /\ process' \in {"setup", "running", "exited"} /\ ctxDone' \in BOOLEAN
           /\ shut' \subseteq Servers
           /\ \/ UNCHANGED goroutine
              \/ \E p \in Goroutines, phase \in Phases \ {"sync"} :
                   goroutine[p] # "sync" /\ Goes(p, phase)
<1>1. /\ process \in {"setup", "running", "exited"} /\ ctxDone \in BOOLEAN /\ shut \subseteq Servers
      /\ {"endpoints", "table"} \subseteq Goroutines /\ Servers \subseteq Goroutines
      /\ "pprof" \in config.parts => "pprof" \in Goroutines
  BY DEF MainOK, Goroutines
<1>2. "ended" \in Phases \ {"sync"} /\ "running" \in Phases \ {"sync"} /\ "closing" \in Phases \ {"sync"}
  BY DEF Phases
<1>3. CASE Setup \/ Signal \/ Exit
  BY Zenon, <1>1, <1>3 DEF Setup, Signal, Exit
<1>4. CASE EndpointsEnd
  <2>1. goroutine["endpoints"] # "sync"
    BY <1>4 DEF EndpointsEnd
  <2> QED
    BY Zenon, <1>1, <1>2, <1>4, <2>1 DEF EndpointsEnd, Ends, Goes
<1>5. CASE TableEnd
  <2>1. goroutine["table"] # "sync"
    BY <1>5 DEF TableEnd
  <2> QED
    BY Zenon, <1>1, <1>2, <1>5, <2>1 DEF TableEnd, Ends, Goes
<1>6. CASE Pprof
  <2>1. goroutine["pprof"] # "sync"
    BY <1>6 DEF Pprof
  <2> QED
    BY Zenon, <1>1, <1>2, <1>6, <2>1 DEF Pprof, Ends, Goes
<1>7. ASSUME NEW p \in Servers, Listen(p)
      PROVE  /\ UNCHANGED <<process, shut, certs, memory, probeVars, request, dialVars>>
             /\ ctxDone' \in BOOLEAN /\ goroutine[p] # "sync"
             /\ \E phase \in Phases \ {"sync"} : Goes(p, phase)
  <2>1. goroutine[p] # "sync"
    BY <1>7 DEF Listen
  <2> QED
    BY Zenon, <1>1, <1>2, <1>7, <2>1 DEF Listen, Ends, Goes
<1>8. ASSUME NEW p \in Servers, ServeReturns(p)
      PROVE  /\ UNCHANGED <<process, shut, certs, memory, probeVars, request, dialVars>>
             /\ ctxDone' \in BOOLEAN /\ goroutine[p] # "sync"
             /\ \E phase \in Phases \ {"sync"} : Goes(p, phase)
  <2>1. goroutine[p] # "sync"
    BY <1>8 DEF ServeReturns
  <2> QED
    BY Zenon, <1>1, <1>2, <1>8, <2>1 DEF ServeReturns, Ends, Goes
<1>9. ASSUME NEW p \in Servers, Shutdown(p)
      PROVE  /\ UNCHANGED <<process, ctxDone, certs, memory, probeVars, request, dialVars>>
             /\ shut' \subseteq Servers /\ goroutine[p] # "sync"
             /\ UNCHANGED goroutine \/ \E phase \in Phases \ {"sync"} : Goes(p, phase)
  <2>1. goroutine[p] # "sync" /\ shut' \subseteq Servers
    BY <1>1, <1>9 DEF Shutdown
  <2> QED
    BY Zenon, <1>1, <1>2, <1>9, <2>1 DEF Shutdown, Goes
<1> QED
  BY Zenon, <1>1, <1>3, <1>4, <1>5, <1>6, <1>7, <1>8, <1>9

(* The certificates and their owner stay as they are while the TLS proxy   *)
(* does not come out of "sync".                                            *)
LEMMA CertsStay ==
    ASSUME CertsOK, UNCHANGED <<config, certs>>,
           "tls" \in config.parts /\ goroutine["tls"] = "sync" => goroutine'["tls"] = "sync"
    PROVE  CertsOK'
<1>1. CertsServe => CertsServe'
  BY DEF CertsServe, ShownForName, ShownWithoutName, Having, Named, AllCerts
<1> QED
  BY <1>1 DEF CertsOK

LEMMA GoroutineSet ==
    ASSUME MainOK, NEW p \in Goroutines, NEW phase \in Phases, Goes(p, phase)
    PROVE  /\ goroutine' \in [Goroutines -> Phases]
           /\ \A q \in Goroutines : goroutine'[q] = IF q = p THEN phase ELSE goroutine[q]
BY DEF MainOK, Goes

(* The TLS proxy has loaded the certificates when it opens its server.     *)
LEMMA ProxyRuns ==
    ASSUME IInv, Next, NEW p \in Proxies, RunProxyServer(p)
    PROVE  MainOK' /\ CertsOK'
<1>0. MainOK /\ CertsOK
  BY Parts
<1>1. config' = config /\ Servers' = Servers /\ Goroutines' = Goroutines
  BY ConfigStays
<1>2. p \in Goroutines /\ goroutine[p] = "sync" /\ UNCHANGED <<ctxDone, shut>>
  BY DEF RunProxyServer, Goroutines, Servers
<1>3. CASE /\ p = "tls" => \E order \in Orders(config.default, config.store) : certs' = AddCerts(order)
           /\ p # "tls" => UNCHANGED certs
           /\ Goes(p, "opening") /\ UNCHANGED process
  <2>1. /\ goroutine' \in [Goroutines -> Phases]
        /\ \A q \in Goroutines : goroutine'[q] = IF q = p THEN "opening" ELSE goroutine[q]
    <3>1. "opening" \in Phases
      BY DEF Phases
    <3> QED
      BY <1>0, <1>2, <1>3, <3>1, GoroutineSet
  <2>2. MainOK'
    BY Zenon, <1>0, <1>1, <1>2, <1>3, <2>1 DEF MainOK
  <2>3. CASE p # "tls"
    <3>1. "tls" \in config.parts => "tls" \in Goroutines
      BY DEF Goroutines, Servers, Proxies
    <3>2. "tls" \in config.parts /\ goroutine["tls"] = "sync" => goroutine'["tls"] = "sync"
      BY <2>1, <2>3, <3>1
    <3>3. UNCHANGED <<config, certs>>
      BY <1>1, <1>3, <2>3
    <3> QED
      BY <1>0, <2>2, <3>2, <3>3, CertsStay
  <2>4. CASE p = "tls"
    <3>1. PICK order \in Orders(config.default, config.store) : certs' = AddCerts(order)
      BY <1>3, <2>4
    <3>2. IsFiniteSet(config.store)
      BY <1>0, ProcessAssumption DEF MainOK
    <3> DEFINE all == config.default \cup CertFiles(config.store)
    <3>3. ASSUME NEW n
          PROVE  /\ n \in DOMAIN certs' => certs'[n] \in all /\ n \in certs'[n].names
                 /\ \A c \in all : n \in c.names => n \in DOMAIN certs'
      BY <3>1, <3>2, CertsAdded
    <3>4. ASSUME NEW n \in ServerNames PROVE ShownForName(n)'
      <4>1. Having(n)' = {c \in all : n \in c.names}
        BY <1>1 DEF Having, AllCerts
      <4>0. Shown(certs, config.default, n)' = GetCertificate(certs, config.default, n)'
        BY ProcessAssumption DEF Shown
      <4>2. CASE n \in DOMAIN certs'
        <5>1. GetCertificate(certs, config.default, n)' = {certs'[n]} /\ certs'[n] \in Having(n)'
          BY <3>3, <4>1, <4>2 DEF GetCertificate
        <5> QED
          BY <4>0, <5>1 DEF ShownForName
      <4>3. CASE n \notin DOMAIN certs'
        <5>1. GetCertificate(certs, config.default, n)' = config'.default /\ Having(n)' = {}
          BY <1>1, <3>3, <4>1, <4>3 DEF GetCertificate
        <5> QED
          BY <4>0, <5>1 DEF ShownForName
      <4> QED
        BY <4>2, <4>3
    <3>5. \A n \in DOMAIN certs' : certs'[n] \in config'.default \cup CertFiles(config'.store)
      BY <1>1, <3>3
    <3>6. Named' = {c \in all : c.names # {}}
      BY <1>1 DEF Named, AllCerts
    <3>7. ShownWithoutName'
      <4>1. CASE DOMAIN certs' = {}
        <5>1. Certificates(certs)' = {}
          BY <4>1 DEF Certificates, Range
        <5>2. Shown(certs, config.default, NoName)' = config'.default
          BY <4>1, <5>1 DEF Shown, GetCertificate
        <5>3. Named' = {}
          BY <3>3, <3>6, <4>1
        <5> QED
          BY <5>2, <5>3 DEF ShownWithoutName
      <4>2. CASE DOMAIN certs' # {}
        <5>1. Certificates(certs)' = {certs'[n] : n \in DOMAIN certs'} /\ Certificates(certs)' # {}
          BY <4>2 DEF Certificates, Range
        <5>2. Certificates(certs)' \subseteq Named'
          BY <3>3, <3>6, <5>1
        <5>3. Shown(certs, config.default, NoName)' = Certificates(certs)'
          BY <5>1 DEF Shown
        <5> QED
          BY <5>1, <5>2, <5>3 DEF ShownWithoutName
      <4> QED
        BY <4>1, <4>2
    <3>8. CertsServe'
      BY <3>4, <3>7 DEF CertsServe
    <3> QED
      BY <2>2, <3>5, <3>8 DEF CertsOK
  <2> QED
    BY <2>2, <2>3, <2>4
<1>4. CASE process' = "exited" /\ UNCHANGED <<goroutine, certs>>
  <2>1. MainOK'
    BY Zenon, <1>0, <1>1, <1>2, <1>4 DEF MainOK
  <2>2. CertsOK'
    BY <1>0, <1>1, <1>4, CertsStay
  <2> QED
    BY <2>1, <2>2
<1> QED
  BY Zenon, <1>3, <1>4 DEF RunProxyServer, Goes

(* Every step keeps what is known of main, its goroutines and the          *)
(* certificates.                                                           *)
LEMMA MainKeeps == IInv /\ [Next]_vars => MainOK' /\ CertsOK'
<1> SUFFICES ASSUME IInv, [Next]_vars PROVE MainOK' /\ CertsOK'
  OBVIOUS
<1>0. MainOK /\ CertsOK
  BY Parts
<1>1. config' = config /\ Servers' = Servers /\ Goroutines' = Goroutines
  BY ConfigStays
<1>2. CASE UNCHANGED mainVars
  <2>1. MainOK'
    BY Zenon, <1>0, <1>1, <1>2 DEF MainOK, mainVars
  <2>2. CertsOK'
    BY <1>0, <1>1, <1>2, CertsStay DEF mainVars
  <2> QED
    BY <2>1, <2>2
<1> DEFINE Goes1 == \/ Setup \/ Signal \/ EndpointsEnd \/ TableEnd \/ Pprof \/ Exit
                    \/ \E p \in Servers : Listen(p) \/ Shutdown(p) \/ ServeReturns(p)
<1>3. CASE Goes1
  <2>1. /\ UNCHANGED certs /\ process' \in {"setup", "running", "exited"} /\ ctxDone' \in BOOLEAN
        /\ shut' \subseteq Servers
        /\ \/ UNCHANGED goroutine
           \/ \E p \in Goroutines, phase \in Phases \ {"sync"} :
                goroutine[p] # "sync" /\ Goes(p, phase)
    BY <1>0, <1>3, MainGoes
  <2>2. /\ goroutine' \in [Goroutines -> Phases]
        /\ \A q \in Goroutines : goroutine[q] = "sync" => goroutine'[q] = "sync"
    <3>1. CASE UNCHANGED goroutine
      BY <1>0, <3>1 DEF MainOK
    <3>2. CASE \E p \in Goroutines, phase \in Phases \ {"sync"} :
                 goroutine[p] # "sync" /\ Goes(p, phase)
      BY <1>0, <3>2, GoroutineSet
    <3> QED
      BY <2>1, <3>1, <3>2
  <2>3. MainOK'
    BY Zenon, <1>0, <1>1, <2>1, <2>2 DEF MainOK
  <2>4. "tls" \in config.parts => "tls" \in Goroutines
    BY DEF Goroutines, Servers, Proxies
  <2>5. CertsOK'
    BY <1>0, <1>1, <2>1, <2>2, <2>4, CertsStay
  <2> QED
    BY <2>3, <2>5
<1>4. CASE \E p \in Proxies : RunProxyServer(p) /\ Next
  BY <1>4, ProxyRuns
<1>5. UNCHANGED mainVars \/ Goes1 \/ \E p \in Proxies : RunProxyServer(p) /\ Next
  BY Zenon, MainRests, MainRestsToo DEF Next, MainStep
<1> QED
  BY <1>2, <1>3, <1>4, <1>5
-----------------------------------------------------------------------------
(* A memory, once published, stays; a probe is healthy only when there is  *)
(* one.                                                                    *)
LEMMA ProbeKeeps == IInv /\ [Next]_vars => ProbeOK'
<1> SUFFICES ASSUME IInv, [Next]_vars PROVE ProbeOK'
  OBVIOUS
<1>0. MainOK /\ ProbeOK /\ RequestsOK
  BY Parts
<1>1. Proxies' = Proxies
  BY ConfigStays
<1>2. CASE UNCHANGED <<memory, probeVars>>
  BY Zenon, <1>0, <1>1, <1>2 DEF ProbeOK, probeVars
<1>3. CASE TableSync
  BY Zenon, <1>0, <1>1, <1>3 DEF TableSync, ProbeOK, probeVars
<1>4. ASSUME NEW p \in Proxies, RunProxyServer(p) PROVE ProbeOK'
  <2>1. UNCHANGED <<memory, healthy, ready>> /\ (UNCHANGED probing \/ probing' = probing \cup {p})
    BY Zenon, <1>4 DEF RunProxyServer
  <2>2. probing' \subseteq Proxies
    BY <1>0, <2>1 DEF ProbeOK
  <2> QED
    BY Zenon, <1>0, <1>1, <2>1, <2>2 DEF ProbeOK
<1>5. ASSUME NEW p \in Proxies, Check(p) PROVE ProbeOK'
  <2>1. UNCHANGED <<memory, probing, ready>>
    BY <1>5 DEF Check
  <2>2. healthy' \subseteq Proxies /\ (healthy' # {} => memory)
    <3>1. CASE memory
      BY <1>0, <1>5, <3>1 DEF Check, ProbeOK
    <3>2. CASE ~memory
      <4>1. healthy = {} /\ healthy' = healthy \ {p}
        BY Zenon, <1>0, <1>5, <3>2 DEF Check, ProbeOK
      <4> QED
        BY <4>1
    <3> QED
      BY <3>1, <3>2
  <2> QED
    BY Zenon, <1>0, <1>1, <2>1, <2>2 DEF ProbeOK
<1>6. ASSUME NEW p \in Proxies, ProbeStop(p) PROVE ProbeOK'
  <2>1. UNCHANGED <<memory, healthy, ready>> /\ probing' \subseteq Proxies
    BY <1>0, <1>6 DEF ProbeStop, ProbeOK
  <2> QED
    BY Zenon, <1>0, <1>1, <2>1 DEF ProbeOK
<1>7. ASSUME NEW r \in Requests, ServeProbe(r) PROVE ProbeOK'
  <2>1. UNCHANGED <<memory, healthy, probing>> /\ ready' = (ready \/ request[r].proxy \in healthy)
    BY Zenon, <1>7 DEF ServeProbe
  <2>2. ready' \in BOOLEAN /\ (ready' => ready \/ healthy # {})
    BY Zenon, <2>1
  <2> QED
    BY Zenon, <1>0, <1>1, <2>1, <2>2 DEF ProbeOK
<1>8. ASSUME NEW r \in Requests, RequestStep(r), ~ServeProbe(r) PROVE UNCHANGED <<memory, probeVars>>
  BY Zenon, <1>8 DEF RequestStep, NotFound, Route, NotForwarded, Forward, Dial, Respond
<1>9. ASSUME NEW r \in Requests, NEW p \in Proxies, Accept(r, p) PROVE UNCHANGED <<memory, probeVars>>
  BY Zenon, <1>9 DEF Accept
<1>10. CASE \/ Setup \/ Signal \/ EndpointsEnd \/ TableEnd \/ Pprof \/ Exit
            \/ \E p \in Servers : Listen(p) \/ Shutdown(p) \/ ServeReturns(p)
  BY <1>0, <1>2, <1>10, MainGoes
<1>11. CASE UNCHANGED vars
  BY Zenon, <1>2, <1>11 DEF vars
<1> QED
  BY Zenon, <1>2, <1>3, <1>4, <1>5, <1>6, <1>7, <1>8, <1>9, <1>10, <1>11 DEF Next, MainStep

(* A request is where the handler takes it, and its dial with it.          *)
LEMMA RequestSet ==
    ASSUME RequestsOK, Proxies' = Proxies, NEW r \in Requests,
           NEW q \in {NoRequest} \cup Accepted \cup [at : {"routed", "dialling"}],
           request' = [request EXCEPT ![r] = q]
    PROVE  RequestsOK'
BY DEF RequestsOK, Accepted

LEMMA RequestsKeep == IInv /\ [Next]_vars => RequestsOK' /\ DialInv'
<1> SUFFICES ASSUME IInv, [Next]_vars PROVE RequestsOK' /\ DialInv'
  OBVIOUS
<1>0. MainOK /\ RequestsOK /\ DialInv
  BY Parts
<1>1. Proxies' = Proxies
  BY ConfigStays
<1>2. ASSUME UNCHANGED dialVars PROVE DialInv'
  BY Zenon, <1>0, <1>2 DEF dialVars, DialInv, DialTypeOK, OnSchedule, Taken
<1>3. ASSUME UNCHANGED request PROVE RequestsOK'
  BY Zenon, <1>0, <1>1, <1>3 DEF RequestsOK, Accepted
<1>4. ASSUME NEW r \in Requests, Answered(r) PROVE RequestsOK'
  <2>1. request' = [request EXCEPT ![r] = NoRequest]
    BY <1>4 DEF Answered
  <2> QED
    BY <1>0, <1>1, <2>1, RequestSet
<1>5. ASSUME NEW r \in Requests, RequestStep(r) PROVE RequestsOK' /\ DialInv'
  <2>1. CASE ServeProbe(r) \/ NotFound(r) \/ NotForwarded(r)
    <3>1. Answered(r) /\ UNCHANGED dialVars
      BY Zenon, <2>1 DEF ServeProbe, NotFound, NotForwarded
    <3> QED
      BY <1>2, <1>4, <3>1
  <2>2. CASE Route(r)
    <3>1. request' = [request EXCEPT ![r] = [at |-> "routed"]] /\ UNCHANGED dialVars
      BY Zenon, <2>2 DEF Route
    <3>2. [at |-> "routed"] \in [at : {"routed", "dialling"}]
      OBVIOUS
    <3> QED
      BY <1>0, <1>1, <1>2, <3>1, <3>2, RequestSet
  <2>3. CASE Forward(r)
    <3>1. request' = [request EXCEPT ![r] = [at |-> "dialling"]] /\ DialStart(r)
      BY Zenon, <2>3 DEF Forward
    <3>2. [at |-> "dialling"] \in [at : {"routed", "dialling"}]
      OBVIOUS
    <3> QED
      BY <1>0, <1>1, <3>1, <3>2, RequestSet, DialKeeps
  <2>4. CASE Dial(r)
    <3>1. UNCHANGED request /\ (DialConnects(r) \/ DialFails(r) \/ DialWakes(r) \/ DialCancelled(r))
      BY Zenon, <2>4 DEF Dial
    <3> QED
      BY <1>0, <1>3, <3>1, DialKeeps
  <2>5. CASE Respond(r)
    <3>1. Answered(r) /\ DialEnd(r)
      BY Zenon, <2>5 DEF Respond
    <3> QED
      BY <1>0, <1>4, <3>1, DialKeeps
  <2> QED
    BY Zenon, <1>5, <2>1, <2>2, <2>3, <2>4, <2>5 DEF RequestStep
<1>6. ASSUME NEW r \in Requests, NEW p \in Proxies, Accept(r, p) PROVE RequestsOK' /\ DialInv'
  <2>1. request' = [request EXCEPT ![r] = [at |-> "accepted", proxy |-> p]] /\ UNCHANGED dialVars
    BY Zenon, <1>6 DEF Accept
  <2>2. [at |-> "accepted", proxy |-> p] \in Accepted
    BY DEF Accepted
  <2> QED
    BY <1>0, <1>1, <1>2, <2>1, <2>2, RequestSet
<1>7. CASE \/ Setup \/ Signal \/ EndpointsEnd \/ TableEnd \/ Pprof \/ Exit
           \/ \E p \in Servers : Listen(p) \/ Shutdown(p) \/ ServeReturns(p)
  BY <1>0, <1>2, <1>3, <1>7, MainGoes
<1>8. CASE \/ UNCHANGED vars \/ TableSync \/ \E p \in Proxies : RunProxyServer(p) \/ Check(p) \/ ProbeStop(p)
  BY Zenon, <1>2, <1>3, <1>8 DEF vars, TableSync, RunProxyServer, Check, ProbeStop
<1> QED
  BY Zenon, <1>5, <1>6, <1>7, <1>8 DEF Next, MainStep
-----------------------------------------------------------------------------
(* The inductive invariant holds for any certificate stores, any number of *)
(* requests and of dials.                                                  *)
THEOREM Invariance == Spec => []IInv
<1>1. IInv /\ [Next]_vars => IInv'
  BY MainKeeps, ProbeKeeps, RequestsKeep, PartsLater
<1> QED
  BY Starts, <1>1, PTL DEF Spec

(* TypeOK: every goroutine, request and dial is in one of its states, the  *)
(* certificates are those of the files, and no call dials more often than  *)
(* the backoff has steps (runProxyServer, DialContextWithRetry).           *)
THEOREM TypeCorrect == Spec => []TypeOK
<1>1. IInv => TypeOK
  BY DEF IInv
<1> QED
  BY <1>1, Invariance, PTL

(* CertHasName: in whatever order any store was loaded, a client that asks *)
(* for a name is shown a certificate with that name if there is one, else  *)
(* the default; and a client that sends no name is shown one that has      *)
(* names, if there is one, which need not be the default (getTLSConfig,    *)
(* addCert).                                                               *)
THEOREM ShowsCertWithName == Spec => []CertHasName
<1>1. IInv => CertHasName
  BY DEF IInv, CertHasName
<1> QED
  BY <1>1, Invariance, PTL

(* ReadyMeansRouted: after a probe was answered with 200 no app is         *)
(* answered with 404 (Probe, HealthCheck).                                 *)
THEOREM ReadyRoutes == Spec => ReadyMeansRouted
<1>1. IInv => NotFoundUnlessReady
  BY Zenon DEF IInv, NotFoundUnlessReady, NotFound
<1> QED
  BY <1>1, Invariance, PTL DEF ReadyMeansRouted

(* GivesUpOnSchedule: a call that gives up has slept through its whole     *)
(* backoff, of any number of steps and beside any number of other calls    *)
(* (DialContextWithRetry).                                                 *)
THEOREM BackoffIsKept == Spec => GivesUpOnSchedule
<1>1. IInv => GivesUpAfterBackoff
  <2> SUFFICES ASSUME IInv, NEW r \in Requests, DialWakes(r), dial'[r].at = "error"
               PROVE  dial[r].slept = PowerOf2[Steps] - 1
    BY DEF GivesUpAfterBackoff
  <2>1. /\ dial[r].at = "sleep" /\ OnSchedule(dial[r])
        /\ dial[r] \in Idle \cup Calling /\ r \in DOMAIN dial
    BY DEF IInv, DialInv, DialTypeOK, DialWakes
  <2>2. dial[r].i \in 0..Steps-1 /\ Steps \in Nat
    BY <2>1, DialAssumption DEF Idle, Calling
  <2>3. ~(dial[r].i + 1 < Steps)
    <3> SUFFICES ASSUME dial[r].i + 1 < Steps PROVE FALSE
      OBVIOUS
    <3>1. dial'[r] = [at |-> "try", i |-> dial[r].i + 1, backoff |-> dial[r].backoff,
                      slept |-> dial[r].slept]
      BY <2>1 DEF DialWakes
    <3> QED
      BY <3>1
  <2>4. dial[r].i + 1 = Steps
    BY <2>2, <2>3
  <2> QED
    BY <2>1, <2>4 DEF OnSchedule, Taken
<1> QED
  BY <1>1, Invariance, PTL DEF GivesUpOnSchedule
=============================================================================
