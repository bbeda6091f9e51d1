---------------------------- MODULE ControlPlane ----------------------------
(***************************************************************************)
(* The life of the control-plane process                                   *)
(* (control-plane/cmd/control-plane/main.go): the TLS flags, the two       *)
(* servers in goroutines of their own, the signal channel, and the way     *)
(* down; with the interceptors (metrics.go) and the bearer-token check     *)
(* (agent.go) around every gRPC call, and the REST requests (restapi.go).  *)
(*                                                                         *)
(* The main goroutine is at                                                *)
(*                                                                         *)
(*   "start"     checking the flags                                        *)
(*   "loadTLS"   loading the certificates                                  *)
(*   "serve"     about to start the servers                                *)
(*   "notify"    about to ask for signals: until then they kill            *)
(*   "ready"     waiting for a signal                                      *)
(*   "reload"    in Reload, because of a SIGHUP                            *)
(*   "grpcStop"  in GracefulStop                                           *)
(*   "httpStop"  in Shutdown of the HTTP server                            *)
(*   "down"      returned                                                  *)
(*   "dead"      ended by log.Fatal, here or in a goroutine, by a panic or *)
(*               by a signal                                               *)
(*                                                                         *)
(* What a call does to the registry is in AgentServer, what a reload does  *)
(* is in CertReloader.                                                     *)
(***************************************************************************)
EXTENDS Naturals, Sequences, FiniteSets

CONSTANTS
    Calls,          \* gRPC calls, each made at most once
    Requests,       \* HTTP requests, each made at most once
    SignalBuffer,   \* capacity of sigCh (1)
    MaxSignals      \* bound of the model: signals sent to the process

ASSUME SignalsAssumption == SignalBuffer \in Nat /\ MaxSignals \in Nat
ASSUME CallsAssumption == IsFiniteSet(Calls)

VARIABLES
    flags,          \* which of the flags are given
    main,           \* where the main goroutine is
    tls,            \* tlsEnabled
    grpc,           \* the gRPC server: "off", "spawned", "up", "draining", "stopped"
    http,           \* the HTTP server: "off", "spawned", "up", "closed"
    sigCh,          \* signals in the channel
    signals,        \* signals sent so far
    hup,            \* history: a SIGHUP came after the last reload began
    call,           \* call -> [at, kind, code]
    activeStreams,  \* gauge grpcActiveStreams
    counted,        \* code -> counter grpcServerRequests
    request         \* HTTP request -> "none", "handling", "over" or "cut"

processVars == <<flags, main, tls, sigCh, signals, hup>>
callVars == <<call, activeStreams, counted>>
cpVars == <<processVars, grpc, http, callVars, request>>

-----------------------------------------------------------------------------
Flags == [cert : BOOLEAN, key : BOOLEAN, requireTLS : BOOLEAN, token : BOOLEAN]

Mains == {"start", "loadTLS", "serve", "notify", "ready", "reload",
          "grpcStop", "httpStop", "down", "dead"}

Over == main \in {"down", "dead"}

\* How a stream's handler may return once the token is accepted: at EOF, with
\* a message it refuses or cannot decode, or broken off.
StreamCodes == {"OK", "InvalidArgument", "Internal", "Canceled", "Unavailable"}

Codes == StreamCodes \cup {"Unauthenticated", "PermissionDenied"}

NoCall == [at |-> "none", kind |-> "unary", code |-> "OK"]

\* Calls whose handler, or an interceptor around it, is running.
InFlight == {c \in Calls : call[c].at \in {"entered", "handling", "returned"}}

ActiveStreams == {c \in InFlight : call[c].kind = "stream"}

ControlPlaneInit ==
    /\ flags \in Flags
    /\ main = "start"
    /\ tls = FALSE
    /\ grpc = "off" /\ http = "off"
    /\ sigCh = << >> /\ signals = 0 /\ hup = FALSE
    /\ call = [c \in Calls |-> NoCall]
    /\ activeStreams = 0
    /\ counted = [k \in Codes |-> 0]
    /\ request = [r \in Requests |-> "none"]

-----------------------------------------------------------------------------
(* Startup.                                                                *)

\* Mutant: a missing certificate and key are not refused.
ConfigureLenient ==
    /\ main = "start"
    /\ \/ main' = "dead"
       \/ main' = CASE ~flags.cert /\ ~flags.key -> "serve"
                    [] flags.cert # flags.key -> "dead"
                    [] OTHER -> "loadTLS"
    /\ UNCHANGED <<flags, tls, sigCh, signals, hup, grpc, http, callVars, request>>

\* net.Listen, which ends the process if the address is taken, and the switch
\* on the TLS flags.
Configure ==
    /\ main = "start"
    /\ \/ main' = "dead"
       \/ main' = CASE ~flags.cert /\ ~flags.key ->
                           IF flags.requireTLS THEN "dead" ELSE "serve"
                    [] flags.cert # flags.key -> "dead"
                    [] OTHER -> "loadTLS"
    /\ UNCHANGED <<flags, tls, sigCh, signals, hup, grpc, http, callVars, request>>

\* tlsreload.New loads the files, or the process ends.
LoadTLS ==
    /\ main = "loadTLS"
    /\ \/ main' = "serve" /\ tls' = TRUE
       \/ main' = "dead" /\ UNCHANGED tls
    /\ UNCHANGED <<flags, sigCh, signals, hup, grpc, http, callVars, request>>

\* Both servers get a goroutine.
Serve ==
    /\ main = "serve"
    /\ main' = "notify"
    /\ grpc' = "spawned" /\ http' = "spawned"
    /\ UNCHANGED <<flags, tls, sigCh, signals, hup, callVars, request>>

Notify ==
    /\ main = "notify"
    /\ main' = "ready"
    /\ UNCHANGED <<flags, tls, sigCh, signals, hup, grpc, http, callVars, request>>

\* log.Fatal or a panic in a goroutine ends the process.
Fatal ==
    /\ main' = "dead"
    /\ UNCHANGED <<flags, tls, sigCh, signals, hup, callVars, request>>

\* The goroutine calls grpcServer.Serve.  After GracefulStop that is an error,
\* and the goroutine takes the process down.
GrpcServes ==
    /\ ~Over /\ grpc = "spawned"
    /\ IF main \in {"grpcStop", "httpStop"}
       THEN Fatal /\ UNCHANGED <<grpc, http>>
       ELSE grpc' = "up" /\ UNCHANGED <<processVars, http, callVars, request>>

\* The goroutine calls ListenAndServe, which may find the address taken.
\* After Shutdown it returns ErrServerClosed, which is not an error.
HttpServes ==
    /\ ~Over /\ http = "spawned"
    /\ \/ /\ http' = IF main = "httpStop" THEN "closed" ELSE "up"
          /\ UNCHANGED <<processVars, grpc, callVars, request>>
       \/ /\ main # "httpStop"
          /\ Fatal
          /\ UNCHANGED <<grpc, http>>

-----------------------------------------------------------------------------
(* Signals.                                                                *)

Noted(s) == hup' = (hup \/ (s = "HUP" /\ tls))

\* Mutant: the channel has no buffer.
SignalUnbuffered(s) ==
    /\ ~Over
    /\ signals < MaxSignals
    /\ signals' = signals + 1
    /\ IF main \in {"start", "loadTLS", "serve", "notify"}
       THEN main' = "dead" /\ UNCHANGED <<sigCh, hup>>
       ELSE /\ sigCh' = IF main = "ready" /\ sigCh = << >> THEN <<s>> ELSE sigCh
            /\ Noted(s)
            /\ UNCHANGED main
    /\ UNCHANGED <<flags, tls, grpc, http, callVars, request>>

\* A signal arrives.  Before signal.Notify it kills; afterwards it goes into
\* the channel, and is dropped if the channel is full.
Signal(s) ==
    /\ ~Over
    /\ signals < MaxSignals
    /\ signals' = signals + 1
    /\ IF main \in {"start", "loadTLS", "serve", "notify"}
       THEN main' = "dead" /\ UNCHANGED <<sigCh, hup>>
       ELSE /\ sigCh' = IF Len(sigCh) < SignalBuffer THEN Append(sigCh, s) ELSE sigCh
            /\ Noted(s)
            /\ UNCHANGED main
    /\ UNCHANGED <<flags, tls, grpc, http, callVars, request>>

\* The main goroutine takes a signal: a reload in this very goroutine, or the
\* beginning of the end.  GracefulStop refuses new calls from its first moment.
TakeSignal ==
    /\ main = "ready"
    /\ sigCh # << >>
    /\ sigCh' = Tail(sigCh)
    /\ IF Head(sigCh) = "HUP"
       THEN /\ main' = IF tls THEN "reload" ELSE "ready"
            /\ hup' = FALSE
            /\ UNCHANGED grpc
       ELSE /\ main' = "grpcStop"
            /\ grpc' = IF grpc = "up" THEN "draining" ELSE grpc
            /\ UNCHANGED hup
    /\ UNCHANGED <<flags, tls, signals, http, callVars, request>>

ReloadReturns ==
    /\ main = "reload"
    /\ main' = "ready"
    /\ UNCHANGED <<flags, tls, sigCh, signals, hup, grpc, http, callVars, request>>

-----------------------------------------------------------------------------
(* gRPC calls.                                                             *)

\* What the bearer-token check says to a call that presents no token, a wrong
\* one or the right one.
validateBearerToken(presented) ==
    CASE ~flags.token \/ presented = "right" -> "OK"
      [] presented = "none" -> "Unauthenticated"
      [] OTHER -> "PermissionDenied"

\* A call arrives; the metrics interceptor is the outermost layer.  The code
\* kept is the verdict on the token.
Arrive(c, kind, presented) ==
    /\ ~Over /\ grpc = "up"
    /\ call[c].at = "none"
    /\ call' = [call EXCEPT ![c] = [at |-> "entered", kind |-> kind,
                                    code |-> validateBearerToken(presented)]]
    /\ activeStreams' = IF kind = "stream" THEN activeStreams + 1 ELSE activeStreams
    /\ UNCHANGED <<processVars, grpc, http, counted, request>>

\* Mutant: the check runs outside the metrics interceptor.
AuthenticateOutside(c) ==
    /\ ~Over /\ call[c].at = "entered"
    /\ call' = [call EXCEPT ![c].at = IF call[c].code = "OK" THEN "handling" ELSE "over"]
    /\ activeStreams' = IF call[c].code # "OK" /\ call[c].kind = "stream"
                        THEN activeStreams - 1 ELSE activeStreams
    /\ UNCHANGED <<processVars, grpc, http, counted, request>>

\* The unary interceptor, or the handler of a stream itself, refuses the call
\* or lets it through.
Authenticate(c) ==
    /\ ~Over /\ call[c].at = "entered"
    /\ call' = [call EXCEPT ![c].at = IF call[c].code = "OK" THEN "handling" ELSE "returned"]
    /\ UNCHANGED <<processVars, grpc, http, activeStreams, counted, request>>

\* A unary handler validates its request and acknowledges it.
HandleUnary(c) ==
    /\ ~Over /\ call[c].at = "handling" /\ call[c].kind = "unary"
    /\ \E code \in {"OK", "InvalidArgument"} :
         call' = [call EXCEPT ![c].at = "returned", ![c].code = code]
    /\ UNCHANGED <<processVars, grpc, http, activeStreams, counted, request>>

\* The registry panics at a Register request without resources; no interceptor
\* recovers, and the process ends.
Panic(c) ==
    /\ ~Over /\ call[c].at = "handling" /\ call[c].kind = "unary"
    /\ Fatal
    /\ UNCHANGED <<grpc, http>>

\* Mutant: nothing ends a stream once the server drains.
StreamEndsServing(c) ==
    /\ ~Over /\ call[c].at = "handling" /\ call[c].kind = "stream"
    /\ grpc = "up"
    /\ \E code \in StreamCodes :
         call' = [call EXCEPT ![c].at = "returned", ![c].code = code]
    /\ UNCHANGED <<processVars, grpc, http, activeStreams, counted, request>>

\* A stream ends: its client closes it or sends something invalid, or the
\* connection breaks or reaches its MaxConnectionAge.
StreamEnds(c) ==
    /\ ~Over /\ call[c].at = "handling" /\ call[c].kind = "stream"
    /\ \E code \in StreamCodes :
         call' = [call EXCEPT ![c].at = "returned", ![c].code = code]
    /\ UNCHANGED <<processVars, grpc, http, activeStreams, counted, request>>

\* Mutant: the gauge goes down only after a call that went well.
CountKeepsFailed(c) ==
    /\ ~Over /\ call[c].at = "returned"
    /\ call' = [call EXCEPT ![c].at = "over"]
    /\ counted' = [counted EXCEPT ![call[c].code] = @ + 1]
    /\ activeStreams' = IF call[c].kind = "stream" /\ call[c].code = "OK"
                        THEN activeStreams - 1 ELSE activeStreams
    /\ UNCHANGED <<processVars, grpc, http, request>>

\* The metrics interceptor counts the call by its code and, for a stream, the
\* gauge goes down.
Count(c) ==
    /\ ~Over /\ call[c].at = "returned"
    /\ call' = [call EXCEPT ![c].at = "over"]
    /\ counted' = [counted EXCEPT ![call[c].code] = @ + 1]
    /\ activeStreams' = IF call[c].kind = "stream" THEN activeStreams - 1 ELSE activeStreams
    /\ UNCHANGED <<processVars, grpc, http, request>>

-----------------------------------------------------------------------------
(* HTTP requests.  Whether the API key was right only decides what the      *)
(* answer says.                                                            *)

RequestArrives(r) ==
    /\ ~Over /\ http = "up" /\ main # "httpStop"
    /\ request[r] = "none"
    /\ request' = [request EXCEPT ![r] = "handling"]
    /\ UNCHANGED <<processVars, grpc, http, callVars>>

Answer(r) ==
    /\ ~Over /\ request[r] = "handling"
    /\ request' = [request EXCEPT ![r] = "over"]
    /\ UNCHANGED <<processVars, grpc, http, callVars>>

-----------------------------------------------------------------------------
(* The way down.                                                           *)

\* GracefulStop returns when every handler has; the HTTP server, which has
\* gone on answering, is told to shut down.
GracefulStopReturns ==
    /\ main = "grpcStop"
    /\ InFlight = {}
    /\ main' = "httpStop"
    /\ grpc' = IF grpc = "draining" THEN "stopped" ELSE grpc
    /\ UNCHANGED <<flags, tls, sigCh, signals, hup, http, callVars, request>>

\* Shutdown returns when the requests have been answered, or after 10 s; then
\* main returns and cuts short what is left.
ShutdownReturns ==
    /\ main = "httpStop"
    /\ main' = "down"
    /\ http' = "closed"
    /\ request' = [r \in Requests |->
                     IF request[r] = "handling" THEN "cut" ELSE request[r]]
    /\ UNCHANGED <<flags, tls, sigCh, signals, hup, grpc, callVars>>

\* The main goroutine waits for a signal, or the process is gone.
Rest ==
    /\ Over \/ (main = "ready" /\ sigCh = << >>)
    /\ UNCHANGED cpVars

MainStep ==
    \/ Configure \/ LoadTLS \/ Serve \/ Notify
    \/ TakeSignal \/ ReloadReturns
    \/ GracefulStopReturns \/ ShutdownReturns

CallStep(c) ==
    Authenticate(c) \/ HandleUnary(c) \/ Panic(c) \/ StreamEnds(c) \/ Count(c)

ControlPlaneNext ==
    \/ MainStep
    \/ GrpcServes \/ HttpServes
    \/ \E s \in {"HUP", "TERM"} : Signal(s)
    \/ \E c \in Calls : \/ CallStep(c)
                        \/ \E kind \in {"unary", "stream"},
                              p \in {"none", "wrong", "right"} : Arrive(c, kind, p)
    \/ \E r \in Requests : RequestArrives(r) \/ Answer(r)
    \/ Rest

ControlPlaneSpec == ControlPlaneInit /\ [][ControlPlaneNext]_cpVars

(* Goroutines are scheduled, and no stream outlives MaxConnectionAge and    *)
(* its grace.  Nobody has to call, to ask or to send a signal.             *)
ControlPlaneFairSpec ==
    /\ ControlPlaneSpec
    /\ WF_cpVars(MainStep)
    /\ WF_cpVars(GrpcServes)
    /\ \A c \in Calls : WF_cpVars(CallStep(c))

-----------------------------------------------------------------------------
(* Properties.                                                             *)

\* Type invariant of the process.
ControlPlaneTypeOK ==
    /\ flags \in Flags
    /\ main \in Mains
    /\ tls \in BOOLEAN /\ hup \in BOOLEAN
    /\ grpc \in {"off", "spawned", "up", "draining", "stopped"}
    /\ http \in {"off", "spawned", "up", "closed"}
    /\ sigCh \in Seq({"HUP", "TERM"}) /\ Len(sigCh) <= SignalBuffer
    /\ signals \in 0..MaxSignals
    /\ call \in [Calls -> [at : {"none", "entered", "handling", "returned", "over"},
                           kind : {"unary", "stream"}, code : Codes]]
    /\ activeStreams \in 0..Cardinality(Calls)
    /\ counted \in [Codes -> 0..Cardinality(Calls)]
    /\ request \in [Requests -> {"none", "handling", "over", "cut"}]

\* The gauge of active streams is the number of stream calls in flight,
\* whether they are refused, fail or end well, and so 0 once the gRPC server
\* has been drained.
StreamGaugeExact == activeStreams = Cardinality(ActiveStreams)

\* What main.go says of the order of the interceptors: every call that is over
\* has been counted under the code it got, the ones refused for their token
\* included.
EveryCallCounted ==
    \A k \in Codes :
        counted[k] = Cardinality({c \in Calls : call[c].at = "over" /\ call[c].code = k})

\* With --require-tls no call is ever taken over plaintext, and without TLS
\* there is no reloader for a SIGHUP to use.
NoPlaintextIfRequired ==
    /\ flags.requireTLS /\ grpc # "off" => tls
    /\ main = "reload" => tls

\* A SIGHUP is followed by a reload that begins after it, so that files written
\* before the signal are seen, however many signals come while an earlier
\* reload runs; unless the process is on its way down.
HupIsServed == hup ~> (~hup \/ main \in {"grpcStop", "httpStop", "down", "dead"})

\* Once a SIGTERM is in the channel the process ends: it waits neither for a
\* signal behind it nor for clients that never hang up.
TermEndsProcess == (\E i \in 1..Len(sigCh) : sigCh[i] = "TERM") ~> Over
=============================================================================
