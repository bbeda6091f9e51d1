------------------------- MODULE ControlPlaneProofs -------------------------
(***************************************************************************)
(* Proofs about the life of the control-plane process for any number of    *)
(* calls, requests and signals.                                            *)
(***************************************************************************)
EXTENDS ControlPlane, FiniteSetTheorems, TLAPS

CallRecords ==
    [at : {"none", "entered", "handling", "returned", "over"},
     kind : {"unary", "stream"}, code : Codes]

-----------------------------------------------------------------------------
(* TLS.  Past the check of the flags, TLS is on if it is required.         *)

TLSInv ==
    /\ flags \in Flags
    /\ main \in {"start", "loadTLS", "dead"} \/ (flags.requireTLS => tls)
    /\ main \in {"start", "loadTLS"} => grpc = "off"
    /\ grpc # "off" => (flags.requireTLS => tls)
    /\ main = "reload" => tls
    /\ main = "start" => ~tls

LEMMA TLSInvInit == ControlPlaneInit => TLSInv
  BY DEF ControlPlaneInit, TLSInv

LEMMA TLSInvStep == TLSInv /\ [ControlPlaneNext]_cpVars => TLSInv'
  <1> SUFFICES ASSUME TLSInv, [ControlPlaneNext]_cpVars PROVE TLSInv'
    OBVIOUS
  <1> USE DEF TLSInv
  <1>1. CASE Configure
    BY <1>1 DEF Configure, Flags
  <1>2. CASE LoadTLS
    BY <1>2 DEF LoadTLS
  <1>3. CASE Serve \/ Notify
    BY <1>3 DEF Serve, Notify
  <1>4. CASE TakeSignal
    BY <1>4 DEF TakeSignal
  <1>5. CASE ReloadReturns \/ GracefulStopReturns \/ ShutdownReturns
    BY <1>5 DEF ReloadReturns, GracefulStopReturns, ShutdownReturns
  <1>6. CASE GrpcServes
    BY <1>6 DEF GrpcServes, Fatal, processVars
  <1>7. CASE HttpServes
    BY <1>7 DEF HttpServes, Fatal, processVars
  <1>8. ASSUME NEW s \in {"HUP", "TERM"}, Signal(s) PROVE TLSInv'
    BY <1>8 DEF Signal
  <1>9. ASSUME NEW c \in Calls, CallStep(c) PROVE TLSInv'
    BY <1>9 DEF CallStep, Authenticate, HandleUnary, Panic, Fatal, StreamEnds, Count,
       processVars
  <1>10. ASSUME NEW c \in Calls, NEW k, NEW p, Arrive(c, k, p) PROVE TLSInv'
    BY <1>10 DEF Arrive, processVars
  <1>11. ASSUME NEW r \in Requests, RequestArrives(r) \/ Answer(r) PROVE TLSInv'
    BY <1>11 DEF RequestArrives, Answer, processVars
  <1>12. CASE Rest \/ UNCHANGED cpVars
    BY <1>12 DEF Rest, cpVars, processVars
  <1> QED
    BY <1>1, <1>2, <1>3, <1>4, <1>5, <1>6, <1>7, <1>8, <1>9, <1>10, <1>11, <1>12
       DEF ControlPlaneNext, MainStep

\* A process started with --require-tls never serves over plaintext, and no
\* SIGHUP makes it use a reloader it does not have.
THEOREM PlaintextNeverServed == ControlPlaneSpec => []NoPlaintextIfRequired
  <1>1. TLSInv => NoPlaintextIfRequired
    BY DEF TLSInv, NoPlaintextIfRequired
  <1> QED
    BY <1>1, TLSInvInit, TLSInvStep, PTL DEF ControlPlaneSpec

-----------------------------------------------------------------------------
(* Calls.  Each step of a call moves it between the sets that the gauge    *)
(* and the counters measure.                                               *)

OverWith(k) == {c \in Calls : call[c].at = "over" /\ call[c].code = k}

CallInv ==
    /\ call \in [Calls -> CallRecords]
    /\ activeStreams \in Nat
    /\ counted \in [Codes -> Nat]
    /\ StreamGaugeExact
    /\ \A k \in Codes : counted[k] = Cardinality(OverWith(k))

LEMMA SubsetFinite == \A S : S \subseteq Calls => IsFiniteSet(S)
  BY CallsAssumption, FS_Subset

\* A step that keeps both sets, the gauge and the counters.
LEMMA SetsKept ==
    ASSUME CallInv, call' \in [Calls -> CallRecords],
           activeStreams' = activeStreams, counted' = counted,
           ActiveStreams' = ActiveStreams,
           \A k \in Codes : OverWith(k)' = OverWith(k)
    PROVE  CallInv'
  <1>1. StreamGaugeExact'
    BY DEF CallInv, StreamGaugeExact
  <1>2. \A k \in Codes : (counted[k] = Cardinality(OverWith(k)))'
    BY DEF CallInv
  <1> QED
    BY <1>1, <1>2 DEF CallInv

LEMMA CallInvInit == ControlPlaneInit => CallInv
  <1> SUFFICES ASSUME ControlPlaneInit PROVE CallInv
    OBVIOUS
  <1>1. call \in [Calls -> CallRecords] /\ activeStreams \in Nat /\ counted \in [Codes -> Nat]
    BY DEF ControlPlaneInit, NoCall, CallRecords, Codes, StreamCodes
  <1>2. ActiveStreams = {} /\ \A k \in Codes : OverWith(k) = {}
    BY DEF ControlPlaneInit, NoCall, ActiveStreams, InFlight, OverWith
  <1> QED
    BY <1>1, <1>2, FS_EmptySet DEF ControlPlaneInit, CallInv, StreamGaugeExact

\* Arrival: a stream joins the active ones, nothing is over yet.
LEMMA ArriveInv ==
    ASSUME CallInv, NEW c \in Calls, NEW kind \in {"unary", "stream"}, NEW p,
           Arrive(c, kind, p)
    PROVE  CallInv'
  <1>1. /\ validateBearerToken(p) \in Codes
        /\ call' = [call EXCEPT ![c] = [at |-> "entered", kind |-> kind,
                                        code |-> validateBearerToken(p)]]
        /\ call[c].at = "none" /\ counted' = counted
    BY DEF Arrive, validateBearerToken, Codes, StreamCodes
  <1>2. call' \in [Calls -> CallRecords]
    BY <1>1 DEF CallInv, CallRecords
  <1>3. /\ call'[c].at = "entered" /\ call'[c].kind = kind
        /\ \A d \in Calls : d # c => call'[d] = call[d]
    BY <1>1 DEF CallInv
  <1>4. ASSUME NEW k \in Codes PROVE OverWith(k)' = OverWith(k)
    BY <1>1, <1>3 DEF OverWith
  <1>5. c \notin ActiveStreams /\ IsFiniteSet(ActiveStreams)
    BY <1>1, SubsetFinite DEF ActiveStreams, InFlight
  <1>6. CASE kind = "unary"
    <2>1. ActiveStreams' = ActiveStreams
      BY <1>1, <1>3, <1>6 DEF ActiveStreams, InFlight
    <2>2. activeStreams' = activeStreams
      BY <1>6 DEF Arrive
    <2> QED
      BY <1>1, <1>2, <1>4, <2>1, <2>2, SetsKept
  <1>7. CASE kind = "stream"
    <2>1. ActiveStreams' = ActiveStreams \cup {c}
      BY <1>1, <1>3, <1>7 DEF ActiveStreams, InFlight
    <2>2. activeStreams' = activeStreams + 1
      BY <1>7 DEF Arrive
    <2>3. Cardinality(ActiveStreams \cup {c}) = Cardinality(ActiveStreams) + 1
      BY <1>5, FS_AddElement
    <2>4. StreamGaugeExact'
      BY <2>1, <2>2, <2>3 DEF CallInv, StreamGaugeExact
    <2>5. \A k \in Codes : (counted[k] = Cardinality(OverWith(k)))'
      BY <1>1, <1>4 DEF CallInv
    <2>6. activeStreams' \in Nat
      BY <2>2 DEF CallInv
    <2> QED
      BY <1>1, <1>2, <2>4, <2>5, <2>6 DEF CallInv
  <1> QED
    BY <1>6, <1>7

\* Between arrival and the end of its handler a call stays where it counts.
LEMMA UnderWayInv ==
    ASSUME CallInv, NEW c \in Calls,
           Authenticate(c) \/ HandleUnary(c) \/ StreamEnds(c)
    PROVE  CallInv'
  <1>1. PICK at \in {"handling", "returned"}, code \in Codes :
            /\ call[c].at \in {"entered", "handling"}
            /\ call' = [call EXCEPT ![c].at = at, ![c].code = code]
    <2>1. CASE Authenticate(c)
      <3>1. call[c].code \in Codes
        BY DEF CallInv, CallRecords
      <3>2. call' = [call EXCEPT ![c].at = IF call[c].code = "OK" THEN "handling" ELSE "returned",
                                 ![c].code = call[c].code]
        BY <2>1 DEF Authenticate, CallInv, CallRecords
      <3>3. call[c].at = "entered"
        BY <2>1 DEF Authenticate
      <3> QED
        BY <3>1, <3>2, <3>3
    <2>2. CASE HandleUnary(c)
      BY <2>2 DEF HandleUnary, Codes, StreamCodes
    <2>3. CASE StreamEnds(c)
      BY <2>3 DEF StreamEnds, Codes, StreamCodes
    <2> QED
      BY <2>1, <2>2, <2>3
  <1>2. activeStreams' = activeStreams /\ counted' = counted
    BY DEF Authenticate, HandleUnary, StreamEnds
  <1>3. call' \in [Calls -> CallRecords]
    BY <1>1 DEF CallInv, CallRecords
  <1>4. /\ call'[c].at = at /\ call'[c].kind = call[c].kind
        /\ \A d \in Calls : d # c => call'[d] = call[d]
    BY <1>1 DEF CallInv, CallRecords
  <1>5. ActiveStreams' = ActiveStreams
    BY <1>1, <1>4, ZenonT(60) DEF ActiveStreams, InFlight
  <1>6. \A k \in Codes : OverWith(k)' = OverWith(k)
    BY <1>1, <1>4 DEF OverWith
  <1> QED
    BY <1>2, <1>3, <1>5, <1>6, SetsKept

\* The interceptor's last step: the call is over and counted, and a stream is
\* no longer active.
LEMMA CountInv ==
    ASSUME CallInv, NEW c \in Calls, Count(c)
    PROVE  CallInv'
  <1> DEFINE k0 == call[c].code
  <1>1. /\ call[c].at = "returned" /\ k0 \in Codes
        /\ call' = [call EXCEPT ![c].at = "over"]
        /\ counted' = [counted EXCEPT ![k0] = counted[k0] + 1]
    BY DEF Count, CallInv, CallRecords
  <1>2. call' \in [Calls -> CallRecords]
    BY <1>1 DEF CallInv, CallRecords
  <1>3. /\ call'[c].at = "over" /\ call'[c].code = k0
        /\ \A d \in Calls : d # c => call'[d] = call[d]
    BY <1>1 DEF CallInv, CallRecords
  <1>4. counted' \in [Codes -> Nat]
    BY <1>1 DEF CallInv
  <1>5. ASSUME NEW k \in Codes PROVE counted'[k] = Cardinality(OverWith(k)')
    <2>1. CASE k = k0
      <3>1. OverWith(k)' = OverWith(k) \cup {c} /\ c \notin OverWith(k)
        BY <1>1, <1>3, <2>1 DEF OverWith
      <3>2. Cardinality(OverWith(k) \cup {c}) = Cardinality(OverWith(k)) + 1
        BY <3>1, SubsetFinite, FS_AddElement DEF OverWith
      <3>3. counted'[k] = counted[k] + 1
        BY <1>1, <2>1 DEF CallInv
      <3> QED
        BY <3>1, <3>2, <3>3 DEF CallInv
    <2>2. CASE k # k0
      <3>1. OverWith(k)' = OverWith(k)
        BY <1>1, <1>3, <2>2 DEF OverWith
      <3>2. counted'[k] = counted[k]
        BY <1>1, <2>2 DEF CallInv
      <3> QED
        BY <3>1, <3>2 DEF CallInv
    <2> QED
      BY <2>1, <2>2
  <1>6. activeStreams' \in Nat /\ StreamGaugeExact'
    <2>1. CASE call[c].kind = "stream"
      <3>1. ActiveStreams' = ActiveStreams \ {c} /\ c \in ActiveStreams
        BY <1>1, <1>3, <2>1 DEF ActiveStreams, InFlight
      <3>2. IsFiniteSet(ActiveStreams)
        BY SubsetFinite DEF ActiveStreams, InFlight
      <3>3. /\ Cardinality(ActiveStreams \ {c}) = Cardinality(ActiveStreams) - 1
            /\ Cardinality(ActiveStreams \ {c}) \in Nat
        BY <3>1, <3>2, FS_RemoveElement, FS_CardinalityType
      <3>4. activeStreams' = activeStreams - 1
        BY <2>1 DEF Count
      <3> QED
        BY <3>1, <3>3, <3>4 DEF CallInv, StreamGaugeExact
    <2>2. CASE call[c].kind # "stream"
      <3>1. ActiveStreams' = ActiveStreams
        BY <1>1, <1>3, <2>2 DEF ActiveStreams, InFlight
      <3>2. activeStreams' = activeStreams
        BY <2>2 DEF Count
      <3> QED
        BY <3>1, <3>2 DEF CallInv, StreamGaugeExact
    <2> QED
      BY <2>1, <2>2
  <1> QED
    BY <1>2, <1>4, <1>5, <1>6 DEF CallInv

LEMMA CallInvStep == CallInv /\ [ControlPlaneNext]_cpVars => CallInv'
  <1> SUFFICES ASSUME CallInv, [ControlPlaneNext]_cpVars PROVE CallInv'
    OBVIOUS
  <1>1. ASSUME UNCHANGED callVars PROVE CallInv'
    BY <1>1 DEF CallInv, callVars, StreamGaugeExact, ActiveStreams, InFlight, OverWith
  <1>2. CASE MainStep
    BY <1>1, <1>2 DEF MainStep, Configure, LoadTLS, Serve, Notify, TakeSignal,
         ReloadReturns, GracefulStopReturns, ShutdownReturns
  <1>3. CASE GrpcServes \/ HttpServes
    BY <1>1, <1>3 DEF GrpcServes, HttpServes, Fatal
  <1>4. ASSUME NEW s \in {"HUP", "TERM"}, Signal(s) PROVE CallInv'
    BY <1>1, <1>4 DEF Signal
  <1>5. ASSUME NEW c \in Calls, CallStep(c) PROVE CallInv'
    <2>1. CASE Panic(c)
      BY <1>1, <2>1 DEF Panic, Fatal
    <2> QED
      BY <1>5, <2>1, UnderWayInv, CountInv DEF CallStep
  <1>6. ASSUME NEW c \in Calls, NEW kind \in {"unary", "stream"}, NEW p, Arrive(c, kind, p)
        PROVE  CallInv'
    BY <1>6, ArriveInv
  <1>7. ASSUME NEW r \in Requests, RequestArrives(r) \/ Answer(r) PROVE CallInv'
    BY <1>1, <1>7 DEF RequestArrives, Answer
  <1>8. CASE Rest \/ UNCHANGED cpVars
    BY <1>1, <1>8 DEF Rest, cpVars
  <1> QED
    BY <1>2, <1>3, <1>4, <1>5, <1>6, <1>7, <1>8 DEF ControlPlaneNext

LEMMA CallInvariant == ControlPlaneSpec => []CallInv
  BY CallInvInit, CallInvStep, PTL DEF ControlPlaneSpec

\* The stream gauge is exact for any number of concurrent calls.
THEOREM GaugeExact == ControlPlaneSpec => []StreamGaugeExact
  <1>1. CallInv => StreamGaugeExact
    BY DEF CallInv
  <1> QED
    BY <1>1, CallInvariant, PTL

\* Every call that is over was counted once, under its own code.
THEOREM CallsCounted == ControlPlaneSpec => []EveryCallCounted
  <1>1. CallInv => EveryCallCounted
    BY DEF CallInv, EveryCallCounted, OverWith
  <1> QED
    BY <1>1, CallInvariant, PTL

-----------------------------------------------------------------------------
(* Types.  What the calls touch follows from CallInv: a gauge and counters *)
(* that count calls are bounded by the number of calls.                    *)

\* What the process keeps besides the calls.
ProcessTypeOK ==
    /\ flags \in Flags
    /\ main \in Mains
    /\ tls \in BOOLEAN /\ hup \in BOOLEAN
    /\ grpc \in {"off", "spawned", "up", "draining", "stopped"}
    /\ http \in {"off", "spawned", "up", "closed"}
    /\ sigCh \in Seq({"HUP", "TERM"}) /\ Len(sigCh) <= SignalBuffer
    /\ signals \in 0..MaxSignals
    /\ request \in [Requests -> {"none", "handling", "over", "cut"}]

LEMMA ProcessTypeInit == ControlPlaneInit => ProcessTypeOK
  <1> SUFFICES ASSUME ControlPlaneInit PROVE ProcessTypeOK
    OBVIOUS
  <1>1. sigCh \in Seq({"HUP", "TERM"}) /\ Len(sigCh) <= SignalBuffer /\ signals \in 0..MaxSignals
    BY SignalsAssumption DEF ControlPlaneInit
  <1>2. /\ flags \in Flags /\ main \in Mains /\ tls \in BOOLEAN /\ hup \in BOOLEAN
        /\ request \in [Requests -> {"none", "handling", "over", "cut"}]
    BY DEF ControlPlaneInit, Mains
  <1> QED
    BY <1>1, <1>2 DEF ControlPlaneInit, ProcessTypeOK

LEMMA ProcessTypeStep == ProcessTypeOK /\ [ControlPlaneNext]_cpVars => ProcessTypeOK'
  <1> SUFFICES ASSUME ProcessTypeOK, [ControlPlaneNext]_cpVars PROVE ProcessTypeOK'
    OBVIOUS
  <1> USE SignalsAssumption DEF ProcessTypeOK
  <1>1. CASE Configure \/ LoadTLS \/ Serve \/ Notify \/ ReloadReturns
    BY <1>1 DEF Configure, LoadTLS, Serve, Notify, ReloadReturns, Mains
  <1>2. CASE TakeSignal
    <2>1. sigCh' \in Seq({"HUP", "TERM"}) /\ Len(sigCh') = Len(sigCh) - 1
      BY <1>2 DEF TakeSignal
    <2>2. main' \in Mains /\ hup' \in BOOLEAN
      BY <1>2 DEF TakeSignal, Mains
    <2>3. grpc' \in {"off", "spawned", "up", "draining", "stopped"}
      BY <1>2 DEF TakeSignal
    <2> QED
      BY <1>2, <2>1, <2>2, <2>3 DEF TakeSignal
  <1>3. CASE GracefulStopReturns \/ ShutdownReturns
    BY <1>3 DEF GracefulStopReturns, ShutdownReturns, Mains
  <1>4. CASE GrpcServes \/ HttpServes
    BY <1>4 DEF GrpcServes, HttpServes, Fatal, processVars, Mains
  <1>5. ASSUME NEW s \in {"HUP", "TERM"}, Signal(s) PROVE ProcessTypeOK'
    <2>1. sigCh' \in Seq({"HUP", "TERM"}) /\ Len(sigCh') <= SignalBuffer
      BY <1>5 DEF Signal
    <2>2. main' \in Mains /\ signals' \in 0..MaxSignals
      BY <1>5 DEF Signal, Mains
    <2>3. hup' \in BOOLEAN
      BY <1>5 DEF Signal, Noted
    <2> QED
      BY <1>5, <2>1, <2>2, <2>3 DEF Signal
  <1>6. ASSUME NEW c \in Calls, CallStep(c) PROVE ProcessTypeOK'
    <2>1. CASE Panic(c)
      BY <2>1 DEF Panic, Fatal, Mains
    <2>2. CASE Authenticate(c) \/ HandleUnary(c) \/ StreamEnds(c) \/ Count(c)
      BY <2>2 DEF Authenticate, HandleUnary, StreamEnds, Count, processVars
    <2> QED
      BY <1>6, <2>1, <2>2 DEF CallStep
  <1>7. ASSUME NEW c \in Calls, NEW k, NEW p, Arrive(c, k, p) PROVE ProcessTypeOK'
    BY <1>7 DEF Arrive, processVars
  <1>8. ASSUME NEW r \in Requests, RequestArrives(r) \/ Answer(r) PROVE ProcessTypeOK'
    BY <1>8 DEF RequestArrives, Answer, processVars
  <1>9. CASE Rest \/ UNCHANGED cpVars
    BY <1>9 DEF Rest, cpVars, processVars
  <1> QED
    BY <1>1, <1>2, <1>3, <1>4, <1>5, <1>6, <1>7, <1>8, <1>9 DEF ControlPlaneNext, MainStep

\* Every reachable state of the process is well typed; neither the gauge nor
\* a counter passes the number of calls, and the channel never overflows.
THEOREM ControlPlaneTypeCorrect == ControlPlaneSpec => []ControlPlaneTypeOK
  <1>1. ASSUME CallInv, ProcessTypeOK PROVE ControlPlaneTypeOK
    <2>1. ASSUME NEW S \in SUBSET Calls
          PROVE  Cardinality(S) \in 0..Cardinality(Calls)
      <3>1. IsFiniteSet(S) /\ Cardinality(S) <= Cardinality(Calls)
        BY CallsAssumption, FS_Subset
      <3>2. Cardinality(S) \in Nat /\ Cardinality(Calls) \in Nat
        BY <3>1, CallsAssumption, FS_CardinalityType
      <3> QED
        BY <3>1, <3>2
    <2>2. activeStreams \in 0..Cardinality(Calls)
      BY <1>1, <2>1 DEF CallInv, StreamGaugeExact, ActiveStreams, InFlight
    <2>3. \A k \in Codes : counted[k] \in 0..Cardinality(Calls)
      BY <1>1, <2>1 DEF CallInv, OverWith
    <2>4. counted \in [Codes -> 0..Cardinality(Calls)]
      BY <1>1, <2>3 DEF CallInv
    <2> QED
      BY <1>1, <2>2, <2>4 DEF CallInv, CallRecords, ProcessTypeOK, ControlPlaneTypeOK
  <1>2. CallInv /\ ProcessTypeOK => ControlPlaneTypeOK
    BY <1>1
  <1> QED
    BY <1>2, CallInvariant, ProcessTypeInit, ProcessTypeStep, PTL DEF ControlPlaneSpec
=============================================================================
