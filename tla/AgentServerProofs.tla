------------------------- MODULE AgentServerProofs --------------------------
(***************************************************************************)
(* Proofs about AgentServer for every value of its constants, any number   *)
(* of streams included.  What NodeRegistryProofs shows of the registry     *)
(* holds of the service, which takes no step the registry does not         *)
(* (RegistrySteps).                                                        *)
(***************************************************************************)
EXTENDS AgentServer, NodeRegistryProofs

-----------------------------------------------------------------------------
(* Types, and the steps of the registry under the service.                 *)

\* A valid heartbeat names a node and carries a list the registry accepts.
LEMMA ValidHeartbeatType ==
    ASSUME NEW m \in Heartbeats, ValidHeartbeat(m)
    PROVE  m.node \in Nodes /\ m.tasks \in TaskLists(MaxTasks)
  <1>1. PICK j \in 0..(MaxTasks + 1) : m.tasks \in [1..j -> Tasks]
    BY DEF Heartbeats, TaskLists
  <1>2. Len(m.tasks) = j
    BY <1>1, BoundsAssumption
  <1>3. j \in 0..MaxTasks
    BY <1>2, BoundsAssumption DEF ValidHeartbeat
  <1> QED
    BY <1>1, <1>3 DEF ValidHeartbeat, TaskLists

LEMMA ServerTypeInit == ServerInit => ServerTypeOK
  <1>1. << >> \in TaskLists(MaxTasks)
    <2>1. << >> \in [1..0 -> Tasks]
      OBVIOUS
    <2> QED
      BY <2>1, BoundsAssumption DEF TaskLists
  <1> QED
    BY <1>1 DEF ServerInit, ServerTypeOK, Handlers, NoHandler, PCs

LEMMA NoHandlerType == NoHandler \in Handlers
  <1>1. << >> \in [1..0 -> Tasks]
    OBVIOUS
  <1>2. << >> \in TaskLists(MaxTasks)
    BY <1>1, BoundsAssumption DEF TaskLists
  <1> QED
    BY <1>2 DEF Handlers, NoHandler, PCs

\* A handler that goes to another place keeps its locals.
LEMMA GoToType ==
    ASSUME ServerTypeOK, NEW s \in Streams, NEW label \in PCs, GoTo(s, label)
    PROVE  stream' \in [Streams -> Handlers]
  BY DEF ServerTypeOK, GoTo, Handlers

LEMMA ReturnType ==
    ASSUME ServerTypeOK, NEW s \in Streams, Return(s)
    PROVE  stream' \in [Streams -> Handlers]
  BY NoHandlerType DEF ServerTypeOK, Return

LEMMA ServerTypeStep ==
    ASSUME RegistryTypeOK, ServerTypeOK, [ServerNext]_serverVars
    PROVE  ServerTypeOK'
  <1>1. ASSUME NEW n \in Nodes, RegisterRPC(n) PROVE ServerTypeOK'
    BY <1>1 DEF RegisterRPC, ServerTypeOK
  <1>2. ASSUME NEW s \in Streams, Handler(s) PROVE ServerTypeOK'
    <2>1. CASE OpenStream(s)
      BY <2>1, GoToType DEF OpenStream, PCs, ServerTypeOK
    <2>2. ASSUME NEW m \in Heartbeats, RecvFirst(s, m) PROVE ServerTypeOK'
      <3>1. ConnectionID(m.node) \in Nat
        BY DEF ConnectionID, Registered, RegistryTypeOK, NodeInfo
      <3>2. /\ regs[m.node] \in Nat
            /\ (IF Registered(m.node) THEN nodes[m.node].born
                                      ELSE regs[m.node]) \in Nat
        BY <2>2, BoundsAssumption
           DEF RecvFirst, ValidHeartbeat, Registered, RegistryTypeOK, NodeInfo
      <3> QED
        BY <2>2, <3>1, <3>2, ValidHeartbeatType
           DEF RecvFirst, ServerTypeOK, Handlers, PCs
    <2>3. ASSUME NEW m \in Heartbeats, RecvLoop(s, m) PROVE ServerTypeOK'
      BY <2>3 DEF RecvLoop, ServerTypeOK
    <2>4. ASSUME NEW m \in Heartbeats, RecvInvalid(s, m) PROVE ServerTypeOK'
      BY <2>4, ReturnType DEF RecvInvalid, ServerTypeOK
    <2>5. CASE RecvFirstFails(s)
      BY <2>5, ReturnType DEF RecvFirstFails, ServerTypeOK
    <2>6. CASE FirstUpdate(s)
      BY <2>6, GoToType DEF FirstUpdate, PCs, ServerTypeOK
    <2>7. CASE SendFirstAck(s)
      BY <2>7, GoToType DEF SendFirstAck, AckerGoTo, PCs, ServerTypeOK
    <2>8. CASE SendFirstAckFails(s)
      BY <2>8, ReturnType DEF SendFirstAckFails, ServerTypeOK
    <2>9. CASE StreamEnd(s)
      BY <2>9, ReturnType DEF StreamEnd, ServerTypeOK
    <2> QED
      BY <1>2, <2>1, <2>2, <2>3, <2>4, <2>5, <2>6, <2>7, <2>8, <2>9 DEF Handler
  <1>3. ASSUME Background PROVE ServerTypeOK'
    BY <1>3 DEF Background, ServerTypeOK
  <1>4. ASSUME Crash PROVE ServerTypeOK'
    BY <1>4, NoHandlerType DEF Crash, ServerTypeOK
  <1>5. ASSUME UNCHANGED serverVars PROVE ServerTypeOK'
    BY <1>5 DEF serverVars, ServerTypeOK
  <1>6. ASSUME NEW s \in Streams, AckGoroutine(s) PROVE ServerTypeOK'
    BY <1>6 DEF AckGoroutine, AckTick, AckSent, AckFails, AckerStops, AckerGoTo,
                ServerTypeOK
  <1> QED
    BY <1>1, <1>2, <1>3, <1>4, <1>5, <1>6 DEF ServerNext

\* The local variables of a handler that is about to apply its first beat
\* come from a message that passed validation.
FirstBeatValid ==
    \A s \in Streams : Serving(s) => stream[s].node \in Nodes

\* The number a stream holds is the count of its node's registrations in the
\* residence it saw.
CapturedCount ==
    \A s \in Streams : Serving(s) =>
        stream[s].connID + stream[s].capBorn = stream[s].capRegs

\* The ack goroutine runs only once the first ack is out.
AckerAfterFirstAck ==
    \A s \in Streams : acker[s] # "none" => stream[s].pc \in {"loop", "idle"}

ServerInv ==
    ServerTypeOK /\ FirstBeatValid /\ CapturedCount /\ AckerAfterFirstAck

LEMMA RegistryStep ==
    ASSUME ServerTypeOK, FirstBeatValid, RegistryTypeOK, [ServerNext]_serverVars
    PROVE  [RegistryNext]_registryVars
  <1>1. ASSUME NEW n \in Nodes, RegisterRPC(n)
        PROVE  RegistryNext
    BY <1>1 DEF RegisterRPC, RegistryNext
  <1>2. ASSUME NEW s \in Streams, Handler(s)
        PROVE  RegistryNext \/ UNCHANGED registryVars
    <2>1. ASSUME NEW m \in Heartbeats, RecvLoop(s, m) PROVE RegistryNext
      BY <2>1, ValidHeartbeatType DEF RecvLoop, RegistryNext
    <2>2. CASE FirstUpdate(s)
      <3>1. stream[s].tasks \in TaskLists(MaxTasks) /\ stream[s].node \in Nodes
        BY <2>2 DEF FirstUpdate, ServerTypeOK, Handlers, FirstBeatValid, Serving
      <3> QED
        BY <2>2, <3>1 DEF FirstUpdate, RegistryNext
    <2>3. CASE StreamEnd(s)
      <3>1. stream[s].node \in Nodes
        BY <2>3 DEF StreamEnd, FirstBeatValid, Serving
      <3>2. CASE Remove(stream[s].node)
        BY <3>1, <3>2 DEF RegistryNext
      <3> QED
        BY <2>3, <3>2 DEF StreamEnd, RemoveIfConnectionMatches
    <2> QED
      BY <1>2, <2>1, <2>2, <2>3
         DEF Handler, OpenStream, RecvFirst, RecvInvalid, RecvFirstFails,
             SendFirstAck, SendFirstAckFails
  <1>3. ASSUME Background PROVE RegistryNext
    BY <1>3 DEF Background, RegistryNext
  <1>4. ASSUME Crash PROVE RegistryNext
    BY <1>4 DEF Crash, RegistryNext
  <1>5. ASSUME UNCHANGED serverVars PROVE UNCHANGED registryVars
    BY <1>5 DEF serverVars
  <1>6. ASSUME NEW s \in Streams, AckGoroutine(s) PROVE UNCHANGED registryVars
    BY <1>6 DEF AckGoroutine, AckTick, AckSent, AckFails, AckerStops
  <1> QED
    BY <1>1, <1>2, <1>3, <1>4, <1>5, <1>6 DEF ServerNext

\* One stream's handler changes; the others are as they were.
LEMMA ServerInvStep ==
    ASSUME RegistryTypeOK, ConnIDCountsResidence, ServerInv,
           [ServerNext]_serverVars
    PROVE  ServerInv'
  <1> DEFINE Others == FirstBeatValid /\ CapturedCount /\ AckerAfterFirstAck
  <1> USE DEF FirstBeatValid, CapturedCount, AckerAfterFirstAck, Serving
  <1>0. ServerTypeOK'
    BY ServerTypeStep DEF ServerInv
  <1>1. ASSUME NEW n \in Nodes, RegisterRPC(n)
        PROVE  Others'
    BY <1>1 DEF RegisterRPC, ServerInv
  <1>2. ASSUME NEW s \in Streams, Handler(s)
        PROVE  Others'
    <2> USE DEF ServerInv, ServerTypeOK, Handlers
    <2>a. ASSUME Return(s), UNCHANGED acker PROVE Others'
      BY <2>a DEF Return, NoHandler
    <2>1. CASE OpenStream(s)
      BY <2>1 DEF OpenStream, GoTo
    <2>2. ASSUME NEW m \in Heartbeats, RecvFirst(s, m)
          PROVE  Others'
      <3>1. m.node \in Nodes
        BY <2>2 DEF RecvFirst, ValidHeartbeat
      <3>2. ConnectionID(m.node) +
              (IF Registered(m.node) THEN nodes[m.node].born ELSE regs[m.node])
            = regs[m.node]
        BY <3>1, BoundsAssumption
           DEF ConnectionID, Registered, ConnIDCountsResidence, RegistryTypeOK, NodeInfo
      <3> QED
        BY <2>2, <3>1, <3>2 DEF RecvFirst
    <2>3. ASSUME NEW m \in Heartbeats, RecvLoop(s, m)
          PROVE  Others'
      BY <2>3 DEF RecvLoop
    <2>4. ASSUME NEW m \in Heartbeats, RecvInvalid(s, m)
          PROVE  Others'
      BY <2>4, <2>a DEF RecvInvalid
    <2>5. CASE RecvFirstFails(s) \/ SendFirstAckFails(s) \/ StreamEnd(s)
      BY <2>5, <2>a DEF RecvFirstFails, SendFirstAckFails, StreamEnd
    <2>6. CASE FirstUpdate(s)
      BY <2>6 DEF FirstUpdate, GoTo
    <2>7. CASE SendFirstAck(s)
      BY <2>7 DEF SendFirstAck, AckerGoTo, GoTo
    <2> QED
      BY <1>2, <2>1, <2>2, <2>3, <2>4, <2>5, <2>6, <2>7 DEF Handler
  <1>3. ASSUME Background PROVE Others'
    BY <1>3 DEF Background, ServerInv
  <1>4. ASSUME Crash PROVE Others'
    BY <1>4 DEF Crash, NoHandler
  <1>5. ASSUME UNCHANGED serverVars PROVE Others'
    BY <1>5 DEF serverVars, ServerInv
  <1>6. ASSUME NEW s \in Streams, AckGoroutine(s) PROVE Others'
    BY <1>6 DEF AckGoroutine, AckTick, AckSent, AckFails, AckerStops, AckerGoTo,
                ServerInv, ServerTypeOK
  <1> QED
    BY <1>0, <1>1, <1>2, <1>3, <1>4, <1>5, <1>6 DEF ServerNext, ServerInv

\* The invariant of the service and of the registry under it, together.
LEMMA ServerInvariant ==
    ServerSpec => [](RegistryTypeOK /\ ConnIDCountsResidence /\ ServerInv)
  <1>1. ServerInit => RegistryTypeOK /\ ConnIDCountsResidence /\ ServerInv
    <2>1. ASSUME ServerInit
          PROVE  FirstBeatValid /\ CapturedCount /\ AckerAfterFirstAck
      BY <2>1 DEF ServerInit, NoHandler, FirstBeatValid, CapturedCount,
                  AckerAfterFirstAck, Serving
    <2>2. RegistryInit => ConnIDCountsResidence
      BY DEF RegistryInit, ConnIDCountsResidence, NewNodeRegistry
    <2> QED
      BY <2>1, <2>2, TypeInit, ServerTypeInit DEF ServerInit, ServerInv
  <1>2. ASSUME RegistryTypeOK, ConnIDCountsResidence, ServerInv,
               [ServerNext]_serverVars
        PROVE  RegistryTypeOK' /\ ConnIDCountsResidence' /\ ServerInv'
    <2>1. [RegistryNext]_registryVars
      BY <1>2, RegistryStep DEF ServerInv
    <2> QED
      BY <1>2, <2>1, TypeStep, ConnIDStep, ServerInvStep
  <1> QED
    BY <1>1, <1>2, PTL DEF ServerSpec

\* Every reachable state of the handlers is well typed: no list longer than
\* the limit, and no unknown node, gets past the first message of a stream.
THEOREM ServerTypeCorrect == ServerSpec => []ServerTypeOK
  <1>1. ServerInv => ServerTypeOK
    BY DEF ServerInv
  <1> QED
    BY <1>1, ServerInvariant, PTL

\* A step of the service is a step of the registry or leaves it alone.
LEMMA RegistrySteps == ServerSpec => RegistrySpec
  <1>1. ServerInit => RegistryInit
    BY DEF ServerInit
  <1>2. ASSUME RegistryTypeOK, ConnIDCountsResidence, ServerInv,
               [ServerNext]_serverVars
        PROVE  [RegistryNext]_registryVars
    BY <1>2, RegistryStep DEF ServerInv
  <1> QED
    BY <1>1, <1>2, ServerInvariant, PTL DEF ServerSpec, RegistrySpec

\* The list of nodes keeps the promises of Membership whatever the handlers,
\* the RPCs, the crashes and the cleanup do, in every interleaving.
THEOREM ServerImplementsMembership == ServerSpec => ImplementsMembership
  BY RegistrySteps, RegistryImplementsMembership

\* A handler and its ack goroutine never send on their stream at once.
THEOREM SendersAreSingle == ServerSpec => []OneSenderPerStream
  <1>1. ServerInv => OneSenderPerStream
    BY DEF ServerInv, AckerAfterFirstAck, OneSenderPerStream
  <1> QED
    BY <1>1, ServerInvariant, PTL

-----------------------------------------------------------------------------
(* What a stream may remove when it ends.                                  *)

LEMMA NumberIdentifies ==
    ASSUME RegistryTypeOK, ConnIDCountsResidence, ServerInv
    PROVE  CapturedNumberIdentifies
  <1> SUFFICES ASSUME NEW s \in Streams, Serving(s), SameResidence(s)
               PROVE  nodes[stream[s].node].connID = stream[s].connID
                        <=> regs[stream[s].node] = stream[s].capRegs
    BY DEF CapturedNumberIdentifies
  <1>1. nodes[stream[s].node].connID + stream[s].capBorn = regs[stream[s].node]
    BY DEF SameResidence, Registered, ConnIDCountsResidence
  <1>2. stream[s].connID + stream[s].capBorn = stream[s].capRegs
    BY DEF ServerInv, CapturedCount
  <1>3. /\ stream[s].connID \in Nat
        /\ stream[s].capBorn \in Nat
        /\ stream[s].capRegs \in Nat
        /\ nodes[stream[s].node].connID \in Nat
    BY DEF ServerInv, ServerTypeOK, Handlers, SameResidence, Registered,
           RegistryTypeOK, NodeInfo
  <1> QED
    BY <1>1, <1>2, <1>3

\* While a node stays in the map, the number a stream read identifies the
\* registration it was read from.
THEOREM CapturedNumbersIdentify == ServerSpec => []CapturedNumberIdentifies
  BY NumberIdentifies, ServerInvariant, PTL

\* In the residence it saw, the end of a stream removes its own registration
\* and no other; the end of one opened for an unregistered node removes nothing;
\* and no end removes a node that its stream was not opened with.
THEOREM EndsRemoveOwn == ServerSpec => EndRemovesOwnRegistration
  <1>1. ASSUME RegistryTypeOK, ConnIDCountsResidence, ServerInv,
               NEW s \in Streams, StreamEnd(s), SameResidence(s)
        PROVE  stream[s].node \notin DOMAIN nodes'
                 <=> regs[stream[s].node] = stream[s].capRegs
    <2>1. nodes[stream[s].node].connID = stream[s].connID
            <=> regs[stream[s].node] = stream[s].capRegs
      BY <1>1, NumberIdentifies DEF CapturedNumberIdentifies, StreamEnd, Serving
    <2>2. CASE nodes[stream[s].node].connID = stream[s].connID
      BY <1>1, <2>1, <2>2
         DEF StreamEnd, RemoveIfConnectionMatches, Remove, Without, SameResidence
    <2>3. CASE nodes[stream[s].node].connID # stream[s].connID
      BY <1>1, <2>1, <2>3
         DEF StreamEnd, RemoveIfConnectionMatches, registryVars,
             SameResidence, Registered
    <2> QED
      BY <2>2, <2>3
  <1>2. ASSUME RegistryTypeOK, ConnIDCountsResidence,
               NEW s \in Streams, StreamEnd(s), stream[s].connID = 0
        PROVE  UNCHANGED nodes
    BY <1>2 DEF StreamEnd, RemoveIfConnectionMatches, registryVars, Registered,
                ConnIDCountsResidence, RegistryTypeOK, NodeInfo
  <1>3. ASSUME NEW s \in Streams, StreamEnd(s)
        PROVE  DOMAIN nodes \ {stream[s].node} \subseteq DOMAIN nodes'
    BY <1>3 DEF StreamEnd, RemoveIfConnectionMatches, Remove, Without, registryVars
  <1>4. ASSUME RegistryTypeOK, ConnIDCountsResidence, ServerInv
        PROVE  \A s \in Streams : StreamEnd(s) =>
                 /\ SameResidence(s) =>
                      (stream[s].node \notin DOMAIN nodes'
                         <=> regs[stream[s].node] = stream[s].capRegs)
                 /\ stream[s].connID = 0 => UNCHANGED nodes
                 /\ DOMAIN nodes \ {stream[s].node} \subseteq DOMAIN nodes'
    BY <1>1, <1>2, <1>3, <1>4
  <1> QED
    BY <1>4, ServerInvariant, PTL DEF EndRemovesOwnRegistration
=============================================================================
