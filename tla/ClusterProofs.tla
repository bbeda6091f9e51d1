--------------------------- MODULE ClusterProofs ----------------------------
(***************************************************************************)
(* Proofs about agents and control plane together, for any number of       *)
(* agents, streams and given-up calls, with and without faults.            *)
(***************************************************************************)
EXTENDS Cluster, AgentServerProofs, AgentProofs

-----------------------------------------------------------------------------
(* The transport stays within its types.                                   *)

LEMMA LinkDies ==
    ASSUME NEW l \in Links
    PROVE  [l EXCEPT !.up = FALSE, !.queue = 0] \in Links
  <1> DEFINE down == [l EXCEPT !.up = FALSE]
  <1>1. down \in Links
    BY DEF Links
  <1> HIDE DEF down
  <1>2. [down EXCEPT !.queue = 0] \in Links
    BY <1>1, ClusterAssumption DEF Links
  <1> QED
    BY <1>2 DEF down

\* What HangUp does, whether or not the agent has a stream.
LEMMA HangUpType ==
    ASSUME ClusterTypeOK, NEW n \in Nodes, HangUp(n)
    PROVE  /\ link' \in [Streams -> Links]
           /\ session' \in [Nodes -> Streams \cup {NoStream}]
  BY ZenonT(60) DEF ClusterTypeOK, HangUp, Links

LEMMA AbandonCallType ==
    ASSUME ClusterTypeOK, NEW n \in Nodes, AbandonCall(n)
    PROVE  /\ late' \in [Nodes -> 0..MaxLate]
           /\ call' \in [Nodes -> {"none", "sent", "served"}]
  <1>1. CASE call[n] = "sent" /\ late[n] < MaxLate
    <2>1. late[n] \in 0..MaxLate /\ late[n] + 1 \in 0..MaxLate
      BY <1>1, ClusterAssumption DEF ClusterTypeOK
    <2> QED
      BY <1>1, <2>1 DEF AbandonCall, ClusterTypeOK
  <1>2. CASE ~(call[n] = "sent" /\ late[n] < MaxLate)
    BY <1>2 DEF AbandonCall, ClusterTypeOK
  <1> QED
    BY <1>1, <1>2

LEMMA ClusterTypeInit == ClusterInit => ClusterTypeOK
  BY ClusterAssumption DEF ClusterInit, ClusterTypeOK, NoLink, Links

LEMMA AgentSideType ==
    ASSUME ClusterTypeOK, NEW n \in Nodes,
           \/ AgentSide(n) \/ GiveUpConnect(n) \/ Interrupt(n) \/ Kill(n)
           \/ ServeRegister(n) \/ ServeLate(n) \/ DropLate(n)
    PROVE  ClusterTypeOK'
  <1> USE DEF ClusterTypeOK
  <1>1. CASE Dial(n) \/ RegisterAnswered(n) \/ ServeRegister(n)
    BY <1>1 DEF Dial, RegisterAnswered, ServeRegister
  <1>2. CASE ServeLate(n) \/ DropLate(n)
    <2>1. late[n] \in 0..MaxLate /\ late[n] - 1 \in 0..MaxLate
      BY <1>2, ClusterAssumption DEF ServeLate, DropLate
    <2> QED
      BY <1>2, <2>1 DEF ServeLate, DropLate
  <1>3. ASSUME NEW s \in Streams, Open(n, s) PROVE ClusterTypeOK'
    <2>1. [node |-> n, up |-> TRUE, headers |-> EagerHeaders, queue |-> 0] \in Links
      BY ClusterAssumption DEF Links
    <2> QED
      BY <1>3, <2>1 DEF Open
  <1>4. CASE AwaitEnds(n)
    <2>1. link[session[n]] \in Links /\ 1 \in 0..ChannelSize
      BY <1>4, ClusterAssumption DEF AwaitEnds
    <2>2. [link[session[n]] EXCEPT !.queue = 1] \in Links
      BY <2>1 DEF Links
    <2> QED
      BY <1>4, <2>2 DEF AwaitEnds
  <1>5. CASE CollectBeat(n) \/ Reconnect(n)
    BY <1>5 DEF CollectBeat, Reconnect, linkVars
  <1>6. CASE SendBeat(n)
    <2>1. CASE session[n] \in Streams
      <3>1. [link[session[n]] EXCEPT !.queue = @ + 1] \in Links
        BY <1>6, <2>1, ClusterAssumption DEF SendBeat, Links
      <3> QED
        BY <1>6, <3>1 DEF SendBeat
    <2>2. CASE session[n] \notin Streams
      BY <1>6, <2>2 DEF SendBeat
    <2> QED
      BY <2>1, <2>2
  <1>7. CASE LoseSession(n) \/ Interrupt(n)
    BY <1>7, HangUpType DEF LoseSession, Interrupt
  <1>8. CASE GiveUpConnect(n) \/ Kill(n)
    BY <1>8, HangUpType, AbandonCallType DEF GiveUpConnect, Kill
  <1> QED
    BY <1>1, <1>2, <1>3, <1>4, <1>5, <1>6, <1>7, <1>8 DEF AgentSide

LEMMA ServerSideType ==
    ASSUME ClusterTypeOK, NEW s \in Streams, ServerSide(s) \/ Break(s)
    PROVE  ClusterTypeOK'
  <1> USE DEF ClusterTypeOK
  <1>1. CASE Receive(s)
    <2>1. [link[s] EXCEPT !.queue = @ - 1] \in Links
      BY <1>1, ClusterAssumption DEF Receive, Links
    <2> QED
      BY <1>1, <2>1 DEF Receive, Taken
  <1>2. CASE Apply(s) \/ EndAcker(s)
    BY <1>2 DEF Apply, EndAcker, linkVars
  <1>3. CASE Acknowledge(s)
    BY <1>3 DEF Acknowledge, Links
  <1>4. CASE MeetBreak(s)
    BY <1>4, ClusterAssumption DEF MeetBreak, Links
  <1>5. CASE Break(s)
    BY <1>5 DEF Break, Links
  <1> QED
    BY <1>1, <1>2, <1>3, <1>4, <1>5 DEF ServerSide

\* Links, sessions and calls under way stay within their types: no channel
\* overflows, and no call is counted away that was not given up.
THEOREM ClusterTypeCorrect == ClusterSpec => []ClusterTypeOK
  <1>1. ASSUME ClusterTypeOK, [ClusterNext]_clusterVars PROVE ClusterTypeOK'
    <2> USE <1>1
    <2>1. CASE Outage
      <3>1. ASSUME NEW s \in Streams
            PROVE  [link[s] EXCEPT !.up = FALSE, !.queue = 0] \in Links
        BY LinkDies DEF ClusterTypeOK
      <3>2. link' \in [Streams -> Links]
        BY <2>1, <3>1 DEF Outage
      <3>3. /\ late' = [n \in Nodes |-> 0]
            /\ call' = [n \in Nodes |-> IF call[n] = "sent" THEN "none" ELSE call[n]]
            /\ UNCHANGED <<session, overtaken>>
        BY <2>1 DEF Outage
      <3> QED
        BY <3>2, <3>3, ClusterAssumption DEF ClusterTypeOK
    <2>2. CASE TimePasses \/ Cleanup \/ UNCHANGED clusterVars
      BY <2>2 DEF TimePasses, Cleanup, clusterVars, linkVars, ClusterTypeOK
    <2> QED
      BY <2>1, <2>2, AgentSideType, ServerSideType DEF ClusterNext
  <1> QED
    BY <1>1, ClusterTypeInit, PTL DEF ClusterSpec

-----------------------------------------------------------------------------
(* Every step is a step of the service and of an agent, or leaves them     *)
(* alone.                                                                  *)

LEMMA BeatIsHeartbeat ==
    ASSUME ClusterTypeOK, NEW s \in Streams
    PROVE  Beat(link[s].node) \in Heartbeats
  <1>1. << >> \in [1..0 -> Tasks]
    OBVIOUS
  <1>2. << >> \in TaskLists(MaxTasks + 1)
    BY <1>1, BoundsAssumption DEF TaskLists
  <1> QED
    BY <1>2 DEF Beat, Heartbeats, ClusterTypeOK, Links

LEMMA ServerSideSteps ==
    ASSUME ClusterTypeOK, NEW s \in Streams, ServerSide(s) \/ Break(s)
    PROVE  [ServerNext]_serverVars /\ UNCHANGED agentVars
  <1>1. CASE Receive(s)
    <2>1. Handler(s)
      BY <1>1, BeatIsHeartbeat DEF Receive, Handler
    <2> QED
      BY <1>1, <2>1 DEF Receive, ServerNext
  <1>2. CASE Apply(s) \/ EndAcker(s)
    BY <1>2 DEF Apply, EndAcker, Handler, AckGoroutine, ServerNext
  <1>3. CASE Acknowledge(s)
    BY <1>3 DEF Acknowledge, Handler, ServerNext
  <1>4. CASE MeetBreak(s)
    BY <1>4 DEF MeetBreak, Handler, ServerNext
  <1>5. CASE Break(s)
    BY <1>5 DEF Break
  <1> QED
    BY <1>1, <1>2, <1>3, <1>4, <1>5 DEF ServerSide

LEMMA AgentSideSteps ==
    ASSUME NEW n \in Nodes,
           \/ AgentSide(n) \/ GiveUpConnect(n) \/ Interrupt(n) \/ Kill(n)
           \/ ServeRegister(n) \/ ServeLate(n) \/ DropLate(n)
    PROVE  /\ [ServerNext]_serverVars
           /\ AgentStep(n) \/ UNCHANGED agentVars
  <1>1. CASE Dial(n) \/ RegisterAnswered(n) \/ AwaitEnds(n)
    BY <1>1 DEF Dial, RegisterAnswered, AwaitEnds, AgentStep
  <1>2. CASE CollectBeat(n) \/ SendBeat(n) \/ Reconnect(n)
    BY <1>2 DEF CollectBeat, SendBeat, Reconnect, AgentStep
  <1>3. CASE LoseSession(n) \/ Interrupt(n) \/ GiveUpConnect(n) \/ Kill(n)
    BY <1>3 DEF LoseSession, Interrupt, GiveUpConnect, Kill, AgentStep
  <1>4. ASSUME NEW s \in Streams, Open(n, s)
        PROVE  ServerNext /\ AgentStep(n)
    BY <1>4 DEF Open, Handler, ServerNext, AgentStep
  <1>5. CASE ServeRegister(n) \/ ServeLate(n)
    BY <1>5 DEF ServeRegister, ServeLate, ServerNext
  <1>6. CASE DropLate(n)
    BY <1>6 DEF DropLate
  <1> QED
    BY <1>1, <1>2, <1>3, <1>4, <1>5, <1>6 DEF AgentSide

LEMMA ComponentSteps ==
    ASSUME ClusterTypeOK, [ClusterNext]_clusterVars
    PROVE  [ServerNext]_serverVars /\ [AgentNext]_agentVars
  <1>1. CASE \E n \in Nodes : \/ AgentSide(n) \/ GiveUpConnect(n) \/ Interrupt(n)
                              \/ Kill(n) \/ ServeRegister(n) \/ ServeLate(n)
                              \/ DropLate(n)
    BY <1>1, AgentSideSteps, ClusterAssumption DEF AgentNext
  <1>2. CASE \E s \in Streams : ServerSide(s) \/ Break(s)
    BY <1>2, ServerSideSteps
  <1>3. CASE Outage
    BY <1>3 DEF Outage, ServerNext
  <1>4. CASE TimePasses \/ Cleanup
    BY <1>4 DEF TimePasses, Cleanup, Background, ServerNext
  <1>5. CASE UNCHANGED clusterVars
    BY <1>5 DEF clusterVars
  <1> QED
    BY <1>1, <1>2, <1>3, <1>4, <1>5 DEF ClusterNext

\* What is proved of AgentServer and of Agent alone holds of the whole.
LEMMA PartSteps == ClusterSpec => ServerSpec /\ AgentSpec
  <1>1. ClusterInit => ServerInit /\ AgentInit
    BY DEF ClusterInit
  <1> QED
    BY <1>1, ComponentSteps, ClusterTypeCorrect, PTL
       DEF ClusterSpec, ServerSpec, AgentSpec

-----------------------------------------------------------------------------
(* Streams and sessions.                                                   *)

\* An agent holds a stream from the moment it opens one until the attempt or
\* the session is over, and a Register call only while it waits for it.
SessionPlaces ==
    \A n \in Nodes :
        /\ agent[n].pc \in {"await", "run", "busy"} <=> session[n] # NoStream
        /\ call[n] # "none" => agent[n].pc = "register"

\* A stream belongs to the agent that holds it.
SessionLinks ==
    \A n \in Nodes : session[n] # NoStream => link[session[n]].node = n

\* A live stream is held by its agent.
LiveIsHeld ==
    \A s \in Streams :
        link[s].up => link[s].node \in Nodes /\ session[link[s].node] = s

\* The handler of a held stream has captured the registrations of its agent
\* as they are, unless a given-up call was served since the last one.
HeldOwns ==
    \A n \in Nodes :
        session[n] # NoStream /\ Serving(session[n]) /\ n \notin overtaken
            => stream[session[n]].capRegs = regs[n]

ClusterInv == SessionPlaces /\ SessionLinks /\ LiveIsHeld /\ HeldOwns

LEMMA ClusterInvInit == ClusterInit => ClusterInv
  BY ClusterAssumption
     DEF ClusterInit, AgentInit, ClusterInv, SessionPlaces, SessionLinks,
         LiveIsHeld, HeldOwns, NoLink

\* The types of everything, and of one agent.
AllTypesOK == ClusterTypeOK /\ ServerTypeOK /\ RegistryTypeOK /\ AgentTypeOK

LEMMA AllTypes == ClusterSpec => []AllTypesOK
  <1>1. ServerSpec => []RegistryTypeOK
    BY ServerInvariant, PTL
  <1> QED
    BY <1>1, ClusterTypeCorrect, PartSteps, ServerTypeCorrect, AgentTypeCorrect, PTL
       DEF AllTypesOK

\* Where an agent is after a step that moves its program counter.
LEMMA AgentMoves ==
    ASSUME AgentTypeOK, NEW n \in Agents, NEW pc,
           agent' = [agent EXCEPT ![n].pc = pc]
    PROVE  /\ agent'[n].pc = pc
           /\ \A m \in Agents \ {n} : agent'[m] = agent[m]
  BY DEF AgentTypeOK

\* The end of an attempt or of a session: the agent lets go of its stream.
LEMMA AfterAttemptMoves ==
    ASSUME AgentTypeOK, NEW n \in Agents, AfterAttempt(n)
    PROVE  /\ agent'[n].pc \in {"gaveUp", "sleep"}
           /\ \A m \in Agents \ {n} : agent'[m] = agent[m]
  BY AgentMoves DEF AfterAttempt

\* An agent that lets go of its stream, and of its call, keeps the invariant
\* if it goes where it holds none.
LEMMA LetsGo ==
    ASSUME AllTypesOK, ClusterInv, NEW n \in Nodes, HangUp(n),
           agent'[n].pc \notin {"await", "run", "busy"},
           \A m \in Nodes \ {n} : agent'[m] = agent[m],
           call' = [call EXCEPT ![n] = "none"],
           UNCHANGED <<serverVars, overtaken>>
    PROVE  ClusterInv'
  <1> USE DEF AllTypesOK, ClusterTypeOK
  <1>1. /\ session'[n] = NoStream /\ call'[n] = "none"
        /\ \A m \in Nodes \ {n} : session'[m] = session[m] /\ call'[m] = call[m]
    BY DEF HangUp
  <1>2. \A s \in Streams :
          /\ link'[s].node = link[s].node
          /\ link'[s].up => link[s].up /\ s # session[n]
    BY DEF HangUp, Links
  <1>3. SessionPlaces'
    BY <1>1 DEF SessionPlaces, ClusterInv
  <1>4. SessionLinks'
    BY <1>1, <1>2 DEF SessionLinks, ClusterInv
  <1>5. LiveIsHeld'
    BY <1>1, <1>2 DEF LiveIsHeld, ClusterInv
  <1>6. HeldOwns'
    BY <1>1 DEF HeldOwns, ClusterInv, Serving, serverVars, registryVars
  <1> QED
    BY <1>3, <1>4, <1>5, <1>6 DEF ClusterInv

\* A step of an agent that keeps its stream.
LEMMA KeepsStream ==
    ASSUME AllTypesOK, ClusterInv, NEW n \in Nodes,
           agent'[n].pc \in {"await", "run", "busy"} <=>
             agent[n].pc \in {"await", "run", "busy"},
           \A m \in Nodes \ {n} : agent'[m] = agent[m],
           call'[n] # "none" => agent'[n].pc = "register",
           \A m \in Nodes \ {n} : call'[m] = call[m],
           \A s \in Streams : /\ link'[s].node = link[s].node
                              /\ link'[s].up = link[s].up,
           UNCHANGED <<serverVars, session, overtaken>>
    PROVE  ClusterInv'
  <1> USE DEF AllTypesOK, ClusterTypeOK
  <1>1. SessionPlaces'
    BY DEF SessionPlaces, ClusterInv
  <1>2. SessionLinks'
    BY DEF SessionLinks, ClusterInv
  <1>3. LiveIsHeld'
    BY DEF LiveIsHeld, ClusterInv
  <1>4. HeldOwns'
    BY DEF HeldOwns, ClusterInv, Serving, serverVars, registryVars
  <1> QED
    BY <1>1, <1>2, <1>3, <1>4 DEF ClusterInv

LEMMA AgentSideInv ==
    ASSUME AllTypesOK, ClusterInv, NEW n \in Nodes,
           AgentSide(n) \/ GiveUpConnect(n) \/ Interrupt(n) \/ Kill(n)
    PROVE  ClusterInv'
  <1> USE ClusterAssumption DEF AllTypesOK, ClusterTypeOK
  <1>0. /\ call[n] # "none" => agent[n].pc = "register"
        /\ agent[n].pc \in {"await", "run", "busy"} <=> session[n] # NoStream
    BY DEF ClusterInv, SessionPlaces
  <1>1. CASE Dial(n)
    <2>1. agent'[n].pc = "register" /\ \A m \in Nodes \ {n} : agent'[m] = agent[m]
      BY <1>1, AgentMoves DEF Dial, Dialled, AgentAt
    <2> QED
      BY <1>1, <2>1, KeepsStream DEF Dial, Dialled, AgentAt
  <1>2. CASE RegisterAnswered(n)
    <2>1. agent'[n].pc = "open" /\ \A m \in Nodes \ {n} : agent'[m] = agent[m]
      BY <1>2, AgentMoves DEF RegisterAnswered, RegisterAccepted, AgentAt
    <2> QED
      BY <1>2, <2>1, KeepsStream DEF RegisterAnswered, RegisterAccepted, AgentAt
  <1>3. ASSUME NEW s \in Streams, Open(n, s) PROVE ClusterInv'
    <2>1. /\ agent'[n].pc = "await" /\ agent[n].pc = "open"
          /\ \A m \in Nodes \ {n} : agent'[m] = agent[m]
      BY <1>3, AgentMoves DEF Open, StreamRequested, AgentAt
    <2>2. /\ session'[n] = s
          /\ \A m \in Nodes \ {n} : session'[m] = session[m] /\ session[m] # s
          /\ UNCHANGED <<call, registryVars, overtaken>>
      BY <1>3 DEF Open, OpenStream
    <2>3. /\ link'[s].node = n
          /\ \A t \in Streams \ {s} : link'[t] = link[t]
      BY <1>3 DEF Open
    <2>4. /\ stream'[s].pc = "first"
          /\ \A t \in Streams \ {s} : stream'[t] = stream[t]
      BY <1>3 DEF Open, OpenStream, GoTo, ServerTypeOK, Handlers
    <2>5. session[n] = NoStream /\ call[n] = "none"
      BY <1>0, <2>1
    <2>6. SessionPlaces'
      BY <2>1, <2>2, <2>5 DEF SessionPlaces, ClusterInv
    <2>7. SessionLinks'
      BY <2>2, <2>3 DEF SessionLinks, ClusterInv
    <2>8. LiveIsHeld'
      BY <2>2, <2>3, <2>5 DEF LiveIsHeld, ClusterInv
    <2>9. HeldOwns'
      BY <2>2, <2>4 DEF HeldOwns, ClusterInv, Serving, registryVars
    <2> QED
      BY <2>6, <2>7, <2>8, <2>9 DEF ClusterInv
  <1>4. CASE AwaitEnds(n)
    <2>1. /\ agent'[n].pc = "run" /\ agent[n].pc = "await"
          /\ \A m \in Nodes \ {n} : agent'[m] = agent[m]
      BY <1>4 DEF AwaitEnds, Connected, AgentTypeOK
    <2>2. \A s \in Streams : link'[s].node = link[s].node /\ link'[s].up = link[s].up
      BY <1>4 DEF AwaitEnds, Links
    <2> QED
      BY <1>0, <1>4, <2>1, <2>2, KeepsStream DEF AwaitEnds
  <1>5. CASE CollectBeat(n)
    <2>1. /\ agent'[n].pc = "busy" /\ agent[n].pc = "run"
          /\ \A m \in Nodes \ {n} : agent'[m] = agent[m]
      BY <1>5, AgentMoves DEF CollectBeat, BeatDue, AgentAt
    <2> QED
      BY <1>0, <1>5, <2>1, KeepsStream DEF CollectBeat, linkVars
  <1>6. CASE SendBeat(n)
    <2>1. /\ agent'[n].pc = "run" /\ agent[n].pc = "busy"
          /\ \A m \in Nodes \ {n} : agent'[m] = agent[m]
      BY <1>6, AgentMoves DEF SendBeat, BeatQueued, AgentAt
    <2>2. \A s \in Streams : link'[s].node = link[s].node /\ link'[s].up = link[s].up
      BY <1>6 DEF SendBeat, Links
    <2> QED
      BY <1>0, <1>6, <2>1, <2>2, KeepsStream DEF SendBeat
  <1>7. CASE Reconnect(n)
    <2>1. /\ agent'[n].pc = "dial" /\ agent[n].pc = "sleep"
          /\ \A m \in Nodes \ {n} : agent'[m] = agent[m]
      BY <1>7 DEF Reconnect, Wake, AgentTypeOK
    <2> QED
      BY <1>0, <1>7, <2>1, KeepsStream DEF Reconnect, linkVars
  <1>8. CASE LoseSession(n)
    <2>1. call' = [call EXCEPT ![n] = "none"]
      BY <1>0, <1>8 DEF LoseSession, SessionEnds, InSession
    <2> QED
      BY <1>8, <2>1, AfterAttemptMoves, LetsGo DEF LoseSession, SessionEnds
  <1>9. CASE Interrupt(n)
    <2>1. call' = [call EXCEPT ![n] = "none"]
      BY <1>0, <1>9 DEF Interrupt, CtrlC, AgentAt
    <2>2. agent'[n].pc = "stopped" /\ \A m \in Nodes \ {n} : agent'[m] = agent[m]
      BY <1>9, AgentMoves DEF Interrupt, CtrlC, AgentAt
    <2> QED
      BY <1>9, <2>1, <2>2, LetsGo DEF Interrupt
  <1>10. CASE GiveUpConnect(n)
    BY <1>10, AfterAttemptMoves, LetsGo DEF GiveUpConnect, ConnectFails, AbandonCall
  <1>11. CASE Kill(n)
    BY <1>11, AgentMoves, LetsGo DEF Kill, Killed, AgentAt, AbandonCall
  <1> QED
    BY <1>1, <1>2, <1>3, <1>4, <1>5, <1>6, <1>7, <1>8, <1>9, <1>10, <1>11
       DEF AgentSide

\* A step of the control plane that touches no session: a handler's or the
\* link's own.
LEMMA LinkSteps ==
    ASSUME AllTypesOK, ClusterInv, NEW s \in Streams,
           \A t \in Streams \ {s} : link'[t] = link[t] /\ stream'[t] = stream[t],
           link'[s].node = link[s].node,
           link'[s].up => link[s].up,
           stream'[s].pc \in {"update", "ack", "loop"} =>
             \/ stream'[s].capRegs = regs[link[s].node]
             \/ Serving(s) /\ stream'[s].capRegs = stream[s].capRegs,
           UNCHANGED <<agentVars, session, call, overtaken, regs>>
    PROVE  ClusterInv'
  <1>1. SessionPlaces'
    BY DEF SessionPlaces, ClusterInv, agentVars
  <1>2. SessionLinks'
    BY DEF SessionLinks, ClusterInv, AllTypesOK, ClusterTypeOK
  <1>3. LiveIsHeld'
    BY DEF LiveIsHeld, ClusterInv, AllTypesOK, ClusterTypeOK
  <1>4. HeldOwns'
    BY DEF HeldOwns, SessionLinks, ClusterInv, Serving, AllTypesOK, ClusterTypeOK
  <1> QED
    BY <1>1, <1>2, <1>3, <1>4 DEF ClusterInv

\* The registrations so far are not changed by heartbeats and removals.
LEMMA RegsKept ==
    /\ \A n, ts : UpdateHeartbeat(n, ts) => UNCHANGED regs
    /\ \A n, c : RemoveIfConnectionMatches(n, c) => UNCHANGED regs
  BY DEF UpdateHeartbeat, RemoveIfConnectionMatches, Remove, registryVars

\* A handler that returns serves nobody.
LEMMA ReturnServesNobody ==
    ASSUME ServerTypeOK, NEW s \in Streams, Return(s)
    PROVE  /\ stream'[s].pc = "idle"
           /\ \A t \in Streams \ {s} : stream'[t] = stream[t]
  BY DEF ServerTypeOK, Return, NoHandler

LEMMA GoToKeepsLocals ==
    ASSUME ServerTypeOK, NEW s \in Streams, NEW label, GoTo(s, label)
    PROVE  /\ stream'[s].pc = label /\ stream'[s].capRegs = stream[s].capRegs
           /\ \A t \in Streams \ {s} : stream'[t] = stream[t]
  BY DEF ServerTypeOK, GoTo, Handlers

LEMMA ServerSideInv ==
    ASSUME AllTypesOK, ClusterInv, NEW s \in Streams, ServerSide(s) \/ Break(s)
    PROVE  ClusterInv'
  <1>0. ServerTypeOK /\ link \in [Streams -> Links]
    BY DEF AllTypesOK, ClusterTypeOK
  <1>1. CASE Receive(s)
    <2> DEFINE m == Beat(link[s].node)
    <2>1. /\ link'[s].node = link[s].node /\ link'[s].up = link[s].up
          /\ \A t \in Streams \ {s} : link'[t] = link[t]
          /\ UNCHANGED <<agentVars, session, call, overtaken>>
      BY <1>0, <1>1 DEF Receive, Taken, Links
    <2>2. CASE RecvFirst(s, m)
      <3>1. /\ stream'[s].capRegs = regs[link[s].node]
            /\ \A t \in Streams \ {s} : stream'[t] = stream[t]
            /\ UNCHANGED regs
        BY <1>0, <2>2 DEF RecvFirst, Beat, ServerTypeOK, registryVars
      <3> QED
        BY <2>1, <3>1, LinkSteps
    <2>3. CASE RecvLoop(s, m)
      <3>1. UNCHANGED <<stream, regs>> /\ Serving(s)
        BY <2>3, RegsKept DEF RecvLoop, Serving
      <3> QED
        BY <2>1, <3>1, LinkSteps
    <2> QED
      BY <1>1, <2>2, <2>3 DEF Receive
  <1>2. CASE Apply(s)
    <2>1. /\ Serving(s) /\ stream'[s].capRegs = stream[s].capRegs
          /\ \A t \in Streams \ {s} : stream'[t] = stream[t]
          /\ UNCHANGED regs
      BY <1>0, <1>2, RegsKept, GoToKeepsLocals DEF Apply, FirstUpdate, Serving
    <2> QED
      BY <1>2, <2>1, LinkSteps DEF Apply, linkVars
  <1>3. CASE Acknowledge(s)
    <2>1. /\ Serving(s) /\ stream'[s].capRegs = stream[s].capRegs
          /\ \A t \in Streams \ {s} : stream'[t] = stream[t]
          /\ UNCHANGED regs
      BY <1>0, <1>3, GoToKeepsLocals
         DEF Acknowledge, SendFirstAck, Serving, registryVars
    <2>2. /\ link'[s].node = link[s].node /\ link'[s].up = link[s].up
          /\ \A t \in Streams \ {s} : link'[t] = link[t]
      BY <1>0, <1>3 DEF Acknowledge, Links
    <2> QED
      BY <1>3, <2>1, <2>2, LinkSteps DEF Acknowledge
  <1>4. CASE MeetBreak(s)
    <2>1. /\ stream'[s].pc = "idle"
          /\ \A t \in Streams \ {s} : stream'[t] = stream[t]
          /\ UNCHANGED regs
      BY <1>0, <1>4, RegsKept, ReturnServesNobody
         DEF MeetBreak, RecvFirstFails, SendFirstAckFails, StreamEnd, registryVars
    <2>2. /\ link'[s].node = link[s].node /\ link'[s].up = link[s].up
          /\ \A t \in Streams \ {s} : link'[t] = link[t]
      BY <1>0, <1>4 DEF MeetBreak, Links
    <2> QED
      BY <1>4, <2>1, <2>2, LinkSteps DEF MeetBreak
  <1>5. CASE EndAcker(s)
    <2>1. UNCHANGED <<registryVars, stream, agentVars, linkVars>>
      BY <1>5 DEF EndAcker, AckerStops
    <2> QED
      BY <2>1, LinkSteps DEF linkVars, registryVars, Serving
  <1>6. CASE Break(s)
    <2>1. /\ link'[s].node = link[s].node /\ link'[s].up = FALSE
          /\ \A t \in Streams \ {s} : link'[t] = link[t]
      BY <1>0, <1>6 DEF Break, Links
    <2> QED
      BY <1>6, <2>1, LinkSteps DEF Break, serverVars, registryVars, Serving
  <1> QED
    BY <1>1, <1>2, <1>3, <1>4, <1>5, <1>6 DEF ServerSide

\* A Register call is served.  Its agent holds no stream if it still waits for
\* the answer, and is overtaken if it does not.
LEMMA ServeInv ==
    ASSUME AllTypesOK, ClusterInv, NEW n \in Nodes,
           ServeRegister(n) \/ ServeLate(n) \/ DropLate(n)
    PROVE  ClusterInv'
  <1> USE DEF AllTypesOK, ClusterTypeOK
  <1>1. UNCHANGED <<link, session, agent, stream>>
    BY DEF ServeRegister, ServeLate, DropLate, RegisterRPC, agentVars, serverVars
  <1>2. \A m \in Nodes \ {n} : regs'[m] = regs[m]
    BY DEF ServeRegister, ServeLate, DropLate, RegisterRPC, Register,
           serverVars, registryVars, RegistryTypeOK
  <1>3. SessionLinks' /\ LiveIsHeld'
    BY <1>1 DEF SessionLinks, LiveIsHeld, ClusterInv
  <1>4. CASE ServeRegister(n)
    <2>1. /\ call[n] = "sent" /\ call' = [call EXCEPT ![n] = "served"]
          /\ overtaken' = overtaken \ {n}
      BY <1>4 DEF ServeRegister
    <2>2. session[n] = NoStream /\ agent[n].pc = "register"
      BY <2>1 DEF ClusterInv, SessionPlaces
    <2>3. SessionPlaces'
      BY <1>1, <2>1, <2>2 DEF ClusterInv, SessionPlaces
    <2>4. HeldOwns'
      BY <1>1, <1>2, <2>1, <2>2 DEF ClusterInv, HeldOwns, Serving
    <2> QED
      BY <1>3, <2>3, <2>4 DEF ClusterInv
  <1>5. CASE ServeLate(n)
    <2>1. SessionPlaces'
      BY <1>1, <1>5 DEF ClusterInv, SessionPlaces, ServeLate
    <2>2. HeldOwns'
      BY <1>1, <1>2, <1>5 DEF ClusterInv, HeldOwns, Serving, ServeLate
    <2> QED
      BY <1>3, <2>1, <2>2 DEF ClusterInv
  <1>6. CASE DropLate(n)
    BY <1>1, <1>3, <1>6
       DEF ClusterInv, SessionPlaces, HeldOwns, Serving, DropLate, serverVars,
           registryVars
  <1> QED
    BY <1>4, <1>5, <1>6

LEMMA ClusterInvStep ==
    ASSUME AllTypesOK, ClusterInv, [ClusterNext]_clusterVars
    PROVE  ClusterInv'
  <1>1. CASE Outage
    <2>1. /\ UNCHANGED <<agent, session, regs, overtaken>>
          /\ \A n \in Nodes : call'[n] # "none" => call[n] # "none"
      BY <1>1 DEF Outage, Crash, Restart, agentVars, AllTypesOK, ClusterTypeOK
    <2>2. \A s \in Streams : stream'[s].pc = "idle"
      BY <1>1 DEF Outage, Crash, NoHandler
    <2>3. ASSUME NEW s \in Streams
          PROVE  ~link'[s].up /\ link'[s].node = link[s].node
      <3> DEFINE down == [link[s] EXCEPT !.up = FALSE]
      <3>1. link[s] \in Links
        BY DEF AllTypesOK, ClusterTypeOK
      <3>2. down \in Links /\ ~down.up /\ down.node = link[s].node
        BY <3>1 DEF Links
      <3>3. link'[s] = [down EXCEPT !.queue = 0]
        BY <1>1 DEF Outage
      <3> HIDE DEF down
      <3> QED
        BY <3>2, <3>3 DEF Links
    <2>4. SessionPlaces'
      BY <2>1 DEF SessionPlaces, ClusterInv
    <2>5. SessionLinks'
      BY <2>1, <2>3 DEF SessionLinks, ClusterInv, AllTypesOK, ClusterTypeOK
    <2>6. LiveIsHeld' /\ HeldOwns'
      BY <2>1, <2>2, <2>3
         DEF LiveIsHeld, HeldOwns, Serving, AllTypesOK, ClusterTypeOK
    <2> QED
      BY <2>4, <2>5, <2>6 DEF ClusterInv
  <1>2. CASE TimePasses \/ Cleanup \/ UNCHANGED clusterVars
    <2>1. UNCHANGED <<agent, session, call, link, overtaken, stream, regs>>
      BY <1>2 DEF TimePasses, Cleanup, Tick, StaleNodeCleanup, clusterVars,
                  linkVars, agentVars, serverVars, registryVars
    <2> QED
      BY <2>1 DEF ClusterInv, SessionPlaces, SessionLinks, LiveIsHeld, HeldOwns,
                  Serving
  <1> QED
    BY <1>1, <1>2, AgentSideInv, ServerSideInv, ServeInv DEF ClusterNext

LEMMA ClusterInvariant == ClusterSpec => [](AllTypesOK /\ ClusterInv)
  BY ClusterInvInit, ClusterInvStep, AllTypes, PTL DEF ClusterSpec

\* However attempts and sessions end, an agent never has two live streams.
THEOREM StreamsAreSingle == ClusterSpec => []OneLiveStream
  <1>1. LiveIsHeld => OneLiveStream
    BY DEF LiveIsHeld, OneLiveStream
  <1> QED
    BY <1>1, ClusterInvariant, PTL DEF ClusterInv

\* The handler of a session holds the registration the session rests on,
\* unless a call given up before was served after it.
THEOREM SessionsOwn == ClusterSpec => []SessionOwnsRegistration
  <1>1. HeldOwns => SessionOwnsRegistration
    BY DEF HeldOwns, SessionOwnsRegistration
  <1> QED
    BY <1>1, ClusterInvariant, PTL DEF ClusterInv

-----------------------------------------------------------------------------
(* The handshake.                                                          *)

\* Nothing has been sent on any stream, in either direction.
Silent ==
    /\ \A n \in Nodes : agent[n].pc \notin {"run", "busy"}
    /\ \A s \in Streams : /\ ~link[s].headers /\ link[s].queue = 0
                          /\ stream[s].pc \in {"idle", "first"}

LEMMA SilentAgents ==
    ASSUME ~EagerHeaders, AllTypesOK, Silent, NEW n \in Nodes,
           \/ AgentSide(n) \/ GiveUpConnect(n) \/ Interrupt(n) \/ Kill(n)
           \/ ServeRegister(n) \/ ServeLate(n) \/ DropLate(n)
    PROVE  Silent'
  <1> USE ClusterAssumption DEF AllTypesOK, ClusterTypeOK
  <1>a. ASSUME agent'[n].pc \notin {"run", "busy"},
               \A m \in Nodes \ {n} : agent'[m] = agent[m],
               UNCHANGED serverVars,
               HangUp(n) \/ UNCHANGED link
        PROVE  Silent'
    <2>1. \A s \in Streams : /\ link'[s].headers = link[s].headers
                             /\ link'[s].queue = link[s].queue
      BY <1>a DEF HangUp, Links
    <2> QED
      BY <1>a, <2>1 DEF Silent, serverVars
  <1>1. CASE Dial(n) \/ RegisterAnswered(n)
    <2>1. /\ agent'[n].pc \in {"register", "open"}
          /\ \A m \in Nodes \ {n} : agent'[m] = agent[m]
      BY <1>1, AgentMoves DEF Dial, Dialled, RegisterAnswered, RegisterAccepted, AgentAt
    <2> QED
      BY <1>1, <1>a, <2>1 DEF Dial, RegisterAnswered
  <1>2. ASSUME NEW s \in Streams, Open(n, s) PROVE Silent'
    <2>1. /\ agent'[n].pc = "await"
          /\ \A m \in Nodes \ {n} : agent'[m] = agent[m]
      BY <1>2, AgentMoves DEF Open, StreamRequested, AgentAt
    <2>2. /\ ~link'[s].headers /\ link'[s].queue = 0
          /\ \A t \in Streams \ {s} : link'[t] = link[t]
      BY <1>2 DEF Open
    <2>3. /\ stream'[s].pc = "first"
          /\ \A t \in Streams \ {s} : stream'[t] = stream[t]
      BY <1>2 DEF Open, OpenStream, GoTo, ServerTypeOK, Handlers
    <2> QED
      BY <2>1, <2>2, <2>3 DEF Silent
  <1>3. ~AwaitEnds(n)
    BY DEF AwaitEnds, Silent
  <1>4. /\ ~CollectBeat(n) /\ ~SendBeat(n)
        /\ ~LoseSession(n) /\ ~Interrupt(n)
    BY DEF CollectBeat, BeatDue, SendBeat, BeatQueued, LoseSession, SessionEnds,
           InSession, Interrupt, CtrlC, AgentAt, Silent
  <1>5. CASE Reconnect(n)
    <2>1. /\ agent'[n].pc = "dial"
          /\ \A m \in Nodes \ {n} : agent'[m] = agent[m]
      BY <1>5 DEF Reconnect, Wake, AgentTypeOK
    <2> QED
      BY <1>5, <1>a, <2>1 DEF Reconnect, linkVars
  <1>6. CASE GiveUpConnect(n)
    BY <1>6, <1>a, AfterAttemptMoves DEF GiveUpConnect, ConnectFails
  <1>7. CASE Kill(n)
    <2>1. /\ agent'[n].pc = "stopped"
          /\ \A m \in Nodes \ {n} : agent'[m] = agent[m]
      BY <1>7, AgentMoves DEF Kill, Killed, AgentAt
    <2> QED
      BY <1>7, <1>a, <2>1 DEF Kill
  <1>8. CASE ServeRegister(n) \/ ServeLate(n) \/ DropLate(n)
    BY <1>8 DEF ServeRegister, ServeLate, DropLate, RegisterRPC, agentVars,
                serverVars, Silent
  <1> QED
    BY <1>1, <1>2, <1>3, <1>4, <1>5, <1>6, <1>7, <1>8 DEF AgentSide

LEMMA SilentHandlers ==
    ASSUME AllTypesOK, Silent, NEW s \in Streams, ServerSide(s) \/ Break(s)
    PROVE  Silent'
  <1>0. ServerTypeOK /\ link \in [Streams -> Links]
    BY DEF AllTypesOK, ClusterTypeOK
  <1>1. ~Receive(s) /\ ~Apply(s) /\ ~Acknowledge(s)
    <2>1. link[s].queue = 0 /\ stream[s].pc \in {"idle", "first"}
      BY DEF Silent
    <2> QED
      BY <2>1 DEF Receive, Apply, FirstUpdate, Acknowledge, SendFirstAck
  <1>2. CASE MeetBreak(s)
    <2>1. /\ stream'[s].pc = "idle"
          /\ \A t \in Streams \ {s} : stream'[t] = stream[t]
      BY <1>0, <1>2, ReturnServesNobody
         DEF MeetBreak, RecvFirstFails, SendFirstAckFails, StreamEnd
    <2>2. /\ link'[s].headers = link[s].headers /\ link'[s].queue = 0
          /\ \A t \in Streams \ {s} : link'[t] = link[t]
      BY <1>0, <1>2 DEF MeetBreak, Links
    <2> QED
      BY <1>2, <2>1, <2>2 DEF Silent, MeetBreak, agentVars
  <1>3. CASE EndAcker(s)
    BY <1>3 DEF EndAcker, AckerStops, agentVars, linkVars, Silent
  <1>4. CASE Break(s)
    <2>1. \A t \in Streams : /\ link'[t].headers = link[t].headers
                             /\ link'[t].queue = link[t].queue
      BY <1>0, <1>4 DEF Break, Links
    <2> QED
      BY <1>4, <2>1 DEF Break, Silent, agentVars, serverVars
  <1> QED
    BY <1>1, <1>2, <1>3, <1>4 DEF ServerSide

\* With response headers that wait for the handler's first message, as grpc-go
\* sends them, no session ever begins: agent and handler wait for each other
\* in every attempt, however many agents there are and whatever fails.
THEOREM HandshakeNeverEnds == ClusterSpec => []NoSessionBegins
  <1>1. ASSUME ~EagerHeaders, ClusterInit PROVE Silent
    BY <1>1, ClusterAssumption
       DEF ClusterInit, AgentInit, ServerInit, NoLink, NoHandler, Silent
  <1>2. ASSUME ~EagerHeaders, AllTypesOK, Silent, [ClusterNext]_clusterVars
        PROVE  Silent'
    <2> USE <1>2
    <2>1. CASE Outage
      <3>1. UNCHANGED agent /\ \A s \in Streams : stream'[s].pc = "idle"
        BY <2>1 DEF Outage, Crash, NoHandler, agentVars
      <3>2. ASSUME NEW s \in Streams
            PROVE  link'[s].headers = link[s].headers /\ link'[s].queue = 0
        <4> DEFINE down == [link[s] EXCEPT !.up = FALSE]
        <4>1. link[s] \in Links
          BY DEF AllTypesOK, ClusterTypeOK
        <4>2. down \in Links /\ down.headers = link[s].headers
          BY <4>1 DEF Links
        <4>3. link'[s] = [down EXCEPT !.queue = 0]
          BY <2>1 DEF Outage
        <4> HIDE DEF down
        <4> QED
          BY <4>2, <4>3 DEF Links
      <3> QED
        BY <3>1, <3>2 DEF Silent
    <2>2. CASE TimePasses \/ Cleanup \/ UNCHANGED clusterVars
      BY <2>2 DEF TimePasses, Cleanup, clusterVars, linkVars, agentVars,
                  serverVars, Silent
    <2> QED
      BY <2>1, <2>2, SilentAgents, SilentHandlers DEF ClusterNext
  <1>3. Silent => NoSessionBegins
    BY DEF Silent, NoSessionBegins, InSession, Serving
  <1>4. CASE EagerHeaders
    <2>1. NoSessionBegins
      BY <1>4 DEF NoSessionBegins
    <2> QED
      BY <2>1, PTL
  <1>5. CASE ~EagerHeaders
    <2>1. ClusterInit => Silent
      BY <1>1, <1>5
    <2>2. AllTypesOK /\ Silent /\ [ClusterNext]_clusterVars => Silent'
      BY <1>2, <1>5
    <2> QED
      BY <1>3, <2>1, <2>2, AllTypes, PTL DEF ClusterSpec
  <1> QED
    BY <1>4, <1>5

\* With agents, transport and faults, the list of nodes still keeps the
\* promises of Membership.
THEOREM ClusterImplementsMembership == ClusterSpec => ImplementsMembership
  BY PartSteps, ServerImplementsMembership
=============================================================================
