------------------------------ MODULE Cluster -------------------------------
(***************************************************************************)
(* Agents and control plane together: every step of connect() and of the   *)
(* agent's event loop joined to the handler it talks to, over gRPC calls   *)
(* and streams.  AgentServer lets the environment send anything; here it   *)
(* is the agents that send, and what they send is all there is.            *)
(*                                                                         *)
(* The transport is external (tonic and grpc-go) and is modelled from how  *)
(* the two sides use it: a stream delivers in order until it breaks; what  *)
(* was sent before a break may still be delivered; a call given up by the  *)
(* agent may still be served.  EagerHeaders says whether response headers  *)
(* are sent when the handler starts.  grpc-go sends them with the first    *)
(* message of the handler: FALSE is the program as it is.                  *)
(***************************************************************************)
EXTENDS AgentServer, Agent

CONSTANTS
    EagerHeaders,   \* headers do not wait for the handler's first message
    Faults,         \* connections may break, calls and the process fail
    ChannelSize,    \* beats an agent can have under way (16 and buffers)
    MaxLate,        \* bound of the model: given-up calls still under way
    NoStream        \* the stream of an agent that has none

ASSUME ClusterAssumption ==
    /\ Agents = Nodes
    /\ NoStream \notin Streams
    /\ ChannelSize \in Nat \ {0}
    /\ MaxLate \in Nat
    /\ EagerHeaders \in BOOLEAN /\ Faults \in BOOLEAN

VARIABLES
    link,       \* transport of each stream: [node, up, headers, queue]
    session,    \* agent -> the stream it opened last
    call,       \* agent -> its Register call: "none", "sent" or "served"
    late,       \* agent -> its given-up Register calls still under way
    overtaken   \* history: agents one of whose given-up calls was served
                \* after the call their current session rests on

linkVars == <<link, session, call, late, overtaken>>
clusterVars == <<serverVars, agentVars, linkVars>>

-----------------------------------------------------------------------------
NoLink == [node |-> BadID, up |-> FALSE, headers |-> FALSE, queue |-> 0]

Links == [node : Nodes \cup {BadID}, up : BOOLEAN, headers : BOOLEAN,
          queue : 0..ChannelSize]

\* The agent reports no tasks: send_heartbeat always sends an empty list.
Beat(n) == [node |-> n, tasks |-> << >>]

ClusterInit ==
    /\ ServerInit
    /\ AgentInit
    /\ link = [s \in Streams |-> NoLink]
    /\ session = [n \in Nodes |-> NoStream]
    /\ call = [n \in Nodes |-> "none"]
    /\ late = [n \in Nodes |-> 0]
    /\ overtaken = {}

\* The link of the agent's stream goes down, if it has one.
HangUp(n) ==
    /\ link' = [s \in Streams |->
                  IF s = session[n] THEN [link[s] EXCEPT !.up = FALSE]
                                    ELSE link[s]]
    /\ session' = [session EXCEPT ![n] = NoStream]

-----------------------------------------------------------------------------
(* Connecting.                                                             *)

Dial(n) ==
    /\ Dialled(n)
    /\ call' = [call EXCEPT ![n] = "sent"]
    /\ UNCHANGED <<serverVars, link, session, late, overtaken>>

\* The control plane serves the call.
ServeRegister(n) ==
    /\ call[n] = "sent"
    /\ RegisterRPC(n)
    /\ call' = [call EXCEPT ![n] = "served"]
    /\ overtaken' = overtaken \ {n}
    /\ UNCHANGED <<agentVars, link, session, late>>

\* The control plane serves a call its agent has given up.
ServeLate(n) ==
    /\ late[n] > 0
    /\ RegisterRPC(n)
    /\ late' = [late EXCEPT ![n] = @ - 1]
    /\ overtaken' = overtaken \cup {n}
    /\ UNCHANGED <<agentVars, link, session, call>>

\* A given-up call is cancelled before it is served.
DropLate(n) ==
    /\ late[n] > 0
    /\ late' = [late EXCEPT ![n] = @ - 1]
    /\ UNCHANGED <<serverVars, agentVars, link, session, call, overtaken>>

\* Mutant: the agent does not wait for the answer.
RegisterNotAwaited(n) ==
    /\ RegisterAccepted(n)
    /\ UNCHANGED <<serverVars, linkVars>>

RegisterAnswered(n) ==
    /\ call[n] = "served"
    /\ RegisterAccepted(n)
    /\ call' = [call EXCEPT ![n] = "none"]
    /\ UNCHANGED <<serverVars, link, session, late, overtaken>>

\* A stream is opened and its handler started.
Open(n, s) ==
    /\ \A m \in Nodes : session[m] # s
    /\ StreamRequested(n)
    /\ OpenStream(s)
    /\ link' = [link EXCEPT ![s] = [node |-> n, up |-> TRUE,
                                    headers |-> EagerHeaders, queue |-> 0]]
    /\ session' = [session EXCEPT ![n] = s]
    /\ UNCHANGED <<call, late, overtaken>>

\* The headers arrive; only now is the first heartbeat sent.
AwaitEnds(n) ==
    /\ session[n] # NoStream
    /\ link[session[n]].headers /\ link[session[n]].up
    /\ Connected(n)
    /\ link' = [link EXCEPT ![session[n]].queue = 1]
    /\ UNCHANGED <<serverVars, session, call, late, overtaken>>

\* The 10 s timeout of the endpoint: without faults it only strikes an agent
\* whose headers cannot come, because the handler waits for a message that
\* the agent has not sent.
AwaitStuck(n) ==
    /\ agent[n].pc = "await"
    /\ LET s == session[n]
       IN  ~link[s].headers /\ stream[s].pc = "first" /\ link[s].queue = 0

\* An agent whose connect() can only time out or fail.
Doomed(n) ==
    \/ AwaitStuck(n)
    \/ agent[n].pc = "register" /\ call[n] = "none"
    \/ agent[n].pc = "await" /\ ~link[session[n]].up

\* A Register call under way is given up.
AbandonCall(n) ==
    /\ late' = IF call[n] = "sent" /\ late[n] < MaxLate
               THEN [late EXCEPT ![n] = @ + 1] ELSE late
    /\ call' = [call EXCEPT ![n] = "none"]

GiveUpConnect(n) ==
    /\ Faults \/ AwaitStuck(n)
    /\ ConnectFails(n)
    /\ HangUp(n)
    /\ AbandonCall(n)
    /\ UNCHANGED <<serverVars, overtaken>>

-----------------------------------------------------------------------------
(* In session.                                                             *)

CollectBeat(n) == BeatDue(n) /\ UNCHANGED <<serverVars, linkVars>>

\* The beat goes onto the channel; a full channel makes the agent wait.
SendBeat(n) ==
    /\ BeatQueued(n)
    /\ link[session[n]].up
    /\ link[session[n]].queue < ChannelSize
    /\ link' = [link EXCEPT ![session[n]].queue = @ + 1]
    /\ UNCHANGED <<serverVars, session, call, late, overtaken>>

\* Mutant: the connection is kept when the session is over.
LoseSessionKeepsLink(n) ==
    /\ session[n] # NoStream
    /\ SessionEnds(n)
    /\ session' = [session EXCEPT ![n] = NoStream]
    /\ UNCHANGED <<serverVars, link, call, late, overtaken>>

\* The agent finds the stream ended and drops the connection.
LoseSession(n) ==
    /\ SessionEnds(n)
    /\ ~link[session[n]].up
    /\ HangUp(n)
    /\ UNCHANGED <<serverVars, call, late, overtaken>>

Interrupt(n) ==
    /\ CtrlC(n)
    /\ HangUp(n)
    /\ UNCHANGED <<serverVars, call, late, overtaken>>

\* The process dies; its connection is closed for it.
Kill(n) ==
    /\ Faults
    /\ Killed(n)
    /\ HangUp(n)
    /\ AbandonCall(n)
    /\ UNCHANGED <<serverVars, overtaken>>

Reconnect(n) == Wake(n) /\ UNCHANGED <<serverVars, linkVars>>

-----------------------------------------------------------------------------
(* The control plane's side of a stream.                                   *)

Taken(s) == link' = [link EXCEPT ![s].queue = @ - 1]

Receive(s) ==
    /\ link[s].queue > 0
    /\ RecvFirst(s, Beat(link[s].node)) \/ RecvLoop(s, Beat(link[s].node))
    /\ Taken(s)
    /\ UNCHANGED <<agentVars, session, call, late, overtaken>>

Apply(s) == FirstUpdate(s) /\ UNCHANGED <<agentVars, linkVars>>

Acknowledge(s) ==
    /\ SendFirstAck(s)
    /\ link' = [link EXCEPT ![s].headers = TRUE]
    /\ UNCHANGED <<agentVars, session, call, late, overtaken>>

\* The handler meets the broken link: in its first Recv, in its first Send
\* or in the loop.
MeetBreak(s) ==
    /\ ~link[s].up
    /\ RecvFirstFails(s) \/ SendFirstAckFails(s) \/ StreamEnd(s)
    /\ link' = [link EXCEPT ![s].queue = 0]
    /\ UNCHANGED <<agentVars, session, call, late, overtaken>>

\* The ack goroutine sees its handler gone.  Its periodic acks, which agents
\* only drain, are left to AgentServer.
EndAcker(s) == AckerStops(s) /\ UNCHANGED <<agentVars, linkVars>>

\* The connection breaks, or MaxConnectionAge closes it.
Break(s) ==
    /\ Faults
    /\ link[s].up
    /\ link' = [link EXCEPT ![s].up = FALSE]
    /\ UNCHANGED <<serverVars, agentVars, session, call, late, overtaken>>

\* The control plane dies: every connection breaks and every call is lost.
Outage ==
    /\ Faults
    /\ Crash
    /\ link' = [s \in Streams |-> [link[s] EXCEPT !.up = FALSE, !.queue = 0]]
    /\ late' = [n \in Nodes |-> 0]
    /\ call' = [n \in Nodes |-> IF call[n] = "sent" THEN "none" ELSE call[n]]
    /\ UNCHANGED <<agentVars, session, overtaken>>

TimePasses == Tick /\ UNCHANGED <<stream, acker, agentVars, linkVars>>

Cleanup == StaleNodeCleanup /\ UNCHANGED <<stream, acker, agentVars, linkVars>>

AgentSide(n) ==
    \/ Dial(n)
    \/ RegisterAnswered(n)
    \/ \E s \in Streams : Open(n, s)
    \/ AwaitEnds(n)
    \/ CollectBeat(n)
    \/ SendBeat(n)
    \/ LoseSession(n)
    \/ Reconnect(n)

ServerSide(s) == Receive(s) \/ Apply(s) \/ Acknowledge(s) \/ MeetBreak(s) \/ EndAcker(s)

ClusterNext ==
    \/ \E n \in Nodes : \/ AgentSide(n) \/ GiveUpConnect(n) \/ Interrupt(n) \/ Kill(n)
                        \/ ServeRegister(n) \/ ServeLate(n) \/ DropLate(n)
    \/ \E s \in Streams : ServerSide(s) \/ Break(s)
    \/ Outage
    \/ TimePasses
    \/ Cleanup

ClusterSpec == ClusterInit /\ [][ClusterNext]_clusterVars

(* Agents and handlers are scheduled, calls are served, timers fire, time  *)
(* passes, and no connection outlives its MaxConnectionAge.  Nobody has to *)
(* press Ctrl-C.                                                           *)
ClusterFairness ==
    /\ \A n \in Nodes : /\ WF_clusterVars(AgentSide(n))
                        /\ WF_clusterVars(Doomed(n) /\ GiveUpConnect(n))
                        /\ WF_clusterVars(ServeRegister(n))
                        /\ WF_clusterVars(ServeLate(n) \/ DropLate(n))
    /\ \A s \in Streams : WF_clusterVars(ServerSide(s)) /\ WF_clusterVars(Break(s))
    /\ WF_clusterVars(TimePasses)
    /\ WF_clusterVars(Cleanup)

ClusterFairSpec == ClusterSpec /\ ClusterFairness

-----------------------------------------------------------------------------
(* Properties.                                                             *)

\* Type invariant of the transport.
ClusterTypeOK ==
    /\ link \in [Streams -> Links]
    /\ session \in [Nodes -> Streams \cup {NoStream}]
    /\ call \in [Nodes -> {"none", "sent", "served"}]
    /\ late \in [Nodes -> 0..MaxLate]
    /\ overtaken \subseteq Nodes

\* An agent never has two live streams: whatever ended the previous attempt
\* or session, connect() and the drop of the connection let go of its stream
\* before the next one is opened.
OneLiveStream ==
    \A s, t \in Streams :
        link[s].up /\ link[t].up /\ link[s].node = link[t].node => s = t

\* The handler of an agent's session holds the number of the registration
\* that session made, unless a call the agent had given up was served later:
\* so when the session ends its node is removed at once, not at the next
\* cleanup.
SessionOwnsRegistration ==
    \A n \in Nodes :
        InSession(n) /\ session[n] # NoStream /\ Serving(session[n])
            /\ n \notin overtaken
        => stream[session[n]].capRegs = regs[n]

\* An agent that has ended for good is not listed for good: neither a handler
\* that returned without removing it, nor a late beat, nor a registration
\* served after the agent was gone keeps it in the map.
EndedAgentLeaves ==
    \A n \in Nodes :
        <>[](agent[n].pc \in {"gaveUp", "stopped"})
            => <>[](n \notin DOMAIN nodes)

\* A node that the cleanup unlisted while its stream stayed open comes back,
\* unless its agent ends: heartbeats do not list it again, but the connection
\* reaches its age, and the agent's way back leads through Register.  (The
\* model allows MaxRegs registrations.)
UnlistedComesBack ==
    \A n \in Nodes :
        (InSession(n) /\ n \notin DOMAIN nodes /\ regs[n] < MaxRegs)
            ~> (n \in DOMAIN nodes \/ agent[n].pc \in {"gaveUp", "stopped"})

\* What heartbeat.rs says: opening the stream and sending the first heartbeat
\* is what keeps the server from waiting, so with nothing broken an agent gets
\* into a session.  It fails: connect() sends the first heartbeat only after
\* the response headers, and the handler sends nothing before that heartbeat.
AgentGetsConnected == \A n \in Nodes : <>InSession(n)

\* How it fails, for every number of agents and with every fault: while headers
\* wait for the handler's first message, no agent is ever in a session and no
\* handler ever has a beat to apply.
NoSessionBegins ==
    ~EagerHeaders =>
        /\ \A n \in Nodes : ~InSession(n)
        /\ \A s \in Streams : ~Serving(s)
=============================================================================
